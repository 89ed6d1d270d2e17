\* Two cameras and every policy; a queue of two and a pool of three both fill up.
SPECIFICATION Spec
CONSTANTS
  Cameras = {c1, c2}
  Policies = {"drop_oldest", "drop_newest", "block"}
  QueueSize = 2
  MaxSlots = 3
  UseSharedMemory = TRUE
  MaxFrames = 2
INVARIANTS
  NoSlotShared
  NoSlotLost
  FrameIntegrity
  NoLostWakeup
  NeverAllWaiting
PROPERTIES
  ImplementsFrameQueue
CHECK_DEADLOCK FALSE
