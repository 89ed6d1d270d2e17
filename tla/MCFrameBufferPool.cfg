\* Three slots for the one camera: the packet retained, the one just taken out, the one captured.
SPECIFICATION Spec
CONSTANTS
  Cameras = {c1}
  Policies = {"drop_oldest", "drop_newest", "block"}
  QueueSize = 1
  MaxSlots = 3
  UseSharedMemory = TRUE
  MaxFrames = 5
INVARIANTS
  PublisherNeverStarved
CHECK_DEADLOCK FALSE
