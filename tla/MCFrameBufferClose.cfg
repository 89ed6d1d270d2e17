\* The buffer is closed while a capture thread or the loop still has a packet.
SPECIFICATION Spec
CONSTANTS
  Cameras = {c1, c2}
  Policies = {"drop_oldest", "drop_newest", "block"}
  QueueSize = 1
  MaxSlots = 2
  UseSharedMemory = TRUE
  MaxFrames = 1
INVARIANTS
  CloseReclaimsSegments
CHECK_DEADLOCK FALSE
