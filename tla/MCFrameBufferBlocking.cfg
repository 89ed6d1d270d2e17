\* The blocking policy: publishers wait for space in a queue of one, or for one of three slots.
SPECIFICATION FairSpec
CONSTANTS
  Cameras = {c1, c2}
  Policies = {"block"}
  QueueSize = 1
  MaxSlots = 3
  UseSharedMemory = TRUE
  MaxFrames = 2
PROPERTIES
  BlockedPublisherResumes
CHECK_DEADLOCK FALSE
