\* As many slots as cameras: the loop may retain them all, and a publisher waits for ever.
SPECIFICATION FairSpec
CONSTANTS
  Cameras = {c1, c2}
  Policies = {"block"}
  QueueSize = 1
  MaxSlots = 2
  UseSharedMemory = TRUE
  MaxFrames = 2
PROPERTIES
  BlockedPublisherResumes
CHECK_DEADLOCK FALSE
