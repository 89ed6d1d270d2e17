SPECIFICATION Spec
CONSTANTS
  Cameras = {c1}
  LocalIds = {1}
  Looks = {"anna", "bert"}
  Near <- NoneNear
  Ids = {i1, i2}
  Ttl = 1
  MaxBatches = 2
  Faults = {"lookup"}
  None = None
PROPERTY FirstSeenPreserved
CHECK_DEADLOCK FALSE
