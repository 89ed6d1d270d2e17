SPECIFICATION Spec
CONSTANTS
  Cameras = {c1, c2}
  LocalIds = {1}
  Looks = {"anna", "bert"}
  Near <- NoneNear
  Ids = {i1, i2, i3, i4}
  Ttl = 1
  MaxBatches = 1
  Faults = {}
  None = None
INVARIANT ClosedForGood
CHECK_DEADLOCK FALSE
