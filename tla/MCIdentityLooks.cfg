\* Two persons, who look different.
SPECIFICATION Spec
CONSTANTS
  Cameras = {c1, c2}
  LocalIds = {1}
  Looks = {"anna", "bert"}
  Near <- NoneNear
  Ids = {i1, i2, i3, i4}
  Ttl = 1
  MaxBatches = 2
  Faults = {"write", "kafka"}
  None = None
SYMMETRY IdSymmetry
INVARIANTS AnnouncedIdentitiesStored StopExpiresTracks
PROPERTIES ImplementsTrackEvents DuplicatesOnlyFromOneBatch
CHECK_DEADLOCK FALSE
