\* One person may be seen by two cameras, and every call may fail.
SPECIFICATION FairSpec
CONSTANTS
  Cameras = {c1, c2}
  LocalIds = {1}
  Looks = {"anna"}
  Near <- NoneNear
  Ids = {i1, i2}
  Ttl = 1
  MaxBatches = 2
  Faults = {"lookup", "write", "kafka"}
  None = None
INVARIANTS AnnouncedIdentitiesStored StopExpiresTracks
PROPERTIES ImplementsTrackEvents DuplicatesOnlyFromOneBatch FirstSeenLostOnlyByFailedLookup GoneTracksExpire
CHECK_DEADLOCK FALSE
