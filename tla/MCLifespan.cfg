SPECIFICATION FairSpec
CONSTANTS
  Cameras = {c1, c2}
  Faults = {"startup", "pipeline"}
  None = None
INVARIANTS WorksWithOpen StoppedCleanly
PROPERTY ShutdownEnds
CHECK_DEADLOCK FALSE
