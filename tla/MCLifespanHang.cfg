SPECIFICATION FairSpec
CONSTANTS
  Cameras = {c1, c2}
  Faults = {}
  None = None
PROPERTY ShutdownAlwaysEnds
CHECK_DEADLOCK FALSE
