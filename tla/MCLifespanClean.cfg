SPECIFICATION Spec
CONSTANTS
  Cameras = {c1, c2}
  Faults = {}
  None = None
INVARIANT CleanShutdown
CHECK_DEADLOCK FALSE
