SPECIFICATION Spec
CONSTANTS
  Tracks = {t1, t2}
  Interval = 1
  MaxScores = 1
  MaxBatches = 2
  Faults = {}
  None = None
INVARIANT RemovedCameraHasNoEntries
CHECK_DEADLOCK FALSE
