SPECIFICATION Spec
CONSTANTS
  Tracks = {t1}
  Interval = 1
  MaxScores = 2
  MaxBatches = 1
  Faults = {"build", "parse", "sink", "timeout"}
  None = None
INVARIANT SinksIndependent
CHECK_DEADLOCK FALSE
