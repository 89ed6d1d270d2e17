SPECIFICATION FairSpec
CONSTANTS
  Tracks = {t1}
  Interval = 2
  MaxScores = 1
  MaxBatches = 2
  Faults = {"build", "parse", "sink", "timeout"}
  None = None
INVARIANTS ChannelsOwned DeliveredInOrder SinksIndependent
PROPERTY ConnectionResumes
CHECK_DEADLOCK FALSE
