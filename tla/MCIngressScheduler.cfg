\* Three persons compete for two places in the queue.
SPECIFICATION Spec
CONSTANTS
  Persons = {p1, p2, p3}
  Window = 2
  MinFrames = 1
  GapReset = 1
  Cooldown = 2
  QueueMax = 2
  MaxTime = 3
SYMMETRY Symmetry
INVARIANTS
  QueueConsistent
  FreshestBatchWaits
  BatchesCoherent
PROPERTIES
  ImplementsMailboxes
CHECK_DEADLOCK FALSE
