\* The queue refuses a batch and the cooldown of its person runs all the same.
SPECIFICATION Spec
CONSTANTS
  Persons = {p1, p2}
  Window = 2
  MinFrames = 1
  GapReset = 1
  Cooldown = 2
  QueueMax = 1
  MaxTime = 4
INVARIANTS
  CooldownFollowsEnqueue
CHECK_DEADLOCK FALSE
