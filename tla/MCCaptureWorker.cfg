SPECIFICATION FairCaptureSpec
CONSTANTS
  MaxFailures = 2
  MaxHandles = 3
  NoHandle = NoHandle
INVARIANTS OneSession StopTakesEffect
PROPERTY ThreadFollowsStop
CHECK_DEADLOCK FALSE
