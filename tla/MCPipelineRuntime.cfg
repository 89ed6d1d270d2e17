\* Two cameras one tick apart, and two places in the buffer.
SPECIFICATION Spec
CONSTANTS
  a = a
  b = b
  Cameras <- MCCameras
  Period = 4
  Phase <- NearPhase
  Tolerance = 1
  Window = 4
  QueueSize = 2
  MaxDelay = 1
  MaxChanges = 2
  InitialCameras <- MCCameras
INVARIANTS
  SyncGroupActive
  BundleAligned
PROPERTIES
  HealthyCameraProcessed
  ReconcilesWhileFramesFlow
