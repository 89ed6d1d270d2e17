\* Two healthy cameras half a period apart, nothing ever changes.
SPECIFICATION Spec
CONSTANTS
  a = a
  b = b
  Cameras <- MCCameras
  Period = 4
  Phase <- FarPhase
  Tolerance = 1
  Window = 4
  QueueSize = 2
  MaxDelay = 1
  MaxChanges = 0
  InitialCameras <- MCCameras
PROPERTIES
  HealthyCameraProcessed
