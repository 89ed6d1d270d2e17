\* The service starts with no active camera and one is registered later.
SPECIFICATION Spec
CONSTANTS
  a = a
  b = b
  Cameras <- MCCameras
  Period = 4
  Phase <- NearPhase
  Tolerance = 1
  Window = 4
  QueueSize = 2
  MaxDelay = 1
  MaxChanges = 1
  InitialCameras <- NoCameras
PROPERTIES
  ActivatedCameraStarts
