\* One camera, two requests at a time, every field a request may change.
SPECIFICATION FairSpec
CONSTANTS
  Cameras = {c1}
  Requests = {r1, r2}
  Strategies = {"vjepa_probe", "cnn_transformer"}
  DefaultStrategy = "vjepa_probe"
  None = None
  EditedFields = {"status", "direct", "host", "enabled", "strategy"}
  MaxFields = 1
  MaxEdits = 3
INVARIANTS
  RowsKeepSource
  StartReplacesNothing
  ControlsMatchWorkers
PROPERTIES
  SteadyWorkersFollowRows
