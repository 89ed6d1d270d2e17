SPECIFICATION FairSpec
CONSTANTS
  Cameras = {c1, c2}
  Requests = {r1}
  Strategies = {"vjepa_probe", "cnn_transformer"}
  DefaultStrategy = "vjepa_probe"
  None = None
  EditedFields = {"direct", "enabled", "strategy"}
  MaxFields = 1
  MaxEdits = 3
PROPERTIES WorkersFollowRows
