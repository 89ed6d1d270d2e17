SPECIFICATION FairSpec
CONSTANTS
  Cameras = {c1}
  Requests = {r1}
  Strategies = {"vjepa_probe"}
  DefaultStrategy = "vjepa_probe"
  None = None
  EditedFields = {"status", "enabled"}
  MaxFields = 1
  MaxEdits = 3
PROPERTIES WorkersFollowRows
