\* A viewer, and bundles of one or two cameras.
SPECIFICATION FairSpec
CONSTANTS
  Sockets = {s1}
  Cameras = {c1, c2}
  Payloads = {k1}
  Peers = {p1}
  Viewable = {c1, c2}
  Workers = {}
  MaxBundles = 1
  MaxClients = 2
  MaxSending = 1
  None = None
INVARIANT NothingLeaked
PROPERTY GoneForgotten
CHECK_DEADLOCK FALSE
