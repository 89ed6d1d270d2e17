SPECIFICATION Spec
CONSTANTS
  Sockets = {s1}
  Cameras = {c1}
  Payloads = {k1}
  Peers = {p1}
  Viewable = {c1}
  Workers = {}
  MaxBundles = 1
  MaxClients = 1
  MaxSending = 1
  None = None
INVARIANT ReferencedUntilClosed
CHECK_DEADLOCK FALSE
