\* Two clients, interchangeable, and no viewers.
SPECIFICATION Spec
CONSTANTS
  Sockets = {s1, s2}
  Cameras = {c1, c2}
  Payloads = {k1}
  Peers = {}
  Viewable = {c1}
  Workers = {c2}
  MaxBundles = 1
  MaxClients = 2
  MaxSending = 2
  None = None
SYMMETRY SocketSymmetry
INVARIANTS NothingMissed GaugeNeverUndercounts
CHECK_DEADLOCK FALSE
