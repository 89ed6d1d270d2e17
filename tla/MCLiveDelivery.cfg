\* One client and one viewer; a camera with frames and another with a worker.
SPECIFICATION FairSpec
CONSTANTS
  Sockets = {s1}
  Cameras = {c1, c2}
  Payloads = {k1}
  Peers = {p1}
  Viewable = {c1}
  Workers = {c2}
  MaxBundles = 1
  MaxClients = 2
  MaxSending = 2
  None = None
INVARIANTS NothingMissed GaugeNeverUndercounts NothingLeaked
PROPERTY GoneForgotten
CHECK_DEADLOCK FALSE
