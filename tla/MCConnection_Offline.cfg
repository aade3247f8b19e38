\* Two connects and two disconnects; a daemon that need not stop.
CONSTANTS
  Connects = {c1, c2}
  Disconnects = {d1, d2}
  MaxStops = 1
SPECIFICATION Spec
INVARIANTS
  OfflineMeansNoTunnel
CHECK_DEADLOCK FALSE
