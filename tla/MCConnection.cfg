\* Three connects and two disconnects, any of them at once; one daemon stop.
CONSTANTS
  Connects = {c1, c2, c3}
  Disconnects = {d1, d2}
  MaxStops = 1
SPECIFICATION Spec
INVARIANTS
  StatusIsTrueOneAtATime
CHECK_DEADLOCK FALSE
