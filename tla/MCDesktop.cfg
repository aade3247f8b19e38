\* A connect, a disconnect, a pairing and a wipe; the daemon may stop once.
\* More presses of the primary button are MCConnection's.
SPECIFICATION Spec
CONSTANTS
  Connects = {c1}
  Disconnects = {d1}
  MaxStops = 1
  Generates = {g1}
  NoToken = NoToken
  MaxPolls = 1
  MaxCancels = 0
  Others <- OneWipe
  OtherKind <- KindOf
INVARIANTS
  ConnectedIsWitnessed
  CardIsTrueOneAtATime
PROPERTIES
  WorkingEnds
  ImplementsCard
CHECK_DEADLOCK FALSE
