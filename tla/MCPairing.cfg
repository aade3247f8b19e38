\* Three presses whose tasks overlap, a poll each, one cancel.
CONSTANTS
  Generates = {g1, g2, g3}
  NoToken = NoToken
  MaxPolls = 1
  MaxCancels = 1
SPECIFICATION Spec
INVARIANTS
  WaitingIsPolled
  ConnectedIsApproved
PROPERTIES
  WaitingEnds
CHECK_DEADLOCK FALSE
