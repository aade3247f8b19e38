\* One press that nobody approves.
CONSTANTS
  Generates = {g1}
  NoToken = NoToken
  MaxPolls = 2
  MaxCancels = 0
SPECIFICATION Spec
INVARIANT ApprovedIsApproved
CHECK_DEADLOCK FALSE
