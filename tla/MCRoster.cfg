\* Two reads (one at launch) and two presses; five kinds of answer.
CONSTANTS
  Refreshes = {launch, r1}
  Launch = launch
  Connects = {c1, c2}
  PublicNodes <- MCPublicNodes
  Manifests <- MCManifests
  NoRead = NoRead
SPECIFICATION Spec
INVARIANTS
  HeldRowsAreDrawn
  LineSpeaksOfTheRows
  PendingIsOutstanding
  SelectionIsCurrentUntilARead
  DialNamesAServedRow
PROPERTIES
  ImplementsView
CHECK_DEADLOCK FALSE
