\* Each part runs on its own inputs; every loop ends and stays.
SPECIFICATION Spec
CONSTANTS
  PublicNodes <- MCPublicNodes
  Listings <- MCListings
  QUIET = 1
  SCALE = 2
  Widths <- UpToThreeWide
  Texts <- UpToThree
  Limit = 3
  UPDATE_CHECK_INTERVAL_HOURS = 3
  PerHour = 4
  Word = 16
  Latest = 22
  SetBacks = 1
  Byte <- MCByte
  Haystacks <- SixBytes
  Needles <- UpToFourBytes
  Artefacts <- UpToSix
  Wanted <- StampPrefixMarker
  CHUNK = 2
  Work <- MCWork
  Kind <- MCKind
  Unit = 10000
  MaxTurns = 3
  Paths = {p1, p2}
  UI = {p1}
  Always = {p2}
  Contents = {c1, c2}
  Absent = none
  MaxEdits = 3
  Processes = {1, 2, 3, 4}
  NoProcess = nobody
INVARIANTS
  LabelsAreDistinct
  SectionsAreTheListing
  ResultIsTheOrder
  DueAfterADay
  
  AnswerIsTheFirst
  FoundIsTheFirst
  StaleIsAnother
  CardInv
  OvershootsAtMostATenth
  GateMeansCurrent
  NeverRefusedAlone
  RefusedForARival
  CredentialIsClosed
PROPERTIES
  ChecksAreAlmostADayApart
  SpringSettles
CHECK_DEADLOCK FALSE
