---------------------------- MODULE MCStandalone ----------------------------
(***************************************************************************)
(* The parts of the client that share no state with another, each checked  *)
(* on its own inputs: a behaviour chooses one of them and runs it, and the *)
(* others stay where they start.                                           *)
(***************************************************************************)
EXTENDS CountryGroupsLoop, QrImage, VersionCompare, UpdateCheck,
        HorspoolSearch, ArtefactScan, StatusCard, SpringMotion, BuildStamp,
        Launch

VARIABLE part   \* the part this behaviour runs

\* Listings of up to five rows of four kinds: two countries, a row with a
\* region only, and one whose region is the name of a country.
RowKinds == { [country |-> "SG", region |-> "asia"], [country |-> "US", region |-> "east"],
           [country |-> "", region |-> "asia"], [country |-> "", region |-> "SG"] }

MaxRows == 5

Row(r, kind) == [id |-> r, country |-> kind.country, region |-> kind.region]

MCPublicNodes == {Row(r, kind) : r \in 1..MaxRows, kind \in RowKinds}

MCListings ==
  UNION {{[r \in 1..rows |-> Row(r, kinds[r])] : kinds \in [1..rows -> RowKinds]} :
           rows \in 0..MaxRows}

\* Codes of up to three modules a side.
UpToThreeWide == 1..3

\* Versions of up to three numbers, of which 3 is beyond u64.
UpToThree == UNION {[1..k -> 0..3] : k \in 0..3}

\* Texts of two bytes: every haystack of six, every needle of up to four.
MCByte == {0, 1}
SixBytes == [1..6 -> MCByte]
UpToFourBytes == UNION {[1..k -> MCByte] : k \in 0..4}

\* Every binary of up to six bytes of two, scanned for a stamp, its prefix
\* and a marker.
UpToSix == UNION {[1..k -> MCByte] : k \in 0..6}
StampPrefixMarker == << <<1, 0, 1>>, <<1>>, <<0, 0>> >>

\* A piece of work of every kind, and a second connect.
MCWork == Kinds \cup {"connect again"}
MCKind == [w \in MCWork |-> IF w = "connect again" THEN "connect" ELSE w]
-----------------------------------------------------------------------------
LoopStart ==
  IF part = "groups" THEN LoopInit ELSE nodes = <<>> /\ seen = 0 /\ sections = <<>>
DrawStart ==
  IF part = "image" THEN DrawInit
  ELSE modules = 1 /\ colors = [c \in {0} |-> FALSE] /\ y = 0 /\ x = 0 /\ bytes = <<>>
CompareStart ==
  IF part = "version" THEN CompareInit ELSE a = <<>> /\ b = <<>> /\ i = 1 /\ result = "none"
UpdateStart ==
  IF part = "update" THEN UpdateInit
  ELSE /\ clock = 0 /\ stamp = NoStamp /\ task = "off" /\ dir = "state" /\ unread = FALSE
       /\ recorded_at = Never /\ fetched_at = Never /\ backs = SetBacks
SearchStart ==
  IF part = "search" THEN SearchInit
  ELSE /\ haystack = <<>> /\ needle = <<>> /\ skip = [c \in Byte |-> 0]
       /\ filled = 0 /\ offset = 0 /\ answer = "found"
ScanStart ==
  IF part = "scan" THEN ScanInit
  ELSE /\ file = <<>> /\ read = 0 /\ buf = <<>> /\ base = 0
       /\ found = [w \in 1..Len(Wanted) |-> None] /\ scan = "refill"
CardStart == IF part = "card" THEN CardInit ELSE status = "IDLE" /\ out = {}
SpringStart == SpringInit
StampStart ==
  IF part = "stamp" THEN StampInit
  ELSE /\ tree = [p \in Paths |-> Absent] /\ slint = tree /\ newer = {} /\ since = {}
       /\ outdir = Scripted(tree) /\ artefact = Built(outdir, slint, tree, {})
       /\ cargo = "rest" /\ undone = FALSE /\ fresh = TRUE /\ edits = 0
LaunchStart ==
  LaunchInit /\ (part \notin {"guard", "launch"} => host = "linux")

\* Launches are alike, so they may as well begin in the order of their numbers:
\* all of them with the guard alone, two with what main does around it.
InOrder(begun) == \A p, q \in Processes : p < q /\ q \in begun => p \in begun
Entered == {p \in Processes : pc[p] # "off"}
Applied == {p \in Processes : stage[p] # "off"}

Init ==
  /\ part \in {"groups", "image", "version", "update", "search", "scan", "card",
              "spring", "stamp", "guard", "launch"}
  /\ LoopStart /\ DrawStart /\ CompareStart /\ UpdateStart /\ SearchStart /\ ScanStart
  /\ CardStart /\ SpringStart /\ StampStart /\ LaunchStart

vars == <<part, loopVars, drawVars, compareVars, updateVars, searchVars, scanVars, cardVars,
          springVars, stampVars, launchVars>>

Next ==
  /\ UNCHANGED part
  /\ \/ /\ part = "groups" /\ LoopNext
        /\ UNCHANGED <<drawVars, compareVars, updateVars, searchVars,
                       scanVars, cardVars, springVars, stampVars, launchVars>>
     \/ /\ part = "image" /\ DrawNext
        /\ UNCHANGED <<loopVars, compareVars, updateVars, searchVars,
                       scanVars, cardVars, springVars, stampVars, launchVars>>
     \/ /\ part = "version" /\ CompareNext
        /\ UNCHANGED <<loopVars, drawVars, updateVars, searchVars,
                       scanVars, cardVars, springVars, stampVars, launchVars>>
     \/ /\ part = "update" /\ UpdateNext
        /\ UNCHANGED <<loopVars, drawVars, compareVars, searchVars,
                       scanVars, cardVars, springVars, stampVars, launchVars>>
     \/ /\ part = "search" /\ SearchNext
        /\ UNCHANGED <<loopVars, drawVars, compareVars, updateVars,
                       scanVars, cardVars, springVars, stampVars, launchVars>>
     \/ /\ part = "scan" /\ ScanNext
        /\ UNCHANGED <<loopVars, drawVars, compareVars, updateVars,
                       searchVars, cardVars, springVars, stampVars, launchVars>>
     \/ /\ part = "card" /\ CardNext
        /\ UNCHANGED <<loopVars, drawVars, compareVars, updateVars,
                       searchVars, scanVars, springVars, stampVars, launchVars>>
     \/ /\ part = "spring" /\ SpringNext
        /\ UNCHANGED <<loopVars, drawVars, compareVars, updateVars,
                       searchVars, scanVars, cardVars, stampVars, launchVars>>
     \/ /\ part = "stamp" /\ StampNext
        /\ UNCHANGED <<loopVars, drawVars, compareVars, updateVars,
                       searchVars, scanVars, cardVars, springVars, launchVars>>
     \/ /\ part = "guard" /\ GuardNext /\ InOrder(Entered)'
        /\ UNCHANGED <<loopVars, drawVars, compareVars, updateVars, searchVars, scanVars,
                       cardVars, springVars, stampVars, host, stage, posture, credential>>
     \/ /\ part = "launch" /\ LaunchNext /\ InOrder(Applied)' /\ Applied' \subseteq {1, 2}
        /\ UNCHANGED <<loopVars, drawVars, compareVars, updateVars,
                       searchVars, scanVars, cardVars, springVars, stampVars>>

Spec == Init /\ [][Next]_vars /\ SearchFairness /\ CardFairness /\ SpringFairness
=============================================================================
