-------------------------- MODULE StandaloneProofs --------------------------
(***************************************************************************)
(* Proofs about the parts that share no state with another, each for all   *)
(* its inputs: VersionCompare, StatusCard, CountryGroupsLoop, the guard    *)
(* (SingleInstance) and the launches that pass it (Launch), UpdateCheck,   *)
(* BuildStamp, HorspoolSearch, ArtefactScan, QrImage and SpringMotion.      *)
(***************************************************************************)
EXTENDS VersionCompare, StatusCard, CountryGroupsLoop, UpdateCheck, Launch, BuildStamp,
        HorspoolSearch, ArtefactScan, QrImage, SpringMotion, ListingLemmas

LEMMA GetIsNat ==
  ASSUME NEW v \in Seq(Nat), NEW k \in Nat \ {0}
  PROVE  Get(v, k) \in Nat /\ Len(v) \in Nat /\ (k > Len(v) => Get(v, k) = 0)
<1>1. Len(v) \in Nat
  BY LenProperties
<1>2. k <= Len(v) => v[k] \in Nat
  BY <1>1, ElementOfSeq
<1>3. QED
  BY <1>1, <1>2 DEF Get

\* No two versions are each newer than the other: is_newer (rfc011.rs 103-123)
\* offers no update in both directions.
THEOREM NeverBothNewer ==
  ASSUME NEW v \in Seq(Nat), NEW w \in Seq(Nat), Newer(v, w)
  PROVE  ~ Newer(w, v)
<1> SUFFICES ASSUME Newer(w, v)
             PROVE  FALSE
  OBVIOUS
<1>0. Len(v) \in Nat /\ Len(w) \in Nat
  BY LenProperties
<1>1. PICK k \in Nat \ {0} : /\ Get(v, k) > Get(w, k)
                             /\ \A j \in 1 .. k - 1 : Get(v, j) = Get(w, j)
  BY <1>0 DEF Newer
<1>2. PICK l \in Nat \ {0} : /\ Get(w, l) > Get(v, l)
                             /\ \A j \in 1 .. l - 1 : Get(w, j) = Get(v, j)
  BY <1>0 DEF Newer
<1>3. Get(v, k) \in Nat /\ Get(w, k) \in Nat /\ Get(v, l) \in Nat /\ Get(w, l) \in Nat
  BY GetIsNat
<1>4. CASE k < l
  BY <1>1, <1>2, <1>3, <1>4
<1>5. CASE l < k
  BY <1>1, <1>2, <1>3, <1>5
<1>6. CASE k = l
  BY <1>1, <1>2, <1>3, <1>6
<1>7. QED
  BY <1>4, <1>5, <1>6

\* The comparison is one order of all versions: what is newer than a newer one
\* is newer, so a chain of updates never leads back (rfc011.rs 103-123).
THEOREM NewerIsTransitive ==
  ASSUME NEW u \in Seq(Nat), NEW v \in Seq(Nat), NEW w \in Seq(Nat),
         Newer(u, v), Newer(v, w)
  PROVE  Newer(u, w)
<1>0. Len(u) \in Nat /\ Len(v) \in Nat /\ Len(w) \in Nat
  BY LenProperties
<1>1. PICK k \in Nat \ {0} : /\ Get(u, k) > Get(v, k)
                             /\ \A j \in 1 .. k - 1 : Get(u, j) = Get(v, j)
  BY <1>0 DEF Newer
<1>2. PICK l \in Nat \ {0} : /\ Get(v, l) > Get(w, l)
                             /\ \A j \in 1 .. l - 1 : Get(v, j) = Get(w, j)
  BY <1>0 DEF Newer
<1> DEFINE p == IF k <= l THEN k ELSE l
<1>3. \A j \in Nat \ {0} : Get(u, j) \in Nat /\ Get(v, j) \in Nat /\ Get(w, j) \in Nat
  BY GetIsNat
<1>4. p \in Nat \ {0} /\ Get(u, p) > Get(w, p)
  <2>1. CASE k < l
    BY <1>1, <1>2, <1>3, <2>1
  <2>2. CASE l < k
    BY <1>1, <1>2, <1>3, <2>2
  <2>3. CASE k = l
    BY <1>1, <1>2, <1>3, <2>3
  <2>4. QED
    BY <2>1, <2>2, <2>3
<1>5. \A j \in 1 .. p - 1 : Get(u, j) = Get(w, j)
  BY <1>1, <1>2
<1>6. p \in 1 .. Len(u) + Len(w)
  <2>1. p <= Len(u)
    <3>1. p > Len(u) => Get(u, p) = 0
      BY <1>4, GetIsNat
    <3>2. Get(u, p) \in Nat /\ Get(w, p) \in Nat
      BY <1>3, <1>4
    <3>3. QED
      BY <1>0, <1>4, <3>1, <3>2
  <2>2. QED
    BY <1>0, <1>4, <2>1
<1>7. QED
  BY <1>4, <1>5, <1>6 DEF Newer

LEMMA ParseIsAVersion ==
  ASSUME NEW text \in Texts
  PROVE  Parse(text) \in Seq(Nat)
<1>1. text \in Seq(Nat) /\ Len(text) \in Nat
  BY VersionAssumption, LenProperties
<1>2. \A k \in 1 .. Len(text) : Number(text[k]) \in Nat
  BY <1>1, ElementOfSeq, VersionAssumption DEF Number
<1>3. QED
  BY <1>1, <1>2 DEF Parse, Seq

LEMMA InitCompare == CompareInit => CompareInv
<1> SUFFICES ASSUME CompareInit
             PROVE  CompareInv
  OBVIOUS
<1>1. a \in Seq(Nat) /\ b \in Seq(Nat) /\ i = 1 /\ result = "none"
  BY ParseIsAVersion DEF CompareInit
<1>2. Len(a) \in Nat /\ Len(b) \in Nat
  BY <1>1, LenProperties
<1>3. i \in 1 .. n + 1
  BY <1>1, <1>2 DEF n
<1>4. QED
  BY <1>1, <1>3 DEF CompareInv, ResultIsTheOrder

LEMMA CompareStep == CompareInv /\ [CompareNext]_compareVars => CompareInv'
<1> SUFFICES ASSUME CompareInv, CompareNext
             PROVE  CompareInv'
  BY DEF compareVars, CompareInv, ResultIsTheOrder, n, Newer
<1>1. a' = a /\ b' = b /\ a \in Seq(Nat) /\ b \in Seq(Nat)
  BY DEF CompareNext, Start, Turn, CompareInv
<1>2. Len(a) \in Nat /\ Len(b) \in Nat /\ i \in Nat \ {0} /\ n \in Nat
      /\ n <= Len(a) + Len(b) /\ Len(a) <= n /\ Len(b) <= n /\ i <= n + 1 /\ n' = n
  <2>1. Len(a) \in Nat /\ Len(b) \in Nat
    BY <1>1, LenProperties
  <2>2. n \in Nat /\ n <= Len(a) + Len(b) /\ Len(a) <= n /\ Len(b) <= n
    BY <2>1 DEF n
  <2>3. n' = n
    BY <1>1 DEF n
  <2>4. i \in Nat \ {0} /\ i <= n + 1
    <3>1. i \in 1 .. n + 1
      BY DEF CompareInv
    <3>2. QED
      BY <2>2, <3>1
  <2>5. QED
    BY <2>1, <2>2, <2>3, <2>4
<1>3. Get(a, i) \in Nat /\ Get(b, i) \in Nat
  BY <1>1, <1>2, GetIsNat
<1>4. \A j \in 1 .. i - 1 : Get(a, j) = Get(b, j)
  BY DEF CompareInv
<1>5. CASE Start
  <2>1. i' = i /\ result' = "not newer" /\ ~(Len(a) > 0 /\ Len(b) > 0)
    <3>1. i' = i /\ result' = "not newer" /\ (Len(a) = 0 \/ Len(b) = 0)
      BY <1>5 DEF Start
    <3>2. ~(0 > 0)
      OBVIOUS
    <3>3. QED
      BY <3>1, <3>2, Zenon
  <2>2. ResultIsTheOrder'
    BY <1>1, <2>1 DEF ResultIsTheOrder
  <2>3. QED
    BY <1>1, <1>2, <1>4, <2>1, <2>2 DEF CompareInv, Get
<1>6. CASE Turn /\ i <= n /\ Get(a, i) # Get(b, i)
  <2>1. i' = i /\ Len(a) > 0 /\ Len(b) > 0
        /\ result' = IF Get(a, i) > Get(b, i) THEN "newer" ELSE "not newer"
    <3>1. ~(i > n)
      BY <1>2, <1>6
    <3>2. QED
      BY <1>6, <3>1 DEF Turn
  <2>2. Get(a, i) > Get(b, i) => Newer(a, b)
    BY <1>2, <1>4, <1>6 DEF Newer
  <2>3. ~(Get(a, i) > Get(b, i)) => Newer(b, a)
    BY <1>2, <1>3, <1>4, <1>6 DEF Newer
  <2>4. ~(Get(a, i) > Get(b, i)) => ~ Newer(a, b)
    BY <2>3, <1>1, NeverBothNewer
  <2>5. ResultIsTheOrder'
    BY <1>1, <2>1, <2>2, <2>4 DEF ResultIsTheOrder, Newer
  <2>6. QED
    BY <1>1, <1>2, <1>4, <2>1, <2>5 DEF CompareInv
<1>7. CASE Turn /\ i <= n /\ Get(a, i) = Get(b, i)
  <2>1. i' = i + 1 /\ result' = "none"
    <3>1. ~(i > n)
      BY <1>2, <1>7
    <3>2. result = "none"
      BY <1>7 DEF Turn
    <3>3. QED
      BY <1>7, <3>1, <3>2 DEF Turn
  <2>2. \A j \in 1 .. i' - 1 : Get(a, j) = Get(b, j)
    BY <1>2, <1>4, <1>7, <2>1
  <2>3. QED
    <3>1. i' \in 1 .. n' + 1
      BY <1>2, <1>7, <2>1
    <3>2. ResultIsTheOrder'
      BY <2>1 DEF ResultIsTheOrder
    <3>3. QED
      BY <1>1, <2>1, <2>2, <3>1, <3>2 DEF CompareInv, Get
<1>8. CASE Turn /\ i > n
  <2>1. i' = i /\ result' = "not newer"
    <3>1. ~(i <= n)
      BY <1>2, <1>8
    <3>2. QED
      BY <1>8, <3>1 DEF Turn
  <2>2. ~ Newer(a, b)
    <3> SUFFICES ASSUME NEW k \in 1 .. Len(a) + Len(b), Get(a, k) > Get(b, k)
                 PROVE  FALSE
      BY DEF Newer
    <3>1. CASE k <= n
      <4>1. k \in 1 .. i - 1
        BY <1>2, <1>8, <3>1
      <4>2. Get(a, k) = Get(b, k) /\ Get(a, k) \in Nat
        BY <1>1, <1>2, <1>4, <4>1, GetIsNat
      <4>3. QED
        BY <4>2
    <3>2. CASE k > n
      <4>1. Get(a, k) = 0 /\ Get(b, k) = 0
        <5>1. k \in Nat \ {0} /\ k > Len(a) /\ k > Len(b)
          BY <1>2, <3>2
        <5>2. QED
          BY <1>1, <5>1, GetIsNat
      <4>2. QED
        BY <4>1
    <3>3. QED
      BY <1>2, <3>1, <3>2
  <2>3. ResultIsTheOrder'
    BY <1>1, <2>1, <2>2 DEF ResultIsTheOrder, Newer
  <2>4. QED
    BY <1>1, <1>2, <1>4, <2>1, <2>3 DEF CompareInv
<1>9. QED
  BY <1>5, <1>6, <1>7, <1>8 DEF CompareNext, Turn

\* For versions of any length, with numbers of any size, is_newer answers the
\* order on versions (rfc011.rs 103-123).
THEOREM ResultIsTheOrderAlways == CompareSpec => []ResultIsTheOrder
<1>1. CompareInit => CompareInv
  BY InitCompare
<1>2. CompareInv /\ [CompareNext]_compareVars => CompareInv'
  BY CompareStep
<1>3. CompareInv => ResultIsTheOrder
  BY DEF CompareInv
<1>4. QED
  BY <1>1, <1>2, <1>3, PTL DEF CompareSpec
-----------------------------------------------------------------------------
LEMMA InitCard == CardInit => CardInv
<1> SUFFICES ASSUME CardInit
             PROVE  CardInv
  OBVIOUS
<1>1. out \subseteq Work
  BY DEF CardInit
<1>2. status \notin Working
  BY DEF CardInit, Working
<1>3. QED
  BY <1>1, <1>2 DEF CardInv, WorkingIsOut

\* Every label work begins under stands for that kind of work.
LEMMA BegunIsSaid ==
  ASSUME NEW k \in Kinds, NEW label \in Begun[k]
  PROVE  k \in Saying(label)
BY DEF Saying

\* No label work ends under, nor the one autostart reports, is a label of work.
LEMMA EndedIsSilent ==
  ASSUME NEW k \in Kinds
  PROVE  Ended[k] \cap Working = {}
<1>1. CASE k = "connect"
  BY <1>1 DEF Ended, Working
<1>2. CASE k = "disconnect"
  BY <1>2 DEF Ended, Working
<1>3. CASE k = "pair"
  BY <1>3 DEF Ended, Working
<1>4. CASE k = "login"
  BY <1>4 DEF Ended, Working
<1>5. CASE k = "wipe"
  BY <1>5 DEF Ended, Working
<1>6. CASE k = "update"
  BY <1>6 DEF Ended, Working
<1>7. QED
  BY <1>1, <1>2, <1>3, <1>4, <1>5, <1>6 DEF Kinds

LEMMA CardStep == CardInv /\ [CardNext]_cardVars => CardInv'
<1> SUFFICES ASSUME CardInv, CardNext
             PROVE  CardInv'
  BY DEF cardVars, CardInv, WorkingIsOut, Saying
<1>0. out \subseteq Work /\ WorkingIsOut
  BY DEF CardInv
<1>1. ASSUME NEW w \in Work, Begin(w)
      PROVE  CardInv'
  <2>1. out' = out \cup {w} /\ status' \in Begun[Kind[w]]
    BY <1>1 DEF Begin
  <2>2. Kind[w] \in Saying(status')
    BY <2>1, BegunIsSaid, CardAssumption
  <2>3. WorkingIsOut'
    BY <2>1, <2>2 DEF WorkingIsOut, Saying
  <2>4. QED
    BY <1>0, <2>1, <2>3 DEF CardInv
<1>2. ASSUME NEW w \in Work, End(w)
      PROVE  CardInv'
  <2>1. /\ w \in out /\ out' = out \ {w}
        /\ \/ status' \in Ended[Kind[w]]
           \/ /\ Kind[w] = "update"
              /\ status' = status
    BY <1>2 DEF End
  <2>2. CASE status' \in Ended[Kind[w]]
    BY <1>0, <2>1, <2>2, EndedIsSilent, CardAssumption DEF CardInv, WorkingIsOut
  <2>3. CASE Kind[w] = "update" /\ status' = status
    <3>1. "update" \notin Saying(status)
      BY DEF Saying, Begun
    <3>2. WorkingIsOut'
      BY <1>0, <2>1, <2>3, <3>1 DEF WorkingIsOut, Saying
    <3>3. QED
      BY <1>0, <2>1, <3>2 DEF CardInv
  <2>4. QED
    BY <2>1, <2>2, <2>3
<1>3. CASE Report
  <2>1. status' \notin Working /\ out' = out
    BY <1>3 DEF Report, AutostartLabels, Working
  <2>2. QED
    BY <1>0, <2>1 DEF CardInv, WorkingIsOut
<1>4. QED
  BY <1>1, <1>2, <1>3 DEF CardNext

\* Whatever pieces of work there are and however they overlap, a label that
\* says work is going on stands for work of its kind whose last closure has not
\* run (the handlers of main.rs 259-989).
THEOREM LabelsOfWorkAreOfWorkThatIsOut == CardSafety => []CardInv
<1>1. CardInit => CardInv
  BY InitCard
<1>2. CardInv /\ [CardNext]_cardVars => CardInv'
  BY CardStep
<1>3. QED
  BY <1>1, <1>2, PTL DEF CardSafety
-----------------------------------------------------------------------------
LEMMA GroupsInit == LoopInit => GroupsInv
<1> SUFFICES ASSUME LoopInit
             PROVE  GroupsInv
  OBVIOUS
<1>1. nodes \in Seq(PublicNodes) /\ seen = 0 /\ sections = <<>>
  BY ListingsAssumption DEF LoopInit
<1>2. seen \in 0..Len(nodes) /\ Len(nodes) \in Nat
  BY <1>1, LenProperties
<1>3. sections \in Seq(Section(PublicNodes)) /\ Grouped(sections, nodes, seen)
  BY <1>1, NothingIsGrouped
<1>4. sections = SectionsByTurn(nodes)[seen]
  BY <1>1, <1>2, TurnByTurn
<1>5. QED
  BY <1>1, <1>2, <1>3, <1>4 DEF GroupsInv, LoopTypeOK, LabelsAreDistinct,
     SectionsAreTheListing, HeadersInFirstSeenOrder, Grouped

LEMMA GroupsStep == GroupsInv /\ [LoopNext]_loopVars => GroupsInv'
<1> SUFFICES ASSUME GroupsInv, [LoopNext]_loopVars
             PROVE  GroupsInv'
  OBVIOUS
<1>0. /\ nodes \in Seq(PublicNodes) /\ seen \in 0..Len(nodes) /\ Len(nodes) \in Nat
      /\ sections = SectionsByTurn(nodes)[seen]
  BY LenProperties DEF GroupsInv, LoopTypeOK
<1>1. CASE TakeRow
  <2>1. /\ seen < Len(nodes) /\ seen' = seen + 1 /\ nodes' = nodes
        /\ sections' = AddNode(sections, nodes[seen + 1])
    BY <1>1 DEF TakeRow
  <2>2. seen' \in 1..Len(nodes) /\ seen' \in 0..Len(nodes) /\ seen' - 1 = seen
    BY <1>0, <2>1
  <2>3. sections' = SectionsByTurn(nodes)[seen']
    BY <1>0, <2>1, <2>2, TurnByTurn
  <2>4. /\ sections' \in Seq(Section(PublicNodes))
        /\ Grouped(sections', nodes, seen')
    BY <1>0, <2>2, <2>3, EveryTurnIsGrouped
  <2>5. QED
    BY <1>0, <2>1, <2>2, <2>3, <2>4 DEF GroupsInv, LoopTypeOK, LabelsAreDistinct,
       SectionsAreTheListing, HeadersInFirstSeenOrder, Grouped
<1>2. CASE UNCHANGED loopVars
  BY <1>2 DEF loopVars, GroupsInv, LoopTypeOK, LabelsAreDistinct,
     SectionsAreTheListing, HeadersInFirstSeenOrder
<1>3. QED
  BY <1>1, <1>2 DEF LoopNext

\* Whatever the listing, no country is drawn twice (main.rs 70-73).
THEOREM NoCountryTwice == LoopSpec => []LabelsAreDistinct
<1>1. GroupsInv => LabelsAreDistinct
  BY DEF GroupsInv
<1>2. QED
  BY GroupsInit, GroupsStep, <1>1, PTL DEF LoopSpec

\* Whatever the listing, every row taken is drawn once, under its own country
\* and in the listing's order, and nothing else is (main.rs 72-73).
THEOREM NoRowLost == LoopSpec => []SectionsAreTheListing
<1>1. GroupsInv => SectionsAreTheListing
  BY DEF GroupsInv
<1>2. QED
  BY GroupsInit, GroupsStep, <1>1, PTL DEF LoopSpec

\* Whatever the listing, the headers keep the router's order (main.rs 71).
THEOREM RouterOrderKept == LoopSpec => []HeadersInFirstSeenOrder
<1>1. GroupsInv => HeadersInFirstSeenOrder
  BY DEF GroupsInv
<1>2. QED
  BY GroupsInit, GroupsStep, <1>1, PTL DEF LoopSpec

\* What the loop has built when it is over is what the roster's matrix draws.
THEOREM LoopIsTheGrouping ==
  LoopSpec => [](seen = Len(nodes) => sections = GroupByCountry(nodes))
<1>1. GroupsInv => (seen = Len(nodes) => sections = GroupByCountry(nodes))
  BY DEF GroupsInv, GroupByCountry
<1>2. QED
  BY GroupsInit, GroupsStep, <1>1, PTL DEF LoopSpec
-----------------------------------------------------------------------------
LEMMA InitSpring == SpringInit => SpringInv
<1> SUFFICES ASSUME SpringInit
             PROVE  SpringInv
  OBVIOUS
<1>1. /\ Unit \in Nat /\ MaxTurns \in Nat
      /\ live = FALSE /\ turns = 0 /\ pos = 0 /\ vel = 0 /\ phase = "rest"
  BY SpringAssumption DEF SpringInit
<1>2. InPolygon
  BY <1>1 DEF InPolygon, away
<1>3. turns \in 0 .. MaxTurns
  BY <1>1
<1>4. live \in BOOLEAN
  BY <1>1, Zenon
<1>5. QED
  BY <1>1, <1>2, <1>3, <1>4 DEF SpringInv

\* A turn of the spring, its roundings included, does not leave the polygon:
\* the quotients are known between their bounds, and the rest is linear.
LEMMA TurnStaysInside ==
  ASSUME SpringInv, vel' = NextVel, pos' = pos + NextVel \div 60
  PROVE  vel' \in Int /\ pos' \in Int /\ InPolygon'
<1> DEFINE push == -100 * Stiffness * (pos - target) - DampingCent * vel
<1>1. Unit \in Nat /\ Unit >= 1000 /\ target \in {0, Unit} /\ pos \in Int /\ vel \in Int
  BY SpringAssumption DEF SpringInv, target
<1>2. push = -17000 * (pos - target) - 2034 * vel /\ push \in Int
  BY <1>1 DEF Stiffness, DampingCent
<1>3. /\ push \div 6000 \in Int
      /\ 6000 * (push \div 6000) <= push /\ push < 6000 * (push \div 6000) + 6000
  <2> HIDE DEF push
  <2>1. QED
    BY <1>2
<1>4. vel' = vel + push \div 6000
  BY DEF NextVel
<1> HIDE DEF push
<1>5. vel' \in Int
  BY <1>1, <1>3, <1>4
<1>6. /\ vel' \div 60 \in Int /\ pos' = pos + vel' \div 60
      /\ 60 * (vel' \div 60) <= vel' /\ vel' < 60 * (vel' \div 60) + 60
  BY <1>5
<1>7. pos' \in Int
  BY <1>1, <1>6
<1> DEFINE dv == push \div 6000
           dp == vel' \div 60
<1>8. /\ dv \in Int /\ vel' = vel + dv
      /\ 6000 * dv <= -17000 * (pos - target) - 2034 * vel
      /\ -17000 * (pos - target) - 2034 * vel < 6000 * dv + 6000
  BY <1>2, <1>3, <1>4
<1>9. /\ dp \in Int /\ pos' = pos + dp
      /\ 60 * dp <= vel + dv /\ vel + dv < 60 * dp + 60
  BY <1>6, <1>8
<1> HIDE DEF dv, dp
<1>10. /\ 5 * (2 * pos - Unit) <= 6 * Unit
       /\ -(6 * Unit) <= 5 * (2 * pos - Unit)
       /\ 25 * (2 * pos - Unit) + 2 * vel <= 30 * Unit
       /\ -(30 * Unit) <= 25 * (2 * pos - Unit) + 2 * vel
       /\ 50 * (2 * pos - Unit) + 8 * vel <= 75 * Unit
       /\ -(75 * Unit) <= 50 * (2 * pos - Unit) + 8 * vel
       /\ 5 * (2 * pos - Unit) + 2 * vel <= 20 * Unit
       /\ -(20 * Unit) <= 5 * (2 * pos - Unit) + 2 * vel
  BY <1>1 DEF SpringInv, InPolygon, away
<1>11. /\ 5 * (2 * (pos + dp) - Unit) <= 6 * Unit
       /\ -(6 * Unit) <= 5 * (2 * (pos + dp) - Unit)
  BY ONLY <1>1, <1>8, <1>9, <1>10
<1>12. /\ 25 * (2 * (pos + dp) - Unit) + 2 * (vel + dv) <= 30 * Unit
       /\ -(30 * Unit) <= 25 * (2 * (pos + dp) - Unit) + 2 * (vel + dv)
  BY ONLY <1>1, <1>8, <1>9, <1>10
<1>13. /\ 50 * (2 * (pos + dp) - Unit) + 8 * (vel + dv) <= 75 * Unit
       /\ -(75 * Unit) <= 50 * (2 * (pos + dp) - Unit) + 8 * (vel + dv)
  BY ONLY <1>1, <1>8, <1>9, <1>10
<1>14. /\ 5 * (2 * (pos + dp) - Unit) + 2 * (vel + dv) <= 20 * Unit
       /\ -(20 * Unit) <= 5 * (2 * (pos + dp) - Unit) + 2 * (vel + dv)
  BY ONLY <1>1, <1>8, <1>9, <1>10
<1>15. InPolygon'
  BY <1>1, <1>7, <1>5, <1>8, <1>9, <1>11, <1>12, <1>13, <1>14 DEF InPolygon, away
<1>16. QED
  BY <1>5, <1>7, <1>15

LEMMA SpringStep == SpringInv /\ [SpringNext]_springVars => SpringInv'
<1> SUFFICES ASSUME SpringInv, [SpringNext]_springVars
             PROVE  SpringInv'
  OBVIOUS
<1>1. CASE ChangeSides
  BY <1>1, SpringAssumption DEF ChangeSides, SpringInv, InPolygon, away
<1>2. CASE PhysicsTurn
  <2>1. live' = live /\ turns' = turns /\ phase' \in {"rest", "breathing"}
    BY <1>2 DEF PhysicsTurn
  <2>2. pos' \in Int /\ vel' \in Int /\ InPolygon'
    <3>1. CASE Settled
      BY <1>2, <3>1 DEF PhysicsTurn, SpringInv, InPolygon, away
    <3>2. CASE ~Settled
      <4>1. vel' = NextVel /\ pos' = pos + NextVel \div 60
        BY <1>2, <3>2 DEF PhysicsTurn
      <4>2. QED
        BY <4>1, TurnStaysInside
    <3>3. QED
      BY <3>1, <3>2
  <2>3. QED
    BY <2>1, <2>2 DEF SpringInv
<1>3. CASE UNCHANGED springVars
  BY <1>3 DEF springVars, SpringInv, InPolygon, away
<1>4. QED
  BY <1>1, <1>2, <1>3 DEF SpringNext

\* "Overshoot never exceeds 10% of travel distance" (spring.rs 10) in whatever
\* units the arithmetic rounds, and however often the card changes sides in
\* mid-flight.
THEOREM OvershootsAtMostATenthAlways == SpringSpec => []OvershootsAtMostATenth
<1>1. SpringInv => OvershootsAtMostATenth
  BY SpringAssumption DEF SpringInv, InPolygon, away, OvershootsAtMostATenth
<1>2. QED
  BY InitSpring, SpringStep, <1>1, PTL DEF SpringSpec
-----------------------------------------------------------------------------
LEMMA InitGuard == GuardInit => GuardInv
  BY InstanceAssumption DEF GuardInit, GuardInv, GuardTypeOK, PathIsARivals, PathIsAHolders,
     NeverRefusedAlone, RefusedForARival, Launching

LEMMA StartPreserves ==
  ASSUME GuardInv, NEW p \in Processes, Enter(p)
  PROVE  GuardInv'
<1> USE DEF GuardInv
<1>1. /\ pc[p] = "off" /\ pc' = [pc EXCEPT ![p] = "try"] /\ path' = path
      /\ faulted' = faulted /\ windows' = windows
      /\ rivals' \in [Processes -> SUBSET Processes]
      /\ \A q \in Processes : rivals[q] \subseteq rivals'[q] \/ q = p
      /\ \A q \in Processes : pc[q] \in Launching =>
            q \in rivals'[p] /\ (q # p => p \in rivals'[q])
  BY DEF Enter, GuardTypeOK, Launching
<1>2. GuardTypeOK'
  BY <1>1 DEF GuardTypeOK, Launching
<1>3. PathIsARivals'
  BY <1>1 DEF GuardTypeOK, PathIsARivals, NeverRefusedAlone, Launching
<1>4. PathIsAHolders'
  BY <1>1, InstanceAssumption DEF GuardTypeOK, PathIsAHolders, RefusedForARival
<1>5. QED
  BY <1>2, <1>3, <1>4

LEMMA LaunchPreserves ==
  ASSUME GuardInv, NEW p \in Processes, TryLock(p) \/ Stop(p)
  PROVE  GuardInv'
<1> USE DEF GuardInv
<1> DEFINE Verdict(v) ==
      /\ Decide(p, v)
      /\ v = "stopped" => pc[p] = "running"
      /\ v # "stopped" => pc[p] \in Launching
      /\ faulted' \in {faulted, TRUE}
      /\ (v = "bind" /\ ~faulted') => path' = NoProcess
      /\ v = "open" => path # NoProcess
      /\ v = "refused" => \/ pc[p] = "bind" /\ path # NoProcess
                          \/ pc[p] = "open" /\ faulted'
      /\ path' \in {path, NoProcess, p}
      /\ path' = p => v = "running" \/ path = p
<1> DEFINE Verdicts == {"bind", "open", "running", "refused", "stopped", "killed"}
<1>a. \E v \in Verdicts : Verdict(v)
  <2>1. CASE Unlink(p)
    <3>1. Decide(p, "bind") /\ pc[p] \in Launching /\ p # NoProcess
      BY <2>1, InstanceAssumption DEF Unlink, Launching
    <3>2. (path' = NoProcess /\ faulted' = faulted) \/ (faulted' = TRUE /\ path' = path)
      BY <2>1 DEF Unlink, NoFault, Fault
    <3>3. Verdict("bind")
      BY <3>1, <3>2
    <3>4. QED
      BY <3>3
  <2>2. CASE Bind(p) \/ BindFails(p)
    BY <2>2 DEF Bind, BindFails, Launching, NoFault, Fault
  <2>3. CASE BindInUse(p)
    BY <2>3 DEF BindInUse, Launching, NoFault
  <2>4. CASE CreateNew(p)
    <3>1. CASE Decide(p, "open")
      BY <2>4, <3>1 DEF CreateNew, Launching, NoFault, Fault
    <3>2. CASE Decide(p, "running")
      BY <2>4, <3>2 DEF CreateNew, Launching, NoFault, Fault
    <3>3. QED
      BY <2>4, <3>1, <3>2 DEF CreateNew
  <2>5. CASE OpenExisting(p)
    BY <2>5 DEF OpenExisting, Launching, NoFault, Fault
  <2>6. CASE Stop(p)
    BY <2>6 DEF Stop, NoFault
  <2>7. QED
    BY <2>1, <2>2, <2>3, <2>4, <2>5, <2>6 DEF TryLock
<1>b. ~faulted' => ~faulted
  <2>1. UNCHANGED faulted \/ faulted' = TRUE
    BY <1>a
  <2>2. QED
    BY <2>1, Zenon
<1>1. PICK v \in Verdicts : Verdict(v)
  BY <1>a
<1> USE DEF Decide
<1>2. GuardTypeOK'
  BY <1>1 DEF GuardTypeOK, Launching
<1>3. PathIsARivals'
  <2> SUFFICES ASSUME ~faulted'
               PROVE  /\ \A q \in Processes : pc'[q] = "bind" =>
                            path' = NoProcess \/ path' \in rivals'[q]
                      /\ \A q, r \in Processes :
                            (q # r /\ {pc'[q], pc'[r]} \subseteq Launching)
                              => r \in rivals'[q]
                      /\ NeverRefusedAlone'
    BY DEF PathIsARivals, Launching
  <2>a. ~faulted
    BY <1>b
  <2>0. /\ rivals' = rivals /\ pc' = [pc EXCEPT ![p] = v]
        /\ pc \in [Processes -> Launching \cup 
                            {"off", "running", "refused", "stopped", "killed"}]
    BY <1>1 DEF GuardTypeOK
  <2>1. \A q, r \in Processes : (q # r /\ {pc[q], pc[r]} \subseteq Launching)
              => r \in rivals[q]
    BY <2>a DEF PathIsARivals
  <2>2. ASSUME NEW q \in Processes, pc'[q] \in Launching
        PROVE  pc[q] \in Launching
    BY <1>1, <2>0, <2>2 DEF Launching
  <2>3. \A q, r \in Processes : (q # r /\ {pc'[q], pc'[r]} \subseteq Launching)
              => r \in rivals'[q]
    BY <2>0, <2>1, <2>2
  <2>4. \A q \in Processes : pc'[q] = "bind" =>
              path' = NoProcess \/ path' \in rivals'[q]
    BY <1>1, <2>a, <2>0, <2>1, <2>2 DEF PathIsARivals, Launching
  <2>5. NeverRefusedAlone'
    BY <1>1, <2>a, <2>0, <2>1 DEF PathIsARivals, Launching, NeverRefusedAlone
  <2>6. QED
    BY <2>3, <2>4, <2>5
<1>4. PathIsAHolders'
  BY <1>1, InstanceAssumption DEF GuardTypeOK, PathIsAHolders, RefusedForARival, Launching
<1>5. QED
  BY <1>2, <1>3, <1>4

\* The inductive invariant of the guard (single_instance.rs 53-137).
THEOREM GuardInvariant == GuardSpec => []GuardInv
<1>1. GuardInit => GuardInv
  BY InitGuard
<1>2. GuardInv /\ [GuardNext]_guardVars => GuardInv'
  <2> SUFFICES ASSUME GuardInv, [GuardNext]_guardVars
               PROVE  GuardInv'
    OBVIOUS
  <2>1. CASE GuardNext
    BY <2>1, StartPreserves, LaunchPreserves DEF GuardNext
  <2>2. CASE UNCHANGED guardVars
    BY <2>2 DEF guardVars, GuardInv, GuardTypeOK, PathIsARivals, PathIsAHolders,
       NeverRefusedAlone, RefusedForARival
  <2>3. QED
    BY <2>1, <2>2
<1>3. QED
  BY <1>1, <1>2, PTL DEF GuardSpec

\* A launch that overlaps no other is never refused, whatever is at the path.
THEOREM NeverRefusedAloneAlways == GuardSpec => []NeverRefusedAlone
<1>1. GuardInv => NeverRefusedAlone
  BY DEF GuardInv, PathIsARivals, NeverRefusedAlone
<1>2. QED
  BY <1>1, GuardInvariant, PTL

\* Who is refused is refused for a launch that has got the guard.
THEOREM RefusedForARivalAlways == GuardSpec => []RefusedForARival
<1>1. GuardInv => RefusedForARival
  BY DEF GuardInv, PathIsAHolders
<1>2. QED
  BY <1>1, GuardInvariant, PTL
-----------------------------------------------------------------------------
\* What a launch does to the guard, the guard alone does.
LEMMA LaunchStepIsAGuardStep == [LaunchNext]_launchVars => [GuardNext]_guardVars
  BY DEF LaunchNext, launchVars, GuardNext, guardVars, Apply, Guard, BringUp, AskDaemon,
         ProcessEnds

LEMMA InitLaunch == LaunchInit => LaunchInv
  BY DEF LaunchInit, LaunchInv

LEMMA ApplyPreserves ==
  ASSUME LaunchInv, NEW p \in Processes, Apply(p)
  PROVE  LaunchInv'
<1> USE DEF LaunchInv
<1>1. CASE host = "linux" /\ stage' = [stage EXCEPT ![p] = "panicked"] /\ posture' = posture
  BY <1>1 DEF Apply
<1>2. ASSUME NEW limit \in Limits, stage' = [stage EXCEPT ![p] = "applied"],
             posture' = [posture EXCEPT ![p] =
                           limit \cup (IF host = "linux" THEN {"attribute"} ELSE {})]
      PROVE  LaunchInv'
  <2>1. limit \subseteq {"limit", "printed"} /\ (host = "macos" => limit # {})
    BY DEF Limits
  <2>2. posture'[p] = limit \cup (IF host = "linux" THEN {"attribute"} ELSE {})
    BY <1>2
  <2>3. /\ posture' \in [Processes -> SUBSET {"limit", "printed", "attribute"}]
        /\ host = "linux" => "attribute" \in posture'[p]
        /\ host = "macos" => posture'[p] # {}
    BY <1>2, <2>1, <2>2
  <2>4. stage[p] = "off" /\ host' = host /\ credential' = credential
    BY DEF Apply
  <2>5. QED
    BY <1>2, <2>3, <2>4
<1>3. QED
  BY <1>1, <1>2 DEF Apply

LEMMA LaunchStep == LaunchInv /\ [LaunchNext]_launchVars => LaunchInv'
<1> SUFFICES ASSUME LaunchInv, [LaunchNext]_launchVars
             PROVE  LaunchInv'
  OBVIOUS
<1>1. ASSUME NEW p \in Processes, Guard(p) \/ ProcessEnds(p)
      PROVE  LaunchInv'
  BY <1>1 DEF Guard, ProcessEnds, LaunchInv
<1>2. ASSUME NEW p \in Processes, BringUp(p)
      PROVE  LaunchInv'
  BY <1>2 DEF BringUp, LaunchInv
<1>3. ASSUME NEW p \in Processes, AskDaemon(p)
      PROVE  LaunchInv'
  BY <1>3 DEF AskDaemon, LaunchInv
<1>4. CASE UNCHANGED launchVars
  BY <1>4 DEF launchVars, LaunchInv
<1>5. QED
  BY <1>1, <1>2, <1>3, <1>4, ApplyPreserves DEF LaunchNext

\* In any order of launches, refusals and ends, a process that has resolved the
\* credential is not dumpable on Linux, whatever the kernel answered, and on
\* macOS has its limit at zero or its refusal printed (dumpability.rs 62-66); of
\* Windows the theorem says nothing.
THEOREM CredentialIsClosedAlways == LaunchSpec => []CredentialIsClosed
<1>1. LaunchInv => CredentialIsClosed
  BY DEF LaunchInv, CredentialIsClosed
<1>2. QED
  BY <1>1, InitLaunch, LaunchStep, PTL DEF LaunchSpec

\* The launches of main.rs 114-206 go through the guard as single_instance.rs
\* has it, so what is proved of the guard holds of them.
THEOREM LaunchesAreGuarded == LaunchSpec => GuardSpec
<1>1. LaunchInit => GuardInit
  BY DEF LaunchInit
<1>2. QED
  BY <1>1, LaunchStepIsAGuardStep, PTL DEF LaunchSpec, GuardSpec
-----------------------------------------------------------------------------
\* The hour of a reading of the clock.
LEMMA HourOf ==
  ASSUME NEW c \in Nat
  PROVE  /\ c \div PerHour \in Nat
         /\ PerHour * (c \div PerHour) <= c
         /\ c < PerHour * (c \div PerHour) + PerHour
BY UpdateAssumption

LEMMA HoursAreOrdered ==
  ASSUME NEW c \in Nat, NEW d \in Nat, c <= d
  PROVE  c \div PerHour <= d \div PerHour
<1> DEFINE h == c \div PerHour
           k == d \div PerHour
<1>1. h \in Nat /\ PerHour * h <= c /\ k \in Nat /\ d < PerHour * k + PerHour
  BY HourOf
<1> HIDE DEF h, k
<1>2. PerHour * h < PerHour * (k + 1)
  BY <1>1, UpdateAssumption
<1>3. h < k + 1
  BY <1>1, <1>2, UpdateAssumption
<1>4. QED
  BY <1>1, <1>3 DEF h, k

\* Any distance of the two moments in days puts as many hours between the hours.
LEMMA ADayIsItsHours ==
  ASSUME NEW c \in Nat, NEW d \in Nat, d - c >= Day
  PROVE  d \div PerHour - c \div PerHour >= UPDATE_CHECK_INTERVAL_HOURS
<1> DEFINE h == c \div PerHour
           k == d \div PerHour
           I == UPDATE_CHECK_INTERVAL_HOURS
<1>1. h \in Nat /\ PerHour * h <= c /\ k \in Nat /\ d < PerHour * k + PerHour
  BY HourOf
<1>2. I \in Nat /\ PerHour \in Nat \ {0} /\ d >= c + I * PerHour
  BY UpdateAssumption DEF Day
<1> HIDE DEF h, k, I
<1>3. PerHour * (h + I) < PerHour * (k + 1)
  BY <1>1, <1>2
<1>4. h + I < k + 1
  BY <1>1, <1>2, <1>3
<1>5. QED
  BY <1>1, <1>2, <1>4 DEF h, k, I

\* And hours that far apart are of moments a day apart, less an hour.
LEMMA HoursAreAlmostADay ==
  ASSUME NEW c \in Nat, NEW d \in Nat,
         d \div PerHour - c \div PerHour >= UPDATE_CHECK_INTERVAL_HOURS
  PROVE  d - c > Day - PerHour
<1> DEFINE h == c \div PerHour
           k == d \div PerHour
           I == UPDATE_CHECK_INTERVAL_HOURS
<1>1. h \in Nat /\ c < PerHour * h + PerHour /\ k \in Nat /\ PerHour * k <= d
  BY HourOf
<1>2. I \in Nat /\ PerHour \in Nat \ {0} /\ k >= h + I /\ Day = I * PerHour
  BY UpdateAssumption DEF Day
<1> HIDE DEF h, k, I
<1>3. PerHour * k >= PerHour * (h + I)
  BY <1>1, <1>2
<1>4. QED
  BY <1>1, <1>2, <1>3

LEMMA InitUpdate == UpdateInit => UpdateInv
  BY UpdateAssumption, HourOf DEF UpdateInit, UpdateInv, Never, NoStamp

LEMMA UpdateStep == UpdateInv /\ [UpdateNext]_updateVars => UpdateInv'
<1> SUFFICES ASSUME UpdateInv, [UpdateNext]_updateVars
             PROVE  UpdateInv'
  OBVIOUS
<1> USE DEF UpdateInv
<1>1. CASE Launch \/ Quit
  <2>1. task' # "fetched" /\ UNCHANGED << clock, stamp, recorded_at, fetched_at >>
    BY <1>1 DEF Launch, Runs, Quit, histories
  <2>2. QED
    BY <2>1
<1>2. CASE Fetch
  BY <1>2 DEF Fetch, Never
<1>3. CASE RecordCheck
  <2>1. clock \in Nat /\ Latest \in Nat /\ clock <= Latest
    BY UpdateAssumption
  <2>2. now_unix_hours \in 0 .. Latest \div PerHour
    BY <2>1, HourOf, HoursAreOrdered DEF now_unix_hours
  <2>3. UNCHANGED << clock, fetched_at >> /\ task' = "idle" /\ fetched_at # Never
    BY <1>3 DEF RecordCheck
  <2>4. CASE stamp' = now_unix_hours /\ recorded_at' = clock
    BY <2>1, <2>2, <2>3, <2>4 DEF now_unix_hours
  <2>5. CASE stamp' \in {stamp, NoStamp} /\ UNCHANGED recorded_at
    BY <2>3, <2>5
  <2>6. QED
    BY <1>3, <2>4, <2>5 DEF RecordCheck
<1>4. CASE Wipe
  BY <1>4 DEF Wipe, histories
<1>5. CASE Tick
  BY <1>5, UpdateAssumption DEF Tick, histories
<1>6. CASE SetBack
  <2>1. /\ clock' \in 0 .. Latest /\ recorded_at' = Never
        /\ fetched_at' = IF task = "fetched" THEN clock' ELSE Never
        /\ UNCHANGED << stamp, task >>
    BY <1>6, UpdateAssumption DEF SetBack
  <2>2. clock' # Never
    BY <2>1, UpdateAssumption DEF Never
  <2>3. QED
    BY <2>1, <2>2
<1>7. CASE UNCHANGED updateVars
  BY <1>7 DEF updateVars, histories
<1>8. QED
  BY <1>1, <1>2, <1>3, <1>4, <1>5, <1>6, <1>7 DEF UpdateNext

\* What check_due computes of a stamp that is there (rfc011.rs 77-84): the
\* difference, or when the stamp is in the future one that has wrapped.
LEMMA DifferenceOfHours ==
  ASSUME UpdateInv, stamp # NoStamp
  PROVE  /\ now_unix_hours \in Nat /\ stamp \in Nat
         /\ stamp <= now_unix_hours => (now_unix_hours - stamp) % Word = now_unix_hours - stamp
         /\ stamp > now_unix_hours =>
              (now_unix_hours - stamp) % Word >= UPDATE_CHECK_INTERVAL_HOURS
<1> DEFINE now == now_unix_hours
           last == Latest \div PerHour
           I == UPDATE_CHECK_INTERVAL_HOURS
<1>1. clock \in Nat /\ Latest \in Nat /\ clock <= Latest
  BY UpdateAssumption DEF UpdateInv
<1>2. now \in Nat /\ last \in Nat /\ now <= last
  BY <1>1, HourOf, HoursAreOrdered DEF now_unix_hours
<1>3. stamp \in 0 .. last
  BY DEF UpdateInv
<1>4. I \in Nat \ {0} /\ Word \in Nat /\ Word >= last + I
  BY UpdateAssumption
<1> HIDE DEF now, last, I
<1>5. stamp <= now => (now - stamp) % Word = now - stamp
  BY <1>2, <1>3, <1>4
<1>6. stamp > now => (now - stamp) % Word = now - stamp + Word
  BY <1>2, <1>3, <1>4
<1>7. QED
  BY <1>2, <1>3, <1>4, <1>5, <1>6 DEF now, I

\* For every interval and resolution of the clock, word size and number of
\* settings of the clock: a day after the last record, or under a stamp from
\* the future, a check is due (rfc011.rs 74-98).
THEOREM DueAfterADayAlways == UpdateSpec => []DueAfterADay
<1>1. UpdateInv => DueAfterADay
  <2> SUFFICES ASSUME UpdateInv, stamp # NoStamp,
                      \/ recorded_at # Never /\ clock - recorded_at >= Day
                      \/ stamp > now_unix_hours
               PROVE  (now_unix_hours - stamp) % Word >= UPDATE_CHECK_INTERVAL_HOURS
    BY DEF DueAfterADay, CheckDue
  <2>1. CASE stamp > now_unix_hours
    BY <2>1, DifferenceOfHours
  <2>2. CASE recorded_at # Never /\ clock - recorded_at >= Day
    <3>1. recorded_at \in Nat /\ clock \in Nat /\ stamp = recorded_at \div PerHour
      BY <2>2, UpdateAssumption DEF UpdateInv
    <3>2. now_unix_hours - stamp >= UPDATE_CHECK_INTERVAL_HOURS
      BY <2>2, <3>1, ADayIsItsHours DEF now_unix_hours
    <3>3. QED
      BY <3>2, DifferenceOfHours, UpdateAssumption
  <2>3. QED
    BY <2>1, <2>2
<1>2. QED
  BY <1>1, InitUpdate, UpdateStep, PTL DEF UpdateSpec

\* And, on a clock that is not set back, a check starts more than a day less an
\* hour after the last recorded one, if that record is still there and can be read
\* (rfc011.rs 19, 74-91).
THEOREM ChecksAreAlmostADayApartAlways == UpdateSpec => ChecksAreAlmostADayApart
<1> DEFINE Apart == (Starts /\ dir' = "state" /\ ~unread' /\ stamp # NoStamp /\ recorded_at # Never)
                       => clock - recorded_at > Day - PerHour
<1>1. UpdateInv /\ [UpdateNext]_updateVars => [Apart]_updateVars
  <2> SUFFICES ASSUME UpdateInv, UpdateNext, Starts, dir' = "state", ~unread',
                      stamp # NoStamp, recorded_at # Never
               PROVE  clock - recorded_at > Day - PerHour
    OBVIOUS
  <2>1. CheckDue(FALSE)
    <3>1. Launch
      BY DEF Starts, UpdateNext, Fetch, RecordCheck, Wipe, Quit, Tick, SetBack
    <3>2. PICK err \in BOOLEAN : unread' = err /\ task' = Runs(CheckDue(err))
      BY <3>1 DEF Launch
    <3>3. CheckDue(err) /\ ~err
      BY <3>2 DEF Starts, Runs
    <3>4. QED
      BY <3>3 DEF CheckDue
  <2>2. /\ recorded_at \in Nat /\ clock \in Nat /\ recorded_at <= clock
        /\ stamp = recorded_at \div PerHour
    BY UpdateAssumption DEF UpdateInv
  <2>3. stamp <= now_unix_hours
    BY <2>2, HoursAreOrdered DEF now_unix_hours
  <2>4. now_unix_hours - stamp >= UPDATE_CHECK_INTERVAL_HOURS
    BY <2>1, <2>2, <2>3, DifferenceOfHours DEF CheckDue
  <2>5. QED
    BY <2>2, <2>4, HoursAreAlmostADay DEF now_unix_hours
<1>2. QED
  BY <1>1, InitUpdate, UpdateStep, PTL DEF UpdateSpec, ChecksAreAlmostADayApart

\* No launch records a check whose fetch has not come back (main.rs 905-909).
THEOREM RecordedIsFetchedAlways == UpdateSpec => []RecordedIsFetched
<1>1. UpdateInv => RecordedIsFetched
  BY UpdateAssumption DEF UpdateInv, RecordedIsFetched
<1>2. QED
  BY <1>1, InitUpdate, UpdateStep, PTL DEF UpdateSpec
-----------------------------------------------------------------------------
(* The source stamp.                                                       *)

LEMMA ScriptedIsTheTree ==
  ASSUME NEW t \in [Paths -> Contents \cup {Absent}]
  PROVE  /\ Scripted(t).files \subseteq Paths
         /\ DOMAIN Scripted(t).stamp = Scripted(t).files
         /\ \A p \in Scripted(t).files : Scripted(t).stamp[p] = t[p]
BY StampAssumption DEF Scripted, SourceFiles, Digest

\* What a compilation makes of the two readings of the sources.
LEMMA BuiltOf ==
  ASSUME NEW o, NEW u, NEW t, NEW open
  PROVE  /\ Built(o, u, t, open).stamp = o.stamp /\ Built(o, u, t, open).unsettled = open
         /\ \A p \in Paths : u[p] = t[p] => Built(o, u, t, open).from[p] = t[p]
BY DEF Built

LEMMA InitStamp == StampInit => StampInv
<1> SUFFICES ASSUME StampInit
             PROVE  StampInv
  OBVIOUS
<1>1. tree \in [Paths -> Contents \cup {Absent}] /\ slint = tree
  BY DEF StampInit, Trees
<1>2. /\ outdir = Scripted(tree) /\ artefact = Built(outdir, slint, tree, {})
      /\ cargo = "rest" /\ undone = FALSE
  BY DEF StampInit
<1>3. QED
  BY <1>1, <1>2, ScriptedIsTheTree, BuiltOf DEF StampInv

LEMMA StampStep == StampInv /\ [StampNext]_stampVars => StampInv'
<1> SUFFICES ASSUME StampInv, [StampNext]_stampVars
             PROVE  StampInv'
  OBVIOUS
<1> USE DEF StampInv
<1>1. CASE Edit \/ EditUnnoticed
  <2>1. PICK p \in Paths, c \in Contents \cup {Absent} :
          tree' = [tree EXCEPT ![p] = c] /\ since' = since \cup {p}
    BY <1>1 DEF Edit, EditUnnoticed
  <2>2. UNCHANGED << slint, outdir, artefact, cargo, undone >>
    BY <1>1 DEF Edit, EditUnnoticed
  <2>3. QED
    BY <2>1, <2>2
<1>2. CASE CargoTest \/ CargoBuild
  <2>1. UNCHANGED << tree, outdir, artefact >>
    BY <1>2 DEF CargoTest, CargoBuild
  <2>2. CASE CompileUI /\ cargo' \in {"test", "build"}
    BY <2>1, <2>2 DEF CompileUI
  <2>3. CASE ~ScriptIsDue /\ cargo' = "rustc" /\ UNCHANGED << slint, undone, since >>
    BY <2>1, <2>3 DEF ScriptIsDue
  <2>4. QED
    BY <1>2, <2>2, <2>3 DEF CargoTest, CargoBuild
<1>3. CASE StampTheSources
  <2>1. /\ outdir' = Scripted(tree) /\ UNCHANGED << tree, slint, artefact, since >>
        /\ cargo' \in {"rustc", "rest"} /\ ~undone'
        /\ \A p \in Paths \ since : slint[p] = tree[p]
    BY <1>3 DEF StampTheSources
  <2>2. QED
    BY <2>1, ScriptedIsTheTree
<1>4. CASE Compile
  <2>1. /\ artefact' = Built(outdir, slint, tree, since) /\ cargo' = "rest" /\ ~undone
        /\ UNCHANGED << tree, slint, outdir, since, undone >>
    BY <1>4 DEF Compile
  <2>2. /\ artefact'.stamp = outdir.stamp /\ artefact'.unsettled = since
        /\ \A p \in Paths : slint[p] = tree[p] => artefact'.from[p] = tree[p]
    BY <2>1, BuiltOf
  <2>3. \A p \in outdir.files \ since : tree[p] = outdir.stamp[p] /\ slint[p] = outdir.stamp[p]
    BY <2>1
  <2>4. \A p \in DOMAIN artefact'.stamp \ artefact'.unsettled :
          artefact'.from[p] = artefact'.stamp[p]
    BY <2>2, <2>3
  <2>5. QED
    BY <2>1, <2>4
<1>5. CASE CargoStops
  BY <1>5 DEF CargoStops
<1>6. CASE UNCHANGED stampVars
  BY <1>6 DEF stampVars
<1>7. QED
  BY <1>1, <1>2, <1>3, <1>4, <1>5, <1>6 DEF StampNext

\* Whatever is edited, noticed by cargo or not, also while it runs, and built and
\* tested in any order: what the release gate lets through was made of the listed
\* files as they are now, but for those edited while that build was under way
\* (attribution.rs 299-307, 963-1003).
THEOREM GateMeansCurrentAlways == StampSpec => []GateMeansCurrent
<1>1. StampInv => GateMeansCurrent
  <2> SUFFICES ASSUME StampInv, Gate, NEW p \in outdir.files \ artefact.unsettled
               PROVE  artefact.from[p] = tree[p]
    BY DEF GateMeansCurrent
  <2>1. artefact.stamp = outdir.stamp /\ outdir.stamp[p] = tree[p]
    <3>1. Digest(outdir.files, tree) = outdir.stamp /\ artefact.stamp = outdir.stamp
      BY DEF Gate
    <3>2. Digest(outdir.files, tree)[p] = tree[p]
      BY DEF Digest
    <3>3. QED
      BY <3>1, <3>2
  <2>2. QED
    BY <2>1 DEF StampInv
<1>2. QED
  BY <1>1, InitStamp, StampStep, PTL DEF StampSpec
-----------------------------------------------------------------------------
(* The search.                                                             *)

\* The places a search looks at are numbers.
LEMMA SearchTypes ==
  ASSUME SearchInv
  PROVE  /\ m \in Nat /\ Len(haystack) \in Nat
         /\ \A j \in 1 .. m : needle[j] \in Byte
         /\ \A j \in 1 .. Len(haystack) : haystack[j] \in Byte
<1>1. haystack \in Seq(Byte) /\ needle \in Seq(Byte)
  BY DEF SearchInv
<1>2. QED
  BY <1>1, ElementOfSeq, LenProperties DEF m

LEMMA InitSearch == SearchInit => SearchInv
<1> SUFFICES ASSUME SearchInit
             PROVE  SearchInv
  OBVIOUS
<1>1. haystack \in Seq(Byte) /\ needle \in Seq(Byte)
  BY SearchAssumption DEF SearchInit
<1>2. m \in Nat /\ Len(haystack) \in Nat
  BY <1>1, LenProperties DEF m
<1>3. filled = 0 /\ offset = 0 /\ skip = [c \in Byte |-> m]
  BY DEF SearchInit
<1>4. skip \in [Byte -> 0 .. m] /\ (m > 0 => \A c \in Byte : skip[c] > 0)
  BY <1>2, <1>3
<1>5. \/ m = 0 /\ answer = "found"
      \/ m > Len(haystack) /\ answer = "nowhere"
      \/ m > 0 /\ answer = "filling"
  BY <1>2 DEF SearchInit
<1>6. AnswerIsTheFirst
  BY <1>2, <1>3, <1>5 DEF AnswerIsTheFirst, OccursAt
<1>7. QED
  BY <1>1, <1>2, <1>3, <1>4, <1>5, <1>6 DEF SearchInv

\* A place the window jumps over is none: its end stands under a byte of the
\* needle that the table knows.
LEMMA NothingIsJumped ==
  ASSUME SearchInv, answer = "searching", offset + m <= Len(haystack),
         NEW o \in offset + 1 .. offset + skip[haystack[offset + m]] - 1
  PROVE  ~OccursAt(o)
<1> SUFFICES ASSUME OccursAt(o)
             PROVE  FALSE
  OBVIOUS
<1> DEFINE end == haystack[offset + m]
<1>1. /\ m \in Nat \ {0} /\ offset \in Nat /\ filled = m - 1
      /\ Len(haystack) \in Nat
      /\ skip \in [Byte -> 0 .. m]
      /\ \A k \in 1 .. filled : skip[needle[k]] <= m - k
  <2>1. m \in Nat /\ Len(haystack) \in Nat
    BY SearchTypes
  <2>2. /\ m > 0 /\ offset \in Nat /\ filled = m - 1
        /\ skip \in [Byte -> 0 .. m]
        /\ \A k \in 1 .. filled : skip[needle[k]] <= m - k
    BY DEF SearchInv
  <2>3. QED
    BY <2>1, <2>2
<1>2. offset + m \in 1 .. Len(haystack)
  BY <1>1
<1>3. skip[end] \in 0 .. m
  BY <1>1, <1>2, SearchTypes
<1> DEFINE k == offset + m - o
<1>4. k \in 1 .. m - 1 /\ o + k = offset + m
  BY <1>1, <1>3
<1>5. haystack[o + k] = needle[k]
  BY <1>1, <1>4 DEF OccursAt
<1>6. skip[end] <= m - k
  BY <1>1, <1>4, <1>5
<1>7. m - k = o - offset
  BY <1>1
<1>8. QED
  BY <1>1, <1>3, <1>6, <1>7

LEMMA SearchStep == SearchInv /\ [SearchNext]_searchVars => SearchInv'
<1> SUFFICES ASSUME SearchInv, [SearchNext]_searchVars
             PROVE  SearchInv'
  OBVIOUS
<1>0. /\ m \in Nat /\ Len(haystack) \in Nat /\ filled \in Nat /\ offset \in Nat
      /\ haystack \in Seq(Byte) /\ needle \in Seq(Byte)
      /\ skip \in [Byte -> 0 .. m] /\ (m > 0 => \A c \in Byte : skip[c] > 0)
      /\ \A k \in 1 .. filled : skip[needle[k]] <= m - k
      /\ \A o \in 0 .. offset - 1 : ~OccursAt(o)
  BY SearchTypes DEF SearchInv
<1>1. CASE Fill
  <2>1. /\ answer = "filling" /\ filled <= m - 1 /\ m > 0
        /\ UNCHANGED << haystack, needle, offset >>
    BY <1>1 DEF Fill, SearchInv
  <2>2. m' = m /\ \A o : OccursAt(o)' <=> OccursAt(o)
    BY <2>1 DEF m, OccursAt
  <2>3. answer' \in {"filling", "searching"}
    BY <1>1 DEF Fill
  <2>4. AnswerIsTheFirst'
    BY <2>3 DEF AnswerIsTheFirst
  <2>5. CASE /\ filled < m - 1 /\ filled' = filled + 1 /\ answer' = answer
             /\ skip' = [skip EXCEPT ![needle[filled + 1]] = m - (filled + 1)]
    <3>0. filled + 1 \in 1 .. m /\ m - (filled + 1) \in 1 .. m
      <4>1. m \in Nat /\ filled \in Nat /\ filled < m - 1
        BY <1>0, <2>5
      <4>2. QED
        BY <4>1
    <3>1. m - (filled + 1) \in 1 .. m /\ needle[filled + 1] \in Byte
      BY <3>0, SearchTypes
    <3>2. /\ skip' \in [Byte -> 0 .. m]
          /\ \A c \in Byte : skip'[c] > 0
      BY <1>0, <2>1, <2>5, <3>1
    <3>3. ASSUME NEW k \in 1 .. filled'
          PROVE  skip'[needle[k]] <= m - k
      <4>1. CASE needle[k] = needle[filled + 1]
        BY <1>0, <2>5, <3>1, <4>1
      <4>2. CASE needle[k] # needle[filled + 1]
        <5>1. k \in 1 .. filled /\ needle[k] \in Byte
          BY <1>0, <2>5, <4>2, SearchTypes
        <5>2. skip'[needle[k]] = skip[needle[k]]
          BY <1>0, <2>5, <4>2, <5>1
        <5>3. QED
          BY <1>0, <5>1, <5>2
      <4>3. QED
        BY <4>1, <4>2
    <3>4. filled' <= m - 1 /\ filled' \in Nat
      BY <1>0, <2>5
    <3>5. QED
      BY <1>0, <2>1, <2>2, <2>4, <2>5, <3>2, <3>3, <3>4 DEF SearchInv
  <2>6. CASE filled = m - 1 /\ answer' = "searching" /\ UNCHANGED << skip, filled >>
    BY <1>0, <2>1, <2>2, <2>4, <2>6 DEF SearchInv
  <2>7. QED
    BY <1>1, <2>5, <2>6 DEF Fill
<1>2. CASE Match
  <2>1. /\ OccursAt(offset) /\ answer' = "found"
        /\ UNCHANGED << haystack, needle, skip, filled, offset >>
    BY <1>2 DEF Match
  <2>2. m' = m /\ \A o : OccursAt(o)' <=> OccursAt(o)
    BY <2>1 DEF m, OccursAt
  <2>3. AnswerIsTheFirst'
    BY <1>0, <2>1, <2>2 DEF AnswerIsTheFirst
  <2>4. QED
    BY <1>0, <2>1, <2>2, <2>3 DEF SearchInv
<1>3. CASE Move
  <2>1. /\ answer = "searching" /\ offset + m <= Len(haystack) /\ ~OccursAt(offset)
        /\ offset' = offset + skip[haystack[offset + m]]
        /\ UNCHANGED << haystack, needle, skip, filled, answer >>
    BY <1>3 DEF Move
  <2>2. m' = m /\ \A o : OccursAt(o)' <=> OccursAt(o)
    BY <2>1 DEF m, OccursAt
  <2>3. m > 0 /\ filled = m - 1
    BY <2>1 DEF SearchInv
  <2>4. haystack[offset + m] \in Byte
    BY <1>0, <2>1, <2>3, SearchTypes
  <2>5. skip[haystack[offset + m]] \in 1 .. m
    BY <1>0, <2>3, <2>4
  <2>6. offset' \in Nat
    BY <1>0, <2>1, <2>5
  <2>7. ASSUME NEW o \in 0 .. offset' - 1
        PROVE  ~OccursAt(o)
    <3> DEFINE jump == skip[haystack[offset + m]]
    <3>0. offset \in Nat /\ jump \in Nat /\ o \in 0 .. offset + jump - 1
      BY <1>0, <2>1, <2>5
    <3> HIDE DEF jump
    <3>1. \/ o \in 0 .. offset - 1
          \/ o = offset
          \/ o \in offset + 1 .. offset + jump - 1
      BY <3>0
    <3>2. QED
      BY <1>0, <2>1, <3>1, NothingIsJumped DEF jump
  <2>8. AnswerIsTheFirst'
    BY <2>1 DEF AnswerIsTheFirst
  <2>9. QED
    BY <1>0, <2>1, <2>2, <2>3, <2>6, <2>7, <2>8 DEF SearchInv
<1>4. CASE GiveUp
  <2>1. /\ answer = "searching" /\ offset + m > Len(haystack) /\ answer' = "nowhere"
        /\ UNCHANGED << haystack, needle, skip, filled, offset >>
    BY <1>4 DEF GiveUp
  <2>2. m' = m /\ \A o : OccursAt(o)' <=> OccursAt(o)
    BY <2>1 DEF m, OccursAt
  <2>3. \A o \in 0 .. Len(haystack) : ~OccursAt(o)
    <3> SUFFICES ASSUME NEW o \in 0 .. Len(haystack), OccursAt(o)
                 PROVE  FALSE
      OBVIOUS
    <3>1. o + m <= Len(haystack)
      BY DEF OccursAt
    <3>2. o \in 0 .. offset - 1
      BY <1>0, <2>1, <3>1
    <3>3. QED
      BY <1>0, <3>2
  <2>4. AnswerIsTheFirst'
    BY <2>1, <2>2, <2>3 DEF AnswerIsTheFirst
  <2>5. QED
    BY <1>0, <2>1, <2>2, <2>4 DEF SearchInv
<1>5. CASE UNCHANGED searchVars
  <2>1. UNCHANGED << haystack, needle, skip, filled, offset, answer >>
    BY <1>5 DEF searchVars
  <2>2. m' = m /\ \A o : OccursAt(o)' <=> OccursAt(o)
    BY <2>1 DEF m, OccursAt
  <2>3. QED
    BY <2>1, <2>2 DEF SearchInv, AnswerIsTheFirst
<1>6. QED
  BY <1>1, <1>2, <1>3, <1>4, <1>5 DEF SearchNext

\* For every alphabet, haystack and needle: the search answers with the first
\* occurrence, or there is none (attribution.rs 248-280).
THEOREM AnswerIsTheFirstAlways == SearchSpec => []AnswerIsTheFirst
<1>1. SearchInv => AnswerIsTheFirst
  BY DEF SearchInv
<1>2. QED
  BY <1>1, InitSearch, SearchStep, PTL DEF SearchSpec

\* "Every entry is therefore >= 1, so the window always advances"
\* (attribution.rs 263-264).
THEOREM TheWindowAdvances == SearchSpec => [][Move => offset' > offset]_searchVars
<1>1. SearchInv /\ [SearchNext]_searchVars => [Move => offset' > offset]_searchVars
  <2> SUFFICES ASSUME SearchInv, Move
               PROVE  offset' > offset
    OBVIOUS
  <2>1. /\ answer = "searching" /\ offset + m <= Len(haystack)
        /\ offset' = offset + skip[haystack[offset + m]]
    BY DEF Move
  <2>2. /\ m \in Nat \ {0} /\ offset \in Nat /\ Len(haystack) \in Nat
        /\ skip \in [Byte -> 0 .. m] /\ \A c \in Byte : skip[c] > 0
    BY <2>1, SearchTypes DEF SearchInv
  <2>3. haystack[offset + m] \in Byte
    BY <2>1, <2>2, SearchTypes
  <2>4. QED
    BY <2>1, <2>2, <2>3
<1>2. QED
  BY <1>1, InitSearch, SearchStep, PTL DEF SearchSpec
-----------------------------------------------------------------------------
(* The pairing image.                                                      *)

LEMMA InitDraw == DrawInit => DrawInv
<1> SUFFICES ASSUME DrawInit
             PROVE  DrawInv
  OBVIOUS
<1>1. modules \in Nat \ {0} /\ dim_i \in Nat \ {0}
  BY QrAssumption DEF DrawInit, dim_i
<1>2. y = 0 /\ x = 0 /\ bytes = << >>
  BY DEF DrawInit
<1>3. bytes \in Seq(BOOLEAN) /\ Len(bytes) = 0
  BY <1>2, EmptySeq
<1>4. y * dim_i + x = 0
  BY <1>1, <1>2
<1>5. DOMAIN colors = 0 .. modules * modules - 1
  BY DEF DrawInit
<1>6. QED
  BY <1>1, <1>2, <1>3, <1>4, <1>5 DEF DrawInv

LEMMA DrawStep == DrawInv /\ [DrawNext]_drawVars => DrawInv'
<1> SUFFICES ASSUME DrawInv, [DrawNext]_drawVars
             PROVE  DrawInv'
  OBVIOUS
<1>0. /\ modules \in Nat \ {0} /\ dim_i \in Nat \ {0}
      /\ y \in 0 .. dim_i /\ x \in 0 .. dim_i - 1
      /\ Len(bytes) = y * dim_i + x /\ bytes \in Seq(BOOLEAN)
      /\ DOMAIN colors = 0 .. modules * modules - 1
  BY QrAssumption DEF DrawInv, dim_i
<1>1. CASE Push
  <2> DEFINE dot == Dark(ModuleOf(x), ModuleOf(y))
  <2>1. y < dim_i /\ bytes' = Append(bytes, dot) /\ modules' = modules /\ colors' = colors
    BY <1>1 DEF Push
  <2>2. dim_i' = dim_i
    BY <2>1 DEF dim_i
  <2>3. dot \in BOOLEAN
    BY DEF Dark, InBounds
  <2> HIDE DEF dot
  <2>4. /\ bytes' \in Seq(BOOLEAN) /\ Len(bytes') = Len(bytes) + 1
    BY <1>0, <2>1, <2>3, AppendProperties
  <2>5. y' \in 0 .. dim_i /\ x' \in 0 .. dim_i - 1 /\ Len(bytes') = y' * dim_i + x'
    <3>1. CASE x + 1 < dim_i /\ x' = x + 1 /\ y' = y
      BY <1>0, <2>4, <3>1
    <3>2. CASE x + 1 = dim_i /\ x' = 0 /\ y' = y + 1
      <4>1. y' * dim_i + x' = y * dim_i + x + 1
        BY <1>0, <3>2
      <4>2. y' \in 0 .. dim_i /\ x' \in 0 .. dim_i - 1
        BY <1>0, <2>1, <3>2
      <4>3. Len(bytes') = y * dim_i + x + 1
        BY <1>0, <2>4
      <4>4. QED
        BY <4>1, <4>2, <4>3
    <3>3. QED
      BY <1>1, <3>1, <3>2 DEF Push
  <2>6. Done' => x' = 0
    <3>1. CASE x + 1 < dim_i /\ x' = x + 1 /\ y' = y
      BY <1>0, <2>1, <2>2, <3>1 DEF Done
    <3>2. CASE x + 1 = dim_i /\ x' = 0 /\ y' = y + 1
      BY <3>2
    <3>3. QED
      BY <1>1, <3>1, <3>2 DEF Push
  <2>7. QED
    BY <1>0, <2>1, <2>2, <2>4, <2>5, <2>6 DEF DrawInv
<1>2. CASE UNCHANGED drawVars
  BY <1>2 DEF drawVars, Done, DrawInv, dim_i
<1>3. QED
  BY <1>1, <1>2 DEF DrawNext

\* No turn reads outside the module matrix, whatever the width, the quiet zone
\* and the scale (qr.rs 40-43).
THEOREM IndexIsInRangeAlways == DrawSpec => []IndexIsInRange
<1>1. DrawInv => IndexIsInRange
  <2> SUFFICES ASSUME DrawInv, InBounds(ModuleOf(x), ModuleOf(y))
               PROVE  Index(ModuleOf(x), ModuleOf(y)) \in DOMAIN colors
    BY DEF IndexIsInRange
  <2> DEFINE px == ModuleOf(x)
             py == ModuleOf(y)
  <2>1. modules \in Nat \ {0} /\ DOMAIN colors = 0 .. modules * modules - 1
    BY DEF DrawInv
  <2>2. px \in Int /\ py \in Int
    BY QrAssumption DEF DrawInv, dim_i, ModuleOf
  <2>3. px >= 0 /\ py >= 0 /\ px < modules /\ py < modules
    BY DEF InBounds
  <2> HIDE DEF px, py
  <2>4. py * modules + px \in 0 .. modules * modules - 1
    <3>1. py * modules <= (modules - 1) * modules /\ 0 <= py * modules
      BY <2>1, <2>2, <2>3
    <3>2. (modules - 1) * modules = modules * modules - modules
      BY <2>1
    <3>3. QED
      BY <2>1, <2>2, <2>3, <3>1, <3>2
  <2>5. QED
    BY <2>1, <2>4 DEF Index, px, py
<1>2. QED
  BY <1>1, InitDraw, DrawStep, PTL DEF DrawSpec

\* What qr_size shows of one code holds of all: a finished drawing is an image
\* of one pixel per module, so at any scale above one the bytes are too few for
\* the image they are declared to be (qr.rs 31-34).
THEOREM DrawingHasOnePixelPerModule ==
  DrawSpec => [](Done => /\ Len(bytes) = dim_i * dim_i
                         /\ SCALE > 1 => Len(bytes) < dim * dim)
<1>1. DrawInv => (Done => /\ Len(bytes) = dim_i * dim_i
                          /\ SCALE > 1 => Len(bytes) < dim * dim)
  <2> SUFFICES ASSUME DrawInv, Done
               PROVE  /\ Len(bytes) = dim_i * dim_i
                      /\ SCALE > 1 => Len(bytes) < dim * dim
    OBVIOUS
  <2>1. dim_i \in Nat \ {0} /\ SCALE \in Nat \ {0} /\ dim = dim_i * SCALE
    BY QrAssumption DEF DrawInv, dim_i, dim
  <2>2. y = dim_i /\ x = 0 /\ Len(bytes) = y * dim_i + x
    BY DEF DrawInv, Done
  <2>3. Len(bytes) = dim_i * dim_i
    BY <2>1, <2>2
  <2>4. ASSUME SCALE > 1
        PROVE  dim_i * dim_i < dim * dim
    <3>1. dim_i * 2 <= dim_i * SCALE
      BY <2>1, <2>4
    <3>2. dim \in Nat /\ dim_i < dim
      BY <2>1, <3>1
    <3> HIDE DEF dim, dim_i
    <3>3. dim_i * dim_i < dim * dim_i /\ dim * dim_i < dim * dim
      BY <2>1, <3>2
    <3>4. QED
      BY <2>1, <3>2, <3>3
  <2>5. QED
    BY <2>3, <2>4
<1>2. QED
  BY <1>1, InitDraw, DrawStep, PTL DEF DrawSpec
-----------------------------------------------------------------------------
(* The scan of an artefact.                                                *)

\* The longest needle is one of them: by the least number of needles among
\* which there is no longest.
LEMMA LongestIsALength ==
  /\ longest \in Nat \ {0}
  /\ \A w \in 1 .. Len(Wanted) : /\ Wanted[w] \in Seq(Nat)
                                 /\ Len(Wanted[w]) \in Nat \ {0}
                                 /\ longest >= Len(Wanted[w])
<1> DEFINE N == Len(Wanted)
           length(w) == Len(Wanted[w])
           HasLongest(k) == \E v \in 1 .. k : \A w \in 1 .. k : length(v) >= length(w)
           Lacking == {k \in 1 .. N : ~HasLongest(k)}
<1>1. N \in Nat /\ N >= 2
  BY ScanAssumption, LenProperties
<1>2. \A w \in 1 .. N : Wanted[w] \in Seq(Nat) /\ length(w) \in Nat /\ length(w) > 0
  BY ScanAssumption, ElementOfSeq, LenProperties
<1> HIDE DEF length, N
<1>3. Lacking = {}
  <2> SUFFICES ASSUME Lacking # {}
               PROVE  FALSE
    OBVIOUS
  <2>1. PICK k \in Lacking : \A h \in Lacking : k <= h
    <3>1. Lacking \in SUBSET Nat
      BY <1>1
    <3>2. QED
      BY <3>1, LeastElement
  <2>2. k # 1
    BY <1>1, <1>2
  <2>3. k - 1 \in 1 .. N /\ HasLongest(k - 1)
    <3>1. k \in 1 .. N /\ k - 1 \in 1 .. N
      BY <1>1, <2>1, <2>2
    <3>2. ~(k <= k - 1)
      BY <1>1, <3>1
    <3>3. k - 1 \notin Lacking
      BY Zenon, <2>1, <3>2
    <3>4. QED
      BY <3>1, <3>3
  <2>4. PICK v \in 1 .. k - 1 : \A w \in 1 .. k - 1 : length(v) >= length(w)
    BY <2>3
  <2>5. k \in 1 .. N /\ v \in 1 .. k /\ k \in 1 .. k
    BY <1>1, <2>1, <2>4
  <2>6. \A w \in 1 .. k : w \in 1 .. k - 1 \/ w = k
    BY <2>5
  <2>7. \A w \in 1 .. k : length(w) \in Nat
    <3>1. \A w \in 1 .. k : w \in 1 .. N
      BY <1>1, <2>5
    <3>2. QED
      BY <1>2, <3>1
  <2>8. CASE length(v) >= length(k)
    BY <2>1, <2>4, <2>5, <2>6, <2>8
  <2>9. CASE ~(length(v) >= length(k))
    <3>1. \A w \in 1 .. k : length(k) >= length(w)
      <4>1. length(v) \in Nat /\ length(k) \in Nat /\ length(k) > length(v)
        BY <2>5, <2>7, <2>9
      <4>2. \A w \in 1 .. k - 1 : length(w) \in Nat
        BY <2>5, <2>7
      <4>3. \A w \in 1 .. k - 1 : length(k) >= length(w)
        BY <2>4, <4>1, <4>2
      <4>4. QED
        BY <2>6, <4>1, <4>3
    <3>2. QED
      BY <2>1, <2>5, <3>1
  <2>10. QED
    BY <2>8, <2>9
<1>4. PICK v \in 1 .. N : \A w \in 1 .. N : length(v) >= length(w)
  BY <1>1, <1>3
<1> USE DEF length, N
<1>5. longest \in {length(w) : w \in 1 .. N} /\ \A w \in 1 .. N : longest >= length(w)
  <2>1. length(v) \in {length(w) : w \in 1 .. N}
    OBVIOUS
  <2>2. QED
    BY <1>4, <2>1 DEF longest
<1>6. QED
  BY <1>2, <1>5

\* A stretch of a text, byte by byte.
LEMMA StretchOf ==
  ASSUME NEW text \in Seq(Nat), NEW o \in Nat, NEW l \in Nat, o + l <= Len(text)
  PROVE  /\ SubSeq(text, o + 1, o + l) \in Seq(Nat)
         /\ Len(SubSeq(text, o + 1, o + l)) = l
         /\ \A j \in 1 .. l : SubSeq(text, o + 1, o + l)[j] = text[o + j]
<1>1. Len(text) \in Nat
  BY LenProperties
<1> DEFINE first == o + 1
           last == o + l
           part == SubSeq(text, first, last)
<1>2. first \in Int /\ last \in Int /\ last - first + 1 = l /\ (first <= last <=> l > 0)
  OBVIOUS
<1>3. \A j \in first .. last : text[j] \in Nat
  BY <1>1, ElementOfSeq
<1>4. \A j \in 1 .. l : first + j - 1 = o + j
  OBVIOUS
<1> HIDE DEF first, last
<1>5. /\ part \in Seq(Nat)
      /\ Len(part) = IF first <= last THEN last - first + 1 ELSE 0
      /\ \A j \in 1 .. last - first + 1 : part[j] = text[first + j - 1]
  BY <1>2, <1>3, SubSeqProperties
<1> HIDE DEF part
<1>6. part \in Seq(Nat) /\ Len(part) = l /\ \A j \in 1 .. l : part[j] = text[o + j]
  <2>1. Len(part) = l
    <3>1. CASE first <= last
      BY <1>2, <1>5, <3>1
    <3>2. CASE ~(first <= last)
      BY <1>2, <1>5, <3>2
    <3>3. QED
      BY <3>1, <3>2
  <2>2. \A j \in 1 .. l : part[j] = text[first + j - 1]
    BY <1>2, <1>5
  <2>3. \A j \in 1 .. l : part[j] = text[o + j]
    BY Zenon, <1>4, <2>2
  <2>4. QED
    BY <1>5, <2>1, <2>3
<1>7. QED
  BY <1>6 DEF part, first, last

\* What it is to occur at a place, byte by byte.
LEMMA OccursBytewise ==
  ASSUME NEW text \in Seq(Nat), NEW word \in Seq(Nat), NEW o \in Nat
  PROVE  OccursIn(text, word, o) <=>
           /\ o + Len(word) <= Len(text)
           /\ \A j \in 1 .. Len(word) : text[o + j] = word[j]
<1>1. Len(text) \in Nat /\ Len(word) \in Nat
  BY LenProperties
<1> SUFFICES ASSUME o + Len(word) <= Len(text)
             PROVE  SubSeq(text, o + 1, o + Len(word)) = word
                      <=> \A j \in 1 .. Len(word) : text[o + j] = word[j]
  BY DEF OccursIn
<1> DEFINE part == SubSeq(text, o + 1, o + Len(word))
<1>2. /\ part \in Seq(Nat) /\ Len(part) = Len(word)
      /\ \A j \in 1 .. Len(word) : part[j] = text[o + j]
  BY <1>1, StretchOf
<1> HIDE DEF part
<1>3. part = word <=> \A j \in 1 .. Len(word) : part[j] = word[j]
  BY <1>2, SeqEqual
<1>4. QED
  BY <1>2, <1>3 DEF part

\* The first place is the least, and there is one if there is any.
LEMMA FirstIsLeast ==
  ASSUME NEW text \in Seq(Nat), NEW word
  PROVE  /\ Places(text, word) \in SUBSET Nat
         /\ First(text, word) = None <=> Places(text, word) = {}
         /\ First(text, word) # None =>
              /\ First(text, word) \in Places(text, word)
              /\ \A o \in Places(text, word) : First(text, word) <= o
         /\ \A p \in Places(text, word) :
              (\A o \in Places(text, word) : p <= o) => First(text, word) = p
<1> DEFINE P == Places(text, word)
<1>1. P \in SUBSET Nat
  BY LenProperties DEF Places
<1> HIDE DEF P
<1>2. P # {} => \E p \in P : \A o \in P : p <= o
  BY <1>1, LeastElement
<1>3. P # {} => /\ First(text, word) \in P
                /\ \A o \in P : First(text, word) <= o
  BY <1>2 DEF First, P
<1>4. None \notin P
  BY <1>1 DEF None
<1>5. First(text, word) = None <=> P = {}
  BY <1>3, <1>4 DEF First, P
<1>6. ASSUME NEW p \in P, \A o \in P : p <= o
      PROVE  First(text, word) = p
  <2>1. First(text, word) \in P
    BY <1>3
  <2>2. First(text, word) <= p /\ p <= First(text, word)
    BY <1>3, <1>6, <2>1
  <2>3. First(text, word) \in Nat /\ p \in Nat
    BY <1>1, <2>1
  <2>4. QED
    BY <2>2, <2>3
<1>7. QED
  BY <1>1, <1>3, <1>5, <1>6 DEF P

LEMMA InitScan == ScanInit => ScanInv
<1> SUFFICES ASSUME ScanInit
             PROVE  ScanInv
  OBVIOUS
<1>1. file \in Seq(Nat) /\ Len(file) \in Nat
  BY ScanAssumption, LenProperties DEF ScanInit
<1>2. buf = << >> /\ base = 0 /\ read = 0 /\ scan = "refill"
  BY DEF ScanInit
<1>3. buf \in Seq(Nat) /\ Len(buf) = 0
  BY <1>2, EmptySeq
<1>4. Searched = 0
  BY <1>2 DEF Searched
<1>5. ASSUME NEW w \in 1 .. Len(Wanted)
      PROVE  found[w] = None /\ \A o \in Places(file, Wanted[w]) : o + Len(Wanted[w]) > Searched
  <2>1. Len(Wanted[w]) \in Nat \ {0} /\ Places(file, Wanted[w]) \in SUBSET Nat
    BY <1>1, LongestIsALength, FirstIsLeast
  <2>2. \A o \in Nat : o + Len(Wanted[w]) > 0
    BY <2>1
  <2>3. QED
    BY <1>4, <1>5, <2>1, <2>2 DEF ScanInit
<1>6. DOMAIN found = 1 .. Len(Wanted)
  BY DEF ScanInit
<1>7. Len(buf) <= CHUNK + overlap
  BY <1>3, LongestIsALength, ScanAssumption DEF overlap
<1>8. read = base + Len(buf) /\ read <= Len(file)
  BY <1>1, <1>2, <1>3
<1>9. QED
  BY <1>1, <1>2, <1>3, <1>5, <1>6, <1>7, <1>8 DEF ScanInv

\* The numbers of the invariant.
LEMMA ScanNumbers ==
  ASSUME ScanInv
  PROVE  /\ Len(file) \in Nat /\ Len(buf) \in Nat /\ base \in Nat /\ read \in Nat
         /\ overlap \in Nat /\ CHUNK \in Nat \ {0}
         /\ read = base + Len(buf) /\ read <= Len(file)
         /\ \A j \in 1 .. Len(buf) : buf[j] \in Nat
         /\ \A j \in 1 .. Len(file) : file[j] \in Nat
<1>1. file \in Seq(Nat) /\ buf \in Seq(Nat) /\ base \in Nat
      /\ read = base + Len(buf) /\ read <= Len(file)
  BY DEF ScanInv
<1>2. overlap \in Nat /\ CHUNK \in Nat \ {0}
  BY LongestIsALength, ScanAssumption DEF overlap
<1>3. QED
  BY <1>1, <1>2, LenProperties, ElementOfSeq

\* A place in the buffer is one in the file, and one in the file that ends
\* before the bytes read so far is in the buffer, unless it starts before it.
LEMMA PlacesInTheBuffer ==
  ASSUME ScanInv, NEW w \in 1 .. Len(Wanted), NEW o \in Nat
  PROVE  o \in Places(buf, Wanted[w]) <=>
           /\ base + o \in Places(file, Wanted[w])
           /\ base + o + Len(Wanted[w]) <= read
<1> DEFINE W == Wanted[w]
<1>1. W \in Seq(Nat) /\ Len(W) \in Nat
  BY LongestIsALength
<1>2. /\ Len(file) \in Nat /\ Len(buf) \in Nat /\ base \in Nat
      /\ read = base + Len(buf) /\ read <= Len(file)
      /\ file \in Seq(Nat) /\ buf \in Seq(Nat)
      /\ \A j \in 1 .. Len(buf) : buf[j] = file[base + j]
  BY ScanNumbers DEF ScanInv
<1> HIDE DEF W
<1>3. base + o \in Nat
  BY <1>2
<1>4. o \in Places(buf, W) <=>
        o + Len(W) <= Len(buf) /\ \A j \in 1 .. Len(W) : buf[o + j] = W[j]
  <2>1. o + Len(W) <= Len(buf) => o \in 0 .. Len(buf)
    BY <1>1, <1>2
  <2>2. QED
    BY <1>1, <1>2, <2>1, OccursBytewise DEF Places
<1>5. base + o \in Places(file, W) <=>
        base + o + Len(W) <= Len(file) /\ \A j \in 1 .. Len(W) : file[base + o + j] = W[j]
  <2>1. base + o + Len(W) <= Len(file) => base + o \in 0 .. Len(file)
    BY <1>1, <1>2
  <2>2. QED
    BY <1>1, <1>2, <1>3, <2>1, OccursBytewise DEF Places
<1>6. o + Len(W) <= Len(buf) <=> base + o + Len(W) <= read
  BY <1>1, <1>2
<1>7. ASSUME o + Len(W) <= Len(buf), NEW j \in 1 .. Len(W)
      PROVE  buf[o + j] = file[base + o + j]
  <2>1. o + j \in 1 .. Len(buf) /\ base + (o + j) = base + o + j
    <3>1. j \in Nat /\ j >= 1 /\ j <= Len(W)
      BY <1>1
    <3>2. QED
      BY <1>1, <1>2, <1>7, <3>1
  <2>2. QED
    BY <1>2, <2>1
<1>8. base + o + Len(W) <= read => base + o + Len(W) <= Len(file)
  BY <1>1, <1>2
<1>9. QED
  BY <1>4, <1>5, <1>6, <1>7, <1>8 DEF W

\* A place that is left and lies in the bytes read so far starts in the buffer.
LEMMA LeftPlacesAreInTheBuffer ==
  ASSUME ScanInv, scan = "refill", NEW w \in 1 .. Len(Wanted),
         NEW o \in Places(file, Wanted[w]), o + Len(Wanted[w]) > Searched
  PROVE  o \in Nat /\ o >= base
<1>1. base \in Nat /\ overlap \in Nat /\ file \in Seq(Nat)
  BY ScanNumbers DEF ScanInv
<1>2. o \in Nat
  BY <1>1, FirstIsLeast
<1>3. Len(Wanted[w]) \in Nat /\ Len(Wanted[w]) <= overlap + 1
  BY LongestIsALength DEF overlap
<1>4. Searched = IF base = 0 THEN 0 ELSE base + overlap
  BY DEF Searched
<1>5. QED
  BY <1>1, <1>2, <1>3, <1>4

LEMMA RefillKeeps == ScanInv /\ Refill => ScanInv'
<1> SUFFICES ASSUME ScanInv, Refill
             PROVE  ScanInv'
  OBVIOUS
<1>0. /\ Len(file) \in Nat /\ Len(buf) \in Nat /\ base \in Nat /\ read \in Nat
      /\ read = base + Len(buf) /\ read <= Len(file)
      /\ \A j \in 1 .. Len(file) : file[j] \in Nat
      /\ file \in Seq(Nat) /\ buf \in Seq(Nat)
      /\ \A j \in 1 .. Len(buf) : buf[j] = file[base + j]
  BY ScanNumbers DEF ScanInv
<1>1. PICK k \in 1 .. Len(file) - read :
        /\ Len(buf) + k <= CHUNK + overlap
        /\ buf' = buf \o SubSeq(file, read + 1, read + k)
        /\ read' = read + k
  BY DEF Refill
<1>2. UNCHANGED << file, base, found, scan >> /\ scan = "refill"
  BY DEF Refill
<1> DEFINE bytes_read == SubSeq(file, read + 1, read + k)
<1>3. /\ bytes_read \in Seq(Nat) /\ Len(bytes_read) = k
      /\ \A j \in 1 .. k : bytes_read[j] = file[read + j]
  <2>1. k \in Nat /\ read + k <= Len(file)
    BY <1>0
  <2>2. QED
    BY <1>0, <2>1, StretchOf
<1> HIDE DEF bytes_read
<1>4. /\ buf' \in Seq(Nat) /\ Len(buf') = Len(buf) + k
      /\ \A j \in 1 .. Len(buf) + k :
           buf'[j] = IF j <= Len(buf) THEN buf[j] ELSE bytes_read[j - Len(buf)]
  <2>1. buf' = buf \o bytes_read
    BY <1>1 DEF bytes_read
  <2>2. /\ buf \o bytes_read \in Seq(Nat) /\ Len(buf \o bytes_read) = Len(buf) + Len(bytes_read)
        /\ \A j \in 1 .. Len(buf) + Len(bytes_read) :
             (buf \o bytes_read)[j] = IF j <= Len(buf) THEN buf[j] ELSE bytes_read[j - Len(buf)]
    <3>1. buf \in Seq(Nat) /\ bytes_read \in Seq(Nat)
      BY <1>0, <1>3
    <3>2. QED
      BY Zenon, <3>1, ConcatProperties
  <2>3. QED
    BY <1>3, <2>1, <2>2
<1>5. ASSUME NEW j \in 1 .. Len(buf')
      PROVE  buf'[j] = file[base + j]
  <2>0. j \in 1 .. Len(buf) + k /\ k \in Nat
    BY <1>0, <1>4
  <2>1. CASE j <= Len(buf)
    <3>1. j \in 1 .. Len(buf) /\ buf'[j] = buf[j]
      BY <1>0, <1>4, <2>0, <2>1
    <3>2. QED
      BY <1>0, <3>1
  <2>2. CASE j > Len(buf)
    <3>1. j - Len(buf) \in 1 .. k /\ read + (j - Len(buf)) = base + j
      BY <1>0, <2>0, <2>2
    <3>2. buf'[j] = bytes_read[j - Len(buf)]
      BY <1>0, <1>4, <2>0, <2>2
    <3>3. QED
      BY <1>3, <3>1, <3>2
  <2>3. QED
    BY <1>0, <1>4, <2>1, <2>2
<1>6. read' = base' + Len(buf') /\ read' <= Len(file')
  BY <1>0, <1>1, <1>2, <1>4
<1>7. Len(buf') <= CHUNK' + overlap'
  BY <1>1, <1>4 DEF overlap, longest
<1>8. Searched' = Searched
  BY <1>2 DEF Searched, overlap, longest
<1>9. \A w \in 1 .. Len(Wanted) :
        /\ Places(file', Wanted[w]) = Places(file, Wanted[w])
        /\ First(file', Wanted[w]) = First(file, Wanted[w])
  BY <1>2
<1>10. QED
  BY <1>0, <1>1, <1>2, <1>4, <1>5, <1>6, <1>7, <1>8, <1>9 DEF ScanInv

LEMMA CarryKeeps == ScanInv /\ Carry => ScanInv'
<1> SUFFICES ASSUME ScanInv, Carry
             PROVE  ScanInv'
  OBVIOUS
<1>0. /\ Len(file) \in Nat /\ Len(buf) \in Nat /\ base \in Nat /\ read \in Nat
      /\ overlap \in Nat /\ CHUNK \in Nat \ {0}
      /\ read = base + Len(buf) /\ read <= Len(file)
      /\ \A j \in 1 .. Len(buf) : buf[j] \in Nat
      /\ file \in Seq(Nat) /\ buf \in Seq(Nat)
      /\ \A j \in 1 .. Len(buf) : buf[j] = file[base + j]
  BY ScanNumbers DEF ScanInv
<1>1. /\ buf' = SubSeq(buf, Len(buf) - overlap + 1, Len(buf))
      /\ base' = base + Len(buf) - overlap
      /\ scan = "carry" /\ scan' = "refill"
      /\ UNCHANGED << file, read, found >>
  BY DEF Carry
<1>2. Len(buf) = CHUNK + overlap
  BY <1>1 DEF ScanInv
<1>3. /\ buf' \in Seq(Nat) /\ Len(buf') = overlap
      /\ \A j \in 1 .. overlap : buf'[j] = buf[CHUNK + j]
  <2> DEFINE tail == SubSeq(buf, CHUNK + 1, CHUNK + overlap)
  <2>1. /\ tail \in Seq(Nat) /\ Len(tail) = overlap
        /\ \A j \in 1 .. overlap : tail[j] = buf[CHUNK + j]
    BY <1>0, <1>2, StretchOf
  <2>2. buf' = tail
    <3>1. Len(buf) - overlap + 1 = CHUNK + 1
      BY <1>0, <1>2
    <3>2. QED
      BY <1>1, <1>2, <3>1
  <2>3. QED
    BY <2>1, <2>2
<1>4. base' = base + CHUNK /\ base' \in Nat \ {0}
  BY <1>0, <1>1, <1>2
<1>5. ASSUME NEW j \in 1 .. Len(buf')
      PROVE  buf'[j] = file[base' + j]
  <2>1. j \in Nat /\ CHUNK + j \in 1 .. Len(buf) /\ base + (CHUNK + j) = base' + j
    BY <1>0, <1>2, <1>3, <1>4
  <2>2. QED
    BY <1>0, <1>3, <2>1
<1>6. read' = base' + Len(buf') /\ read' <= Len(file')
  BY <1>0, <1>1, <1>2, <1>3, <1>4
<1>7. overlap' = overlap
  BY DEF overlap, longest
<1>8. Searched' = Searched
  <2>1. Searched = read
    BY <1>1 DEF Searched
  <2>2. Searched' = base' + overlap
    BY <1>1, <1>4, <1>7 DEF Searched
  <2>3. QED
    <3>1. read = base + (CHUNK + overlap) /\ base' = base + CHUNK
      BY <1>0, <1>2, <1>4
    <3>2. base + (CHUNK + overlap) = base + CHUNK + overlap
      BY <1>0
    <3>3. QED
      BY <2>1, <2>2, <3>1, <3>2
<1>9. \A w \in 1 .. Len(Wanted) :
        /\ Places(file', Wanted[w]) = Places(file, Wanted[w])
        /\ First(file', Wanted[w]) = First(file, Wanted[w])
  BY <1>1
<1>10. Len(buf') <= CHUNK + overlap'
  BY <1>0, <1>3, <1>7
<1>11. QED
  BY <1>0, <1>1, <1>3, <1>4, <1>5, <1>6, <1>8, <1>9, <1>10 DEF ScanInv

LEMMA SearchKeeps == ScanInv /\ Search => ScanInv'
<1> SUFFICES ASSUME ScanInv, Search
             PROVE  ScanInv'
  OBVIOUS
<1>0. /\ Len(file) \in Nat /\ Len(buf) \in Nat /\ base \in Nat /\ read \in Nat
      /\ overlap \in Nat /\ CHUNK \in Nat \ {0}
      /\ read = base + Len(buf) /\ read <= Len(file)
      /\ file \in Seq(Nat) /\ buf \in Seq(Nat)
      /\ Len(buf) <= CHUNK + overlap
      /\ DOMAIN found = 1 .. Len(Wanted)
  BY ScanNumbers DEF ScanInv
<1>1. /\ scan = "refill" /\ UNCHANGED << file, read, buf, base >>
      /\ Len(buf) = CHUNK + overlap \/ read = Len(file)
      /\ found' = [w \in DOMAIN found |->
                     IF found[w] = None /\ First(buf, Wanted[w]) # None
                     THEN base + First(buf, Wanted[w]) ELSE found[w]]
      /\ scan' = IF Len(buf) < CHUNK + overlap THEN "done" ELSE "carry"
  BY DEF Search
<1>2. overlap' = overlap
  BY DEF overlap, longest
<1>3. Searched' = read
  BY <1>1 DEF Searched
<1>4. ASSUME NEW w \in 1 .. Len(Wanted)
      PROVE  IF found'[w] = None
             THEN \A o \in Places(file, Wanted[w]) : o + Len(Wanted[w]) > read
             ELSE found'[w] = First(file, Wanted[w])
  <2> DEFINE W == Wanted[w]
  <2>0. W \in Seq(Nat) /\ Len(W) \in Nat
    BY LongestIsALength
  <2>1. CASE found[w] # None
    BY <1>0, <1>1, <2>1 DEF ScanInv
  <2>2. CASE found[w] = None /\ First(buf, W) = None
    <3>1. Places(buf, W) = {}
      BY <1>0, <2>2, FirstIsLeast
    <3>2. ASSUME NEW o \in Places(file, W), ~(o + Len(W) > read)
          PROVE  FALSE
      <4>1. o + Len(W) > Searched
        BY <2>2 DEF ScanInv
      <4>2. o \in Nat /\ o >= base
        BY <1>1, <4>1, LeftPlacesAreInTheBuffer
      <4>3. o - base \in Nat /\ base + (o - base) = o /\ o + Len(W) <= read
        BY <1>0, <2>0, <3>2, <4>2
      <4>4. o - base \in Places(buf, W)
        BY <4>3, PlacesInTheBuffer
      <4>5. QED
        BY <3>1, <4>4
    <3>3. found'[w] = None
      BY <1>0, <1>1, <2>2
    <3>4. QED
      BY <3>2, <3>3
  <2>3. CASE found[w] = None /\ First(buf, W) # None
    <3> DEFINE p == First(buf, W)
    <3>1. p \in Nat /\ p \in Places(buf, W) /\ \A o \in Places(buf, W) : p <= o
      BY <1>0, <2>3, FirstIsLeast
    <3>2. found'[w] = base + p
      BY <1>0, <1>1, <2>3
    <3> HIDE DEF p
    <3>3. base + p \in Places(file, W) /\ base + p + Len(W) <= read
      BY <3>1, PlacesInTheBuffer
    <3>4. ASSUME NEW o \in Places(file, W), ~(base + p <= o)
          PROVE  FALSE
      <4>1. o + Len(W) > Searched
        BY <2>3 DEF ScanInv
      <4>2. o \in Nat /\ o >= base
        BY <1>1, <4>1, LeftPlacesAreInTheBuffer
      <4>3. o - base \in Nat /\ base + (o - base) = o /\ o + Len(W) <= read /\ o - base < p
        <5> DEFINE len == Len(W)
        <5>1. base \in Nat /\ p \in Nat /\ len \in Nat /\ read \in Nat
          BY <1>0, <2>0, <3>1
        <5>2. base + p + len <= read /\ o \in Nat /\ o >= base
          BY <3>3, <4>2
        <5>a. o < base + p
          BY <3>4, <5>1, <5>2
        <5> HIDE DEF len
        <5>3. o - base \in Nat /\ base + (o - base) = o /\ o + len <= read /\ o - base < p
          BY <5>1, <5>2, <5>a
        <5>4. QED
          BY <5>3 DEF len
      <4>4. o - base \in Places(buf, W)
        BY <4>3, PlacesInTheBuffer
      <4>5. QED
        BY <3>1, <4>3, <4>4
    <3>5. First(file, W) = base + p
      BY <1>0, <3>3, <3>4, FirstIsLeast
    <3>6. base + p # None
      BY <1>0, <3>1 DEF None
    <3>7. QED
      BY <3>2, <3>5, <3>6
  <2>4. QED
    BY <2>1, <2>2, <2>3
<1>5. /\ scan' \in {"carry", "done"}
      /\ scan' = "carry" => Len(buf') = CHUNK + overlap'
      /\ scan' = "done" => read' = Len(file')
  BY <1>0, <1>1, <1>2
<1>6. DOMAIN found' = 1 .. Len(Wanted)
  BY <1>0, <1>1
<1>7. \A w \in 1 .. Len(Wanted) :
        /\ Places(file', Wanted[w]) = Places(file, Wanted[w])
        /\ First(file', Wanted[w]) = First(file, Wanted[w])
  BY <1>1
<1>8. /\ file' \in Seq(Nat) /\ buf' \in Seq(Nat) /\ base' \in Nat
      /\ read' = base' + Len(buf') /\ read' <= Len(file')
      /\ \A j \in 1 .. Len(buf') : buf'[j] = file'[base' + j]
      /\ Len(buf') <= CHUNK + overlap'
  BY <1>1, <1>2 DEF ScanInv
<1>9. QED
  BY <1>3, <1>4, <1>5, <1>6, <1>7, <1>8 DEF ScanInv

LEMMA ScanStep == ScanInv /\ [ScanNext]_scanVars => ScanInv'
<1>1. ScanInv /\ UNCHANGED scanVars => ScanInv'
  BY DEF scanVars, ScanInv, Searched, overlap, longest
<1>2. QED
  BY <1>1, RefillKeeps, SearchKeeps, CarryKeeps DEF ScanNext

THEOREM ScanInvariant == ScanSpec => []ScanInv
BY InitScan, ScanStep, PTL DEF ScanSpec

LEMMA DoneIsFirst == ScanInv => FoundIsTheFirst
<1> SUFFICES ASSUME ScanInv, scan = "done", NEW w \in 1 .. Len(Wanted)
             PROVE  found[w] = First(file, Wanted[w])
  BY DEF FoundIsTheFirst
<1>1. CASE found[w] # None
  BY <1>1 DEF ScanInv
<1>2. CASE found[w] = None
  <2>1. Searched = Len(file) /\ file \in Seq(Nat) /\ Len(file) \in Nat
    BY ScanNumbers DEF ScanInv, Searched
  <2>2. \A o \in Places(file, Wanted[w]) : o + Len(Wanted[w]) > Len(file)
    BY <1>2, <2>1 DEF ScanInv
  <2>3. Len(Wanted[w]) \in Nat
    BY LongestIsALength
  <2>4. \A o \in Places(file, Wanted[w]) : o \in Nat /\ o + Len(Wanted[w]) <= Len(file)
    BY <2>1 DEF Places, OccursIn
  <2>5. Places(file, Wanted[w]) = {}
    BY <2>1, <2>2, <2>3, <2>4
  <2>6. QED
    BY <1>2, <2>1, <2>5, FirstIsLeast
<1>3. QED
  BY <1>1, <1>2

\* For files, needles and chunks of any size, and however the reads are cut:
\* each needle is found where it first stands (attribution.rs 327-391).
THEOREM FoundIsTheFirstAlways == ScanSpec => []FoundIsTheFirst
BY DoneIsFirst, ScanInvariant, PTL

LEMMA StaleNamesAnother == ScanInv => StaleIsAnother
<1> SUFFICES ASSUME ScanInv, scan = "done", StampVerdict = "stale"
             PROVE  /\ StampFound # Wanted[1]
                    /\ SubSeq(StampFound, 1, Len(Wanted[2])) = Wanted[2]
  BY DEF StaleIsAnother
<1>1. found[1] = None /\ found[2] # None
  BY DEF StampVerdict
<1>2. 1 \in 1 .. Len(Wanted) /\ 2 \in 1 .. Len(Wanted)
  BY ScanAssumption, LenProperties
<1>3. found[1] = First(file, Wanted[1]) /\ found[2] = First(file, Wanted[2])
  BY <1>2, DoneIsFirst DEF FoundIsTheFirst
<1>4. /\ Wanted[1] \in Seq(Nat) /\ Len(Wanted[1]) \in Nat
      /\ Wanted[2] \in Seq(Nat) /\ Len(Wanted[2]) \in Nat
      /\ Len(Wanted[2]) <= Len(Wanted[1]) /\ Len(Wanted[2]) > 0
  BY <1>2, LongestIsALength, ScanAssumption
<1>5. file \in Seq(Nat) /\ Len(file) \in Nat /\ \A j \in 1 .. Len(file) : file[j] \in Nat
  BY ScanNumbers DEF ScanInv
<1> DEFINE f == found[2]
           end == IF f + Len(Wanted[1]) <= Len(file) THEN f + Len(Wanted[1]) ELSE Len(file)
<1>6. f \in Nat /\ f \in Places(file, Wanted[2]) /\ Places(file, Wanted[1]) = {}
  BY <1>1, <1>3, <1>5, FirstIsLeast
<1> HIDE DEF f
<1>7. /\ f + Len(Wanted[2]) <= Len(file)
      /\ \A j \in 1 .. Len(Wanted[2]) : file[f + j] = Wanted[2][j]
  <2>1. OccursIn(file, Wanted[2], f)
    BY <1>6 DEF Places
  <2>2. QED
    BY <1>4, <1>5, <1>6, <2>1, OccursBytewise
<1>8. StampFound = SubSeq(file, f + 1, end)
  BY DEF StampFound, f
<1>9. end \in Nat /\ f + Len(Wanted[2]) <= end /\ end <= Len(file)
  <2> DEFINE l1 == Len(Wanted[1])
             l2 == Len(Wanted[2])
             all == Len(file)
  <2>1. l1 \in Nat /\ l2 \in Nat /\ all \in Nat /\ f \in Nat /\ l2 <= l1 /\ f + l2 <= all
    BY <1>4, <1>5, <1>6, <1>7
  <2>2. end = IF f + l1 <= all THEN f + l1 ELSE all
    OBVIOUS
  <2> HIDE DEF l1, l2, all, end
  <2>3. end \in Nat /\ f + l2 <= end /\ end <= all
    BY <2>1, <2>2
  <2>4. QED
    BY <2>3 DEF l2, all
<1> HIDE DEF end
<1>10. /\ StampFound \in Seq(Nat) /\ Len(StampFound) = end - f
       /\ \A j \in 1 .. end - f : StampFound[j] = file[f + j]
  <2>1. end - f \in Nat /\ f + (end - f) = end
    BY <1>4, <1>6, <1>9
  <2>2. QED
    BY <1>5, <1>6, <1>8, <1>9, <2>1, StretchOf
<1>11. StampFound # Wanted[1]
  <2> SUFFICES ASSUME StampFound = Wanted[1]
               PROVE  FALSE
    OBVIOUS
  <2>1. end - f = Len(Wanted[1])
    BY <1>10
  <2>2. f + Len(Wanted[1]) <= Len(file)
    BY <1>4, <1>6, <1>9, <2>1
  <2>3. \A j \in 1 .. Len(Wanted[1]) : file[f + j] = Wanted[1][j]
    BY <1>10, <2>1
  <2>4. OccursIn(file, Wanted[1], f)
    BY <1>4, <1>5, <1>6, <2>2, <2>3, OccursBytewise
  <2>5. f \in 0 .. Len(file)
    BY <1>4, <1>5, <1>6, <2>2
  <2>6. QED
    BY <1>6, <2>4, <2>5 DEF Places
<1>12. SubSeq(StampFound, 1, Len(Wanted[2])) = Wanted[2]
  <2> DEFINE head == SubSeq(StampFound, 1, Len(Wanted[2]))
  <2>1. Len(Wanted[2]) <= end - f /\ 0 \in Nat
        /\ 0 + 1 = 1 /\ 0 + Len(Wanted[2]) = Len(Wanted[2])
    BY <1>4, <1>6, <1>9
  <2>2. /\ head \in Seq(Nat) /\ Len(head) = Len(Wanted[2])
        /\ \A j \in 1 .. Len(Wanted[2]) : head[j] = StampFound[0 + j]
    BY <1>4, <1>10, <2>1, StretchOf
  <2>3. \A j \in 1 .. Len(Wanted[2]) : 0 + j = j /\ j \in 1 .. end - f
    BY <1>4, <1>6, <1>9, <2>1
  <2> HIDE DEF head
  <2>4. \A j \in 1 .. Len(head) : head[j] = Wanted[2][j]
    BY <1>7, <1>10, <2>2, <2>3
  <2>5. head = Wanted[2]
    BY <1>4, <2>2, <2>4, SeqEqual
  <2>6. QED
    BY <2>5 DEF head
<1>13. QED
  BY <1>11, <1>12

\* And a stale verdict names another stamp than the expected, one that begins
\* like it (attribution.rs 424-428).
THEOREM StaleIsAnotherAlways == ScanSpec => []StaleIsAnother
BY StaleNamesAnother, ScanInvariant, PTL

\* What the scan takes the search to answer is what the search answers: its
\* windows may be read as single steps (attribution.rs 251-280, 351-366).
THEOREM SearchAnswersFirst ==
  SearchSpec =>
    [](answer \in {"found", "nowhere"} =>
         First(haystack, needle) = IF answer = "found" THEN offset ELSE None)
<1>1. SearchInv => (answer \in {"found", "nowhere"} =>
        First(haystack, needle) = IF answer = "found" THEN offset ELSE None)
  <2> SUFFICES ASSUME SearchInv, answer \in {"found", "nowhere"}
               PROVE  First(haystack, needle) = IF answer = "found" THEN offset ELSE None
    OBVIOUS
  <2>1. haystack \in Seq(Nat) /\ needle \in Seq(Nat) /\ offset \in Nat /\ AnswerIsTheFirst
    <3>1. haystack \in Seq(Byte) /\ needle \in Seq(Byte) /\ Byte \subseteq Nat
      BY SearchAssumption DEF SearchInv
    <3>2. haystack \in Seq(Nat) /\ needle \in Seq(Nat)
      BY <3>1, SeqMonotonic
    <3>3. QED
      BY <3>2 DEF SearchInv
  <2>2. Len(haystack) \in Nat /\ m \in Nat /\ m = Len(needle)
    BY <2>1, LenProperties DEF m
  <2>3. \A o \in Nat : OccursIn(haystack, needle, o) <=> OccursAt(o)
    BY <2>1, OccursBytewise DEF OccursAt, m
  <2>4. Places(haystack, needle) = {o \in 0 .. Len(haystack) : OccursAt(o)}
    BY <2>2, <2>3 DEF Places
  <2>5. CASE answer = "found"
    <3>1. OccursAt(offset) /\ \A o \in 0 .. offset - 1 : ~OccursAt(o)
      BY <2>1, <2>5 DEF AnswerIsTheFirst
    <3>2. offset \in 0 .. Len(haystack)
      BY <2>1, <2>2, <3>1 DEF OccursAt
    <3>3. offset \in Places(haystack, needle)
      BY <2>4, <3>1, <3>2
    <3>4. \A o \in Places(haystack, needle) : offset <= o
      BY <2>1, <2>2, <2>4, <3>1
    <3>5. QED
      BY <2>1, <2>5, <3>3, <3>4, FirstIsLeast
  <2>6. CASE answer = "nowhere"
    <3>1. Places(haystack, needle) = {}
      BY <2>1, <2>4, <2>6 DEF AnswerIsTheFirst
    <3>2. QED
      BY <2>1, <2>6, <3>1, FirstIsLeast
  <2>7. QED
    BY <2>5, <2>6
<1>2. QED
  BY <1>1, InitSearch, SearchStep, PTL DEF SearchSpec

\* The verdict is about the file and not about how it was read: no stamp and no
\* marker in it is overlooked, and none is made up (attribution.rs 417-451).
THEOREM VerdictIsOfTheFileAlways == ScanSpec => []VerdictIsOfTheFile
<1>1. ScanInv => VerdictIsOfTheFile
  <2> SUFFICES ASSUME ScanInv, scan = "done"
               PROVE  /\ StampVerdict = "current" <=> Places(file, Wanted[1]) # {}
                      /\ StampVerdict = "absent" <=> Places(file, Wanted[2]) = {}
                      /\ MissingMarkers =
                           {w \in 3 .. Len(Wanted) : Places(file, Wanted[w]) = {}}
    BY DEF VerdictIsOfTheFile
  <2>1. Len(Wanted) \in Nat /\ 1 \in 1 .. Len(Wanted) /\ 2 \in 1 .. Len(Wanted)
    BY ScanAssumption, LenProperties
  <2>2. file \in Seq(Nat)
    BY DEF ScanInv
  <2>3. \A w \in 1 .. Len(Wanted) : found[w] = None <=> Places(file, Wanted[w]) = {}
    BY <2>2, DoneIsFirst, FirstIsLeast DEF FoundIsTheFirst
  <2>4. /\ Wanted[1] \in Seq(Nat) /\ Len(Wanted[1]) \in Nat
        /\ Wanted[2] \in Seq(Nat) /\ Len(Wanted[2]) \in Nat
        /\ Len(Wanted[2]) <= Len(Wanted[1])
    BY <2>1, LongestIsALength, ScanAssumption
  <2>5. \A k \in 1 .. Len(Wanted[2]) : Wanted[2][k] = Wanted[1][k]
    <3> SUFFICES ASSUME NEW k \in 1 .. Len(Wanted[2])
                 PROVE  Wanted[2][k] = Wanted[1][k]
      OBVIOUS
    <3>1. SubSeq(Wanted[1], 1, Len(Wanted[2])) = Wanted[2]
      BY ScanAssumption
    <3>2. SubSeq(Wanted[1], 0 + 1, 0 + Len(Wanted[2]))[k] = Wanted[1][0 + k]
      BY <2>4, StretchOf
    <3>3. 0 + 1 = 1 /\ 0 + Len(Wanted[2]) = Len(Wanted[2]) /\ 0 + k = k
      BY <2>4
    <3>4. QED
      BY <3>1, <3>2, <3>3
  <2>6. Places(file, Wanted[1]) \subseteq Places(file, Wanted[2])
    <3> SUFFICES ASSUME NEW o \in Places(file, Wanted[1])
                 PROVE  o \in Places(file, Wanted[2])
      OBVIOUS
    <3>1. o \in 0 .. Len(file) /\ o \in Nat /\ Len(file) \in Nat
          /\ OccursIn(file, Wanted[1], o)
      BY <2>2, LenProperties DEF Places
    <3>2. /\ o + Len(Wanted[1]) <= Len(file)
          /\ \A k \in 1 .. Len(Wanted[1]) : file[o + k] = Wanted[1][k]
      BY <2>2, <2>4, <3>1, OccursBytewise
    <3>3. o + Len(Wanted[2]) <= Len(file)
      BY <2>4, <3>1, <3>2
    <3>4. \A k \in 1 .. Len(Wanted[2]) : k \in 1 .. Len(Wanted[1])
      BY <2>4
    <3>5. \A k \in 1 .. Len(Wanted[2]) : file[o + k] = Wanted[2][k]
      BY <2>5, <3>2, <3>4
    <3>6. OccursIn(file, Wanted[2], o)
      BY <2>2, <2>4, <3>1, <3>3, <3>5, OccursBytewise
    <3>7. QED
      BY <3>1, <3>6 DEF Places
  <2>7. StampVerdict = "current" <=> Places(file, Wanted[1]) # {}
    BY <2>1, <2>3 DEF StampVerdict
  <2>8. StampVerdict = "absent" <=> Places(file, Wanted[2]) = {}
    BY <2>1, <2>3, <2>6 DEF StampVerdict
  <2>9. MissingMarkers = {w \in 3 .. Len(Wanted) : Places(file, Wanted[w]) = {}}
    <3>1. \A w \in 3 .. Len(Wanted) : w \in 1 .. Len(Wanted)
      BY <2>1
    <3>2. QED
      BY <2>3, <3>1 DEF MissingMarkers
  <2>10. QED
    BY <2>7, <2>8, <2>9
<1>2. QED
  BY <1>1, ScanInvariant, PTL

\* Every turn of the scan leaves less of it, so no artefact makes it go round
\* for ever: a buffer that is searched and carried has room for a byte.
THEOREM TheScanAdvances ==
  ScanSpec => []( ScanLeft \in Nat ) /\ [][ScanLeft' < ScanLeft]_scanVars
<1>1. ScanInv => ScanLeft \in Nat
  <2> SUFFICES ASSUME ScanInv
               PROVE  ScanLeft \in Nat
    OBVIOUS
  <2>1. Len(file) \in Nat /\ read \in Nat /\ read <= Len(file)
        /\ scan \in {"refill", "carry", "done"}
    BY ScanNumbers DEF ScanInv
  <2>2. QED
    BY <2>1 DEF ScanLeft
<1>2. ScanInv /\ [ScanNext]_scanVars => [ScanLeft' < ScanLeft]_scanVars
  <2> SUFFICES ASSUME ScanInv, ScanNext
               PROVE  ScanLeft' < ScanLeft
    OBVIOUS
  <2>0. /\ Len(file) \in Nat /\ read \in Nat /\ read <= Len(file) /\ Len(buf) \in Nat
        /\ overlap \in Nat /\ CHUNK \in Nat \ {0}
    BY ScanNumbers
  <2>1. ASSUME NEW k \in 1 .. Len(file) - read,
               scan = "refill", scan' = scan, file' = file, read' = read + k,
               Len(buf) + k <= CHUNK + overlap
        PROVE  ScanLeft' < ScanLeft
    <3>1. ScanLeft = 4 * (Len(file) - read) + 1
      BY <2>0, <2>1 DEF ScanLeft
    <3>2. ScanLeft' = 4 * (Len(file) - (read + k)) + 3 \/ ScanLeft' = 4 * (Len(file) - (read + k)) + 1
      BY <2>1 DEF ScanLeft, overlap, longest
    <3>3. QED
      BY <2>0, <3>1, <3>2
  <2>2. CASE Search
    <3>1. /\ scan = "refill" /\ file' = file /\ read' = read /\ buf' = buf
          /\ \/ scan' = "done"
             \/ scan' = "carry" /\ Len(buf) = CHUNK + overlap
      <4>1. Len(buf) <= CHUNK + overlap
        BY DEF ScanInv
      <4>2. QED
        BY <2>0, <2>2, <4>1 DEF Search
    <3>2. \/ ScanLeft = 4 * (Len(file) - read) + 3
          \/ ScanLeft = 4 * (Len(file) - read) + 1 /\ scan' = "done"
      BY <3>1 DEF ScanLeft
    <3>3. ScanLeft' = 4 * (Len(file) - read) + (IF scan' = "done" THEN 0 ELSE 2)
      BY <3>1 DEF ScanLeft
    <3>4. QED
      BY <2>0, <3>1, <3>2, <3>3
  <2>3. CASE Carry
    <3>1. /\ scan = "carry" /\ scan' = "refill" /\ file' = file /\ read' = read
          /\ buf' = SubSeq(buf, Len(buf) - overlap + 1, Len(buf))
          /\ Len(buf) = CHUNK + overlap
      BY <2>3 DEF Carry, ScanInv
    <3>2. Len(buf') = overlap
      <4>1. CHUNK + overlap = Len(buf) /\ Len(buf) - overlap = CHUNK /\ buf \in Seq(Nat)
        BY <2>0, <3>1 DEF ScanInv
      <4>2. Len(SubSeq(buf, CHUNK + 1, CHUNK + overlap)) = overlap
        BY <2>0, <4>1, StretchOf
      <4>3. QED
        BY <3>1, <4>1, <4>2
    <3>3. ScanLeft = 4 * (Len(file) - read) + 2
      BY <3>1 DEF ScanLeft
    <3>4. ScanLeft' = 4 * (Len(file) - read) + 1
      <4>1. overlap # CHUNK + overlap
        BY <2>0
      <4>2. overlap' = overlap
        BY DEF overlap, longest
      <4>3. QED
        BY <3>1, <3>2, <4>1, <4>2 DEF ScanLeft
    <3>5. QED
      BY <2>0, <3>3, <3>4
  <2>4. QED
    BY <2>1, <2>2, <2>3 DEF ScanNext, Refill
<1>3. QED
  BY <1>1, <1>2, ScanInvariant, PTL DEF ScanSpec
=============================================================================
