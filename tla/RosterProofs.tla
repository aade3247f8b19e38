---------------------------- MODULE RosterProofs ----------------------------
(***************************************************************************)
(* Proofs about module Roster, for every set of reads and presses and      *)
(* every set of manifests the server may answer with.                      *)
(***************************************************************************)
EXTENDS Roster, ListingLemmas

\* The selection is the filter of RFC-050: the first online row, or "best".
LEMMA SelectBestIsFirst ==
  ASSUME NEW L \in Seq(PublicNodes)
  PROVE  IsFirstOnline(SelectBest(L), L)
<1> DEFINE Online == {i \in 1..Len(L) : L[i].is_online}
<1>1. CASE Online = {}
  BY <1>1 DEF SelectBest, SelectInSeq, IsFirstOnline
<1>2. CASE Online # {}
  <2>1. SelectInSeq(L, LAMBDA n : n.is_online) = Min(Online)
    BY <1>2 DEF SelectInSeq
  <2>2. Min(Online) \in Online /\ \A j \in Online : Min(Online) <= j
    <3>1. Online \in SUBSET Nat
      OBVIOUS
    <3> HIDE DEF Online
    <3>2. QED
      BY <1>2, <3>1, MinIsLeast
  <2>3. SelectBest(L) = L[Min(Online)].id
    BY <2>1, <2>2 DEF SelectBest
  <2>4. \A j \in 1..Min(Online) - 1 : ~L[j].is_online
    BY <2>2
  <2>5. QED
    BY <2>2, <2>3, <2>4 DEF IsFirstOnline
<1>3. QED
  BY <1>1, <1>2

\* A connect names "best", or a row of the listing that is online.
LEMMA SelectBestIsARow ==
  ASSUME NEW L \in Seq(PublicNodes)
  PROVE  \/ SelectBest(L) = "best"
         \/ \E i \in 1..Len(L) : L[i].id = SelectBest(L) /\ L[i].is_online
BY SelectBestIsFirst DEF IsFirstOnline

\* What the daemon is asked to dial is the id of a listing row, or "best".
LEMMA SelectBestIsADialId ==
  ASSUME NEW L \in Seq(PublicNodes)
  PROVE  SelectBest(L) \in DialIds
<1>1. \A i \in 1..Len(L) : L[i] \in PublicNodes
  OBVIOUS
<1>2. QED
  BY <1>1, SelectBestIsARow DEF DialIds

\* The matrix of an empty listing has no section.
LEMMA GroupsOfNothing == GroupByCountry(<<>>) = <<>>
<1>1. Len(<<>>) = 0
  OBVIOUS
<1>2. QED
  BY <1>1, TurnByTurn DEF GroupByCountry

\* An answer leaves rows of the listing's type, and never the word "Pending".
LEMMA AnswerTypes ==
  ASSUME NEW a \in Answers
  PROVE  /\ RowsOf(a) \in Seq(PublicNodes)
         /\ a.nodes \in Seq(PublicNodes)
         /\ StateOf(a) \in RosterStates \ {"Pending"}
         /\ a.result \in {"Ok", "JsonError", "Other"}
         /\ FromProjection(a.projection) \in RosterStates \ {"Pending"}
         /\ FromFailure(a.result) \in RosterStates \ {"Pending"}
         /\ a.result = "Ok" => StateOf(a) = FromProjection(a.projection)
         /\ a.result # "Ok" => StateOf(a) = FromFailure(a.result)
         /\ a.result = "Ok" => RowsOf(a) = a.nodes
         /\ a.result # "Ok" => RowsOf(a) = <<>>
<1>1. a.nodes \in Seq(PublicNodes) /\ a.result \in {"Ok", "JsonError", "Other"}
  <2>1. CASE a \in Served
    BY <2>1, RosterAssumption DEF Served
  <2>2. CASE a \in Failed
    <3>1. <<>> \in Seq(PublicNodes)
      BY EmptySeq
    <3>2. PICK e \in {"JsonError", "Other"} :
            a = [result |-> e, nodes |-> <<>>, projection |-> ""]
      BY <2>2 DEF Failed
    <3>3. QED
      BY <3>1, <3>2
  <2>3. QED
    BY <2>1, <2>2 DEF Answers
<1>2. RowsOf(a) \in Seq(PublicNodes)
  BY <1>1, EmptySeq DEF RowsOf
<1>3. /\ FromProjection(a.projection) \in RosterStates \ {"Pending"}
      /\ FromFailure(a.result) \in RosterStates \ {"Pending"}
  BY DEF FromProjection, FromFailure, RosterStates
<1>4. QED
  BY <1>1, <1>2, <1>3 DEF StateOf, RowsOf

LEMMA NoAnswerIsNone == NoAnswer \notin Answers
BY DEF NoAnswer, Answers, Served, Failed

-----------------------------------------------------------------------------
LEMMA RosterInvInit == Init => RosterInv
<1> SUFFICES ASSUME Init
             PROVE  RosterInv
  OBVIOUS
<1> USE DEF Init
<1>1. TypeOK
  BY RosterAssumption, EmptySeq DEF TypeOK, RosterStates
<1>2. AnswersAreKept /\ OneClosureAtATime /\ PicksAreOfTheirRead
  BY DEF AnswersAreKept, OneClosureAtATime, PicksAreOfTheirRead, Answered
<1>3. HeldRowsAreOfTheirRead
  BY DEF HeldRowsAreOfTheirRead, WhatWasHeld
<1>4. HeldRowsAreDrawn
  BY GroupsOfNothing DEF HeldRowsAreDrawn
<1>5. LineSpeaksOfTheRows /\ PendingIsOutstanding
  BY RosterAssumption DEF LineSpeaksOfTheRows, PendingIsOutstanding
<1>6. QED
  BY <1>1, <1>2, <1>3, <1>4, <1>5 DEF RosterInv

\* A step that starts a read: the line changes, the rows do not.
LEMMA RequestRefreshPreserves ==
  ASSUME RosterInv, NEW r \in Refreshes, RequestRefresh(r)
  PROVE  RosterInv'
<1> USE DEF RosterInv, publish, RequestRefresh, connectVars
<1>1. TypeOK'
  BY AppendProperties DEF TypeOK, RosterStates
<1>2. AnswersAreKept'
  BY DEF TypeOK, AnswersAreKept, Answered
<1>3. OneClosureAtATime'
  BY DEF OneClosureAtATime
<1>4. HeldRowsAreOfTheirRead'
  BY DEF TypeOK, HeldRowsAreOfTheirRead, WhatWasHeld, Answered
<1>5. HeldRowsAreDrawn'
  BY DEF HeldRowsAreDrawn
<1>6. LineSpeaksOfTheRows'
  BY DEF LineSpeaksOfTheRows
<1>7. PendingIsOutstanding'
  BY DEF TypeOK, PendingIsOutstanding, Outstanding
<1>8. PicksAreOfTheirRead'
  BY DEF TypeOK, PicksAreOfTheirRead, WhatWasHeld, Answered
<1>9. QED
  BY <1>1, <1>2, <1>3, <1>4, <1>5, <1>6, <1>7, <1>8

\* A step that brings an answer: nothing held, drawn or picked is of a read
\* that had none.
LEMMA FetchAnswersPreserves ==
  ASSUME RosterInv, NEW r \in Refreshes, FetchAnswers(r)
  PROVE  RosterInv'
<1> USE DEF RosterInv, FetchAnswers, connectVars, history
<1>1. TypeOK'
  BY DEF TypeOK
<1>2. AnswersAreKept'
  BY DEF TypeOK, AnswersAreKept, Answered
<1>3. OneClosureAtATime'
  BY DEF TypeOK, OneClosureAtATime
<1>4. HeldRowsAreOfTheirRead'
  BY DEF TypeOK, HeldRowsAreOfTheirRead, WhatWasHeld, Answered
<1>5. HeldRowsAreDrawn'
  BY DEF HeldRowsAreDrawn
<1>6. LineSpeaksOfTheRows'
  BY DEF TypeOK, LineSpeaksOfTheRows
<1>7. PendingIsOutstanding'
  BY DEF TypeOK, PendingIsOutstanding, Outstanding
<1>8. PicksAreOfTheirRead'
  BY DEF TypeOK, PicksAreOfTheirRead, WhatWasHeld, Answered
<1>9. QED
  BY <1>1, <1>2, <1>3, <1>4, <1>5, <1>6, <1>7, <1>8

\* The first half of a closure: the held rows become those of its read.
LEMMA HoldPreserves ==
  ASSUME RosterInv, NEW r \in Refreshes, HoldServedRows(r) \/ ClearHeldRows(r)
  PROVE  RosterInv'
<1> USE DEF RosterInv, HoldServedRows, ClearHeldRows, connectVars
<1>1. answer[r] \in Answers /\ listing_rows' = RowsOf(answer[r])
  BY AnswerTypes DEF AnswersAreKept, Answered
<1>2. TypeOK'
  BY <1>1, AnswerTypes DEF TypeOK
<1>3. AnswersAreKept'
  BY DEF AnswersAreKept, Answered
<1>4. OneClosureAtATime'
  BY DEF OneClosureAtATime
<1>5. HeldRowsAreOfTheirRead'
  BY <1>1, NoReadAssumption DEF HeldRowsAreOfTheirRead, WhatWasHeld, Answered
<1>6. HeldRowsAreDrawn' /\ LineSpeaksOfTheRows'
  BY NoReadAssumption DEF HeldRowsAreDrawn, LineSpeaksOfTheRows
<1>7. PendingIsOutstanding'
  BY DEF PendingIsOutstanding, Outstanding
<1>8. PicksAreOfTheirRead'
  BY DEF PicksAreOfTheirRead, WhatWasHeld, Answered
<1>9. QED
  BY <1>2, <1>3, <1>4, <1>5, <1>6, <1>7, <1>8

\* The second half: the matrix and the line become those of the same read.
LEMMA ShowPreserves ==
  ASSUME RosterInv, NEW r \in Refreshes, ShowServedRows(r) \/ ShowFailure(r)
  PROVE  RosterInv'
<1>1. /\ UNCHANGED <<answer, listing_rows, connect, selected_id, pickedFrom, asked, heldFrom>>
      /\ refresh' = [refresh EXCEPT ![r] = "done"]
      /\ ui = r /\ ui' = NoRead
  BY DEF publish, ShowServedRows, ShowFailure, connectVars, history
<1>2. heldFrom = r /\ refresh[r] = "answered" /\ listing_rows = RowsOf(answer[r])
  BY <1>1, NoReadAssumption DEF RosterInv, OneClosureAtATime, HeldRowsAreOfTheirRead, WhatWasHeld
<1>3. answer[r] \in Answers
  BY <1>2 DEF RosterInv, AnswersAreKept, Answered
<1>4. /\ nodes' = RowsOf(answer[r])
      /\ country_groups' = GroupByCountry(nodes')
      /\ roster_state' = StateOf(answer[r])
  BY <1>3, AnswerTypes, GroupsOfNothing DEF publish, ShowServedRows, ShowFailure
<1>5. TypeOK'
  BY <1>1, <1>3, <1>4, AnswerTypes DEF RosterInv, TypeOK
<1>6. AnswersAreKept'
  BY <1>1, <1>3 DEF RosterInv, TypeOK, AnswersAreKept, Answered
<1>7. OneClosureAtATime'
  BY <1>1 DEF OneClosureAtATime
<1>8. HeldRowsAreOfTheirRead'
  BY <1>1, <1>2 DEF RosterInv, TypeOK, HeldRowsAreOfTheirRead, WhatWasHeld, Answered
<1>9. HeldRowsAreDrawn'
  BY <1>1, <1>2, <1>4 DEF HeldRowsAreDrawn
<1>10. LineSpeaksOfTheRows'
  <2>1. heldFrom' = r /\ answer'[heldFrom'] = answer[r] /\ refresh'[r] = "done"
    BY <1>1, <1>2 DEF RosterInv, TypeOK
  <2>2. QED
    BY <1>4, <2>1, NoReadAssumption DEF LineSpeaksOfTheRows, StateOf, RowsOf
<1>11. PendingIsOutstanding'
  BY <1>3, <1>4, AnswerTypes DEF PendingIsOutstanding
<1>12. PicksAreOfTheirRead'
  <2>1. \A s \in Refreshes : Answered(s) => Answered(s)'
    BY <1>1 DEF RosterInv, TypeOK, Answered
  <2>2. \A c \in Connects : pickedFrom[c] \in Refreshes \cup {NoRead}
    BY DEF RosterInv, TypeOK
  <2>3. QED
    BY <1>1, <2>1, <2>2 DEF RosterInv, PicksAreOfTheirRead, WhatWasHeld
<1>13. QED
  BY <1>5, <1>6, <1>7, <1>8, <1>9, <1>10, <1>11, <1>12 DEF RosterInv

\* The connect tasks read the held rows and write none of the roster's state.
LEMMA ConnectPreserves ==
  ASSUME RosterInv, NEW c \in Connects,
         RequestConnect(c) \/ SelectNode(c) \/ Dial(c) \/ DaemonUnreachable(c)
  PROVE  RosterInv'
<1> USE DEF RosterInv, rosterVars, history
<1>1. UNCHANGED <<rosterVars, history>>
  BY DEF RequestConnect, SelectNode, Dial, DaemonUnreachable
<1>2. TypeOK'
  <2>1. SelectBest(listing_rows) \in DialIds
    BY SelectBestIsADialId DEF TypeOK
  <2>2. /\ connect' \in [Connects -> {"idle", "selecting", "dialing", "dialed", "unreached"}]
        /\ selected_id' \in [Connects -> DialIds \cup {""}]
        /\ pickedFrom' \in [Connects -> Refreshes \cup {NoRead}]
    <3>1. CASE RequestConnect(c)
      BY <3>1 DEF TypeOK, RequestConnect
    <3>2. CASE SelectNode(c)
      BY <3>2, <2>1 DEF TypeOK, SelectNode
    <3>3. CASE Dial(c) \/ DaemonUnreachable(c)
      BY <3>3 DEF TypeOK, Dial, DaemonUnreachable
    <3>4. QED
      BY <3>1, <3>2, <3>3
  <2>3. QED
    BY <1>1, <2>2 DEF TypeOK
<1>3. PicksAreOfTheirRead'
  <2>1. CASE RequestConnect(c)
    BY <1>1, <2>1 DEF RequestConnect, TypeOK, PicksAreOfTheirRead, WhatWasHeld, Answered
  <2>2. CASE SelectNode(c)
    BY <1>1, <2>2 DEF SelectNode, TypeOK, PicksAreOfTheirRead, HeldRowsAreOfTheirRead,
                      WhatWasHeld, Answered
  <2>3. CASE Dial(c) \/ DaemonUnreachable(c)
    BY <1>1, <2>3 DEF Dial, DaemonUnreachable, TypeOK, PicksAreOfTheirRead, WhatWasHeld, Answered
  <2>4. QED
    BY <2>1, <2>2, <2>3
<1>4. AnswersAreKept' /\ OneClosureAtATime' /\ HeldRowsAreOfTheirRead'
  BY <1>1 DEF AnswersAreKept, OneClosureAtATime, HeldRowsAreOfTheirRead, WhatWasHeld, Answered
<1>5. HeldRowsAreDrawn' /\ LineSpeaksOfTheRows' /\ PendingIsOutstanding'
  BY <1>1 DEF HeldRowsAreDrawn, LineSpeaksOfTheRows, PendingIsOutstanding, Outstanding
<1>6. QED
  BY <1>2, <1>3, <1>4, <1>5

LEMMA RosterInvNext == RosterInv /\ [Next]_vars => RosterInv'
<1> SUFFICES ASSUME RosterInv, [Next]_vars
             PROVE  RosterInv'
  OBVIOUS
<1>1. CASE StartupTimer
  BY <1>1, RequestRefreshPreserves, RosterAssumption DEF StartupTimer
<1>2. ASSUME NEW r \in Refreshes, ClickRefresh(r)
      PROVE  RosterInv'
  BY <1>2, RequestRefreshPreserves DEF ClickRefresh
<1>3. ASSUME NEW r \in Refreshes, FetchAnswers(r)
      PROVE  RosterInv'
  BY <1>3, FetchAnswersPreserves
<1>4. ASSUME NEW r \in Refreshes, Land(r)
      PROVE  RosterInv'
  BY <1>4, HoldPreserves, ShowPreserves DEF Land
<1>5. ASSUME NEW c \in Connects,
             RequestConnect(c) \/ SelectNode(c) \/ Dial(c) \/ DaemonUnreachable(c)
      PROVE  RosterInv'
  BY <1>5, ConnectPreserves
<1>6. CASE UNCHANGED vars
  BY <1>6 DEF vars, rosterVars, connectVars, history, RosterInv, TypeOK, AnswersAreKept,
              OneClosureAtATime, HeldRowsAreOfTheirRead, HeldRowsAreDrawn, LineSpeaksOfTheRows,
              PendingIsOutstanding, PicksAreOfTheirRead, WhatWasHeld, Answered, Outstanding
<1>7. QED
  BY <1>1, <1>2, <1>3, <1>4, <1>5, <1>6 DEF Next

-----------------------------------------------------------------------------
\* The inductive invariant holds of every behaviour of the roster.
THEOREM RosterInvariant == Spec => []RosterInv
<1>1. QED
  BY RosterInvInit, RosterInvNext, PTL DEF Spec

\* Every variable keeps to its type.
THEOREM TypeCorrect == Spec => []TypeOK
<1>1. RosterInv => TypeOK
  BY DEF RosterInv
<1>2. QED
  BY <1>1, RosterInvariant, PTL

\* The rows the connect filter reads are the rows the user sees.
THEOREM HeldRowsAreDrawnAlways == Spec => []HeldRowsAreDrawn
<1>1. RosterInv => HeldRowsAreDrawn
  BY DEF RosterInv
<1>2. QED
  BY <1>1, RosterInvariant, PTL

\* The line and the rows are always of one and the same read.
THEOREM LineSpeaksOfTheRowsAlways == Spec => []LineSpeaksOfTheRows
<1>1. RosterInv => LineSpeaksOfTheRows
  BY DEF RosterInv
<1>2. QED
  BY <1>1, RosterInvariant, PTL

\* "Reading the roster" is said only while a read is out or about to be asked.
THEOREM PendingIsOutstandingAlways == Spec => []PendingIsOutstanding
<1>1. RosterInv => PendingIsOutstanding
  BY DEF RosterInv
<1>2. QED
  BY <1>1, RosterInvariant, PTL

\* A selection made from the rows still held is what the screen shows first.
THEOREM SelectionIsCurrentAlways == Spec => []SelectionIsCurrentUntilARead
<1>1. RosterInv => SelectionIsCurrentUntilARead
  <2> SUFFICES ASSUME RosterInv, NEW c \in Connects,
                      connect[c] = "dialing", pickedFrom[c] = heldFrom, ui = NoRead
               PROVE  selected_id[c] = SelectBest(nodes)
    BY DEF SelectionIsCurrentUntilARead
  <2>1. selected_id[c] = SelectBest(listing_rows)
    BY DEF RosterInv, PicksAreOfTheirRead, HeldRowsAreOfTheirRead
  <2>2. nodes = listing_rows
    BY DEF RosterInv, HeldRowsAreDrawn
  <2>3. QED
    BY <2>1, <2>2
<1>2. QED
  BY <1>1, RosterInvariant, PTL

\* No id the daemon is asked to dial is made up.
THEOREM DialNamesAServedRowAlways == Spec => []DialNamesAServedRow
<1>1. RosterInv => DialNamesAServedRow
  <2> SUFFICES ASSUME RosterInv, NEW c \in Connects,
                      connect[c] \in {"dialing", "dialed"}, selected_id[c] # "best"
               PROVE  \E r \in Refreshes : \E i \in 1..Len(answer[r].nodes) :
                        /\ answer[r].nodes[i].id = selected_id[c]
                        /\ answer[r].nodes[i].is_online
    BY DEF DialNamesAServedRow
  <2> DEFINE r == pickedFrom[c]
             L == WhatWasHeld(r)
  <2>1. selected_id[c] = SelectBest(L) /\ (r # NoRead => Answered(r))
    BY DEF RosterInv, PicksAreOfTheirRead
  <2>2. SelectBest(<<>>) = "best"
    BY DEF SelectBest, SelectInSeq
  <2>3. L # <<>>
    BY <2>1, <2>2
  <2>4. r \in Refreshes /\ answer[r] \in Answers
    BY <2>1, <2>3 DEF RosterInv, TypeOK, WhatWasHeld, AnswersAreKept
  <2>5. L = answer[r].nodes /\ L \in Seq(PublicNodes)
    BY <2>3, <2>4, AnswerTypes, NoReadAssumption DEF WhatWasHeld
  <2> HIDE DEF L, r
  <2>6. \E i \in 1..Len(L) : L[i].id = selected_id[c] /\ L[i].is_online
    BY <2>1, <2>5, SelectBestIsARow
  <2>7. QED
    BY <2>4, <2>5, <2>6
<1>2. QED
  BY <1>1, RosterInvariant, PTL

\* Whatever reads land around it, a press asks for the first online row, in the
\* server's order, of one read as it was served (main.rs 248-253).
THEOREM DialIsTheFirstOnlineRowAlways == Spec => []DialIsTheFirstOnlineRow
<1>1. RosterInv => DialIsTheFirstOnlineRow
  <2> SUFFICES ASSUME RosterInv, NEW c \in Connects, connect[c] \notin {"idle", "selecting"}
               PROVE  IsFirstOnline(selected_id[c], WhatWasHeld(pickedFrom[c]))
    BY DEF DialIsTheFirstOnlineRow
  <2>1. /\ selected_id[c] = SelectBest(WhatWasHeld(pickedFrom[c]))
        /\ pickedFrom[c] # NoRead => Answered(pickedFrom[c])
    BY DEF RosterInv, PicksAreOfTheirRead
  <2>2. CASE pickedFrom[c] = NoRead
    <3>1. WhatWasHeld(pickedFrom[c]) = <<>>
      BY <2>2 DEF WhatWasHeld
    <3>2. <<>> \in Seq(PublicNodes)
      OBVIOUS
    <3>3. QED
      BY <2>1, <3>1, <3>2, SelectBestIsFirst
  <2>3. CASE pickedFrom[c] # NoRead
    <3>1. answer[pickedFrom[c]] \in Answers
      BY <2>1, <2>3 DEF RosterInv, TypeOK, AnswersAreKept
    <3>2. WhatWasHeld(pickedFrom[c]) \in Seq(PublicNodes)
      BY <2>3, <3>1, AnswerTypes DEF WhatWasHeld
    <3>3. QED
      BY <2>1, <3>2, SelectBestIsFirst
  <2>4. QED
    BY <2>2, <2>3
<1>2. QED
  BY <1>1, RosterInvariant, PTL

\* Composed with the grouping: whatever reads overlap, once the loop is free
\* every row a connect may pick is drawn once, under its country, in the order
\* the server gave, and nothing else is drawn (main.rs 70-73, 617-622).
THEOREM EveryHeldRowIsDrawn ==
  Spec => [](ui = NoRead => Grouped(country_groups, listing_rows, Len(listing_rows)))
<1>1. RosterInv => (ui = NoRead => Grouped(country_groups, listing_rows, Len(listing_rows)))
  BY GroupingKeepsItsPromises DEF RosterInv, TypeOK, HeldRowsAreDrawn
<1>2. QED
  BY <1>1, RosterInvariant, PTL

-----------------------------------------------------------------------------
(* The refinement: each step of the code is a step of the view, or none.   *)

LEMMA ViewInit == Init => View!Init
<1>1. SUFFICES ASSUME Init
               PROVE  View!Init
  OBVIOUS
<1>2. viewLine = "Pending"
  BY <1>1 DEF Init, viewLine
<1>3. viewRead = [r \in Refreshes |-> "idle"]
  BY <1>1, NoReadAssumption DEF Init, viewRead, Outstanding
<1>4. viewDial = [c \in Connects |-> [stage |-> "idle", id |-> ""]]
  BY <1>1 DEF Init, viewDial
<1>5. QED
  BY <1>1, <1>2, <1>3, <1>4 DEF View!Init, Init

\* The view's operators are the roster's, seen through the instance.
LEMMA ViewVocabulary ==
  /\ View!Answers = Answers
  /\ \A a : View!RowsOf(a) = RowsOf(a)
  /\ \A a : View!StateOf(a) = StateOf(a)
  /\ \A l : View!SelectBest(l) = SelectBest(l)
BY DEF View!Answers, View!Served, View!Failed, Answers, Served, Failed,
       View!RowsOf, RowsOf, View!StateOf, StateOf,
       View!FromProjection, FromProjection, View!FromFailure, FromFailure,
       View!SelectBest, SelectBest, View!SelectInSeq, SelectInSeq, View!Min, Min

LEMMA AskStep ==
  ASSUME RosterInv, NEW r \in Refreshes, RequestRefresh(r)
  PROVE  View!Ask(r)
<1> USE DEF publish, RequestRefresh, connectVars
<1>1. viewLine' = "Pending"
  BY DEF viewLine
<1>2. viewRead[r] = "idle" /\ viewRead' = [viewRead EXCEPT ![r] = "outstanding"]
  BY NoReadAssumption DEF viewRead, Outstanding, RosterInv, TypeOK
<1>3. viewDial' = viewDial /\ listing_rows' = listing_rows
  BY DEF viewDial
<1>4. QED
  BY <1>1, <1>2, <1>3 DEF View!Ask

\* The arrival of an answer is not seen.
LEMMA FetchStep ==
  ASSUME RosterInv, NEW r \in Refreshes, FetchAnswers(r)
  PROVE  UNCHANGED View!viewVars
<1> USE DEF FetchAnswers, connectVars, history
<1>1. viewLine' = viewLine
  BY DEF viewLine, RosterInv, OneClosureAtATime, TypeOK
<1>2. viewRead' = viewRead
  BY DEF viewRead, Outstanding, RosterInv, TypeOK
<1>3. viewDial' = viewDial /\ listing_rows' = listing_rows
  BY DEF viewDial
<1>4. QED
  BY <1>1, <1>2, <1>3 DEF View!viewVars

\* A read lands when its closure writes the held rows.
LEMMA LandStep ==
  ASSUME RosterInv, NEW r \in Refreshes, HoldServedRows(r) \/ ClearHeldRows(r)
  PROVE  View!Land(r)
<1> USE DEF HoldServedRows, ClearHeldRows, connectVars
<1>1. answer[r] \in Answers
  BY DEF RosterInv, AnswersAreKept, Answered
<1>2. listing_rows' = RowsOf(answer[r])
  BY <1>1, AnswerTypes
<1>3. viewLine' = StateOf(answer[r])
  BY NoReadAssumption DEF viewLine
<1>4. viewRead[r] = "outstanding" /\ viewRead' = [viewRead EXCEPT ![r] = "done"]
  BY NoReadAssumption DEF viewRead, Outstanding, RosterInv, TypeOK
<1>5. viewDial' = viewDial
  BY DEF viewDial
<1>6. \E a \in View!Answers :
        listing_rows' = View!RowsOf(a) /\ viewLine' = View!StateOf(a)
  BY <1>1, <1>2, <1>3, ViewVocabulary
<1>7. QED
  BY <1>4, <1>5, <1>6 DEF View!Land

\* The rest of the closure shows what has already landed.
LEMMA ShowStep ==
  ASSUME RosterInv, NEW r \in Refreshes, ShowServedRows(r) \/ ShowFailure(r)
  PROVE  UNCHANGED View!viewVars
<1>1. /\ UNCHANGED <<answer, listing_rows, connect, selected_id>>
      /\ refresh' = [refresh EXCEPT ![r] = "done"]
      /\ ui = r /\ ui' = NoRead
  BY DEF publish, ShowServedRows, ShowFailure, connectVars, history
<1>2. answer[r] \in Answers
  BY <1>1, NoReadAssumption DEF RosterInv, OneClosureAtATime, AnswersAreKept, Answered
<1>3. roster_state' = StateOf(answer[r])
  BY <1>2, AnswerTypes DEF publish, ShowServedRows, ShowFailure
<1>4. viewLine' = viewLine
  BY <1>1, <1>3, NoReadAssumption DEF viewLine
<1>5. viewRead' = viewRead
  BY <1>1, NoReadAssumption DEF viewRead, Outstanding, RosterInv, TypeOK
<1>6. viewDial' = viewDial
  BY <1>1 DEF viewDial
<1>7. QED
  BY <1>1, <1>4, <1>5, <1>6 DEF View!viewVars

\* The steps of a press are the view's, one for one.
LEMMA ConnectStep ==
  ASSUME RosterInv, NEW c \in Connects,
         RequestConnect(c) \/ SelectNode(c) \/ Dial(c) \/ DaemonUnreachable(c)
  PROVE  View!Press(c) \/ View!Pick(c) \/ View!Finish(c)
<1>1. UNCHANGED <<rosterVars, history>>
  BY DEF RequestConnect, SelectNode, Dial, DaemonUnreachable
<1>2. UNCHANGED <<listing_rows, viewLine, viewRead>>
  BY <1>1 DEF rosterVars, viewLine, viewRead, Outstanding
<1>3. viewDial[c].stage = connect[c] /\ viewDial[c].id = selected_id[c]
  BY DEF viewDial
<1>4. CASE RequestConnect(c)
  <2>1. viewDial' = [viewDial EXCEPT ![c].stage = "selecting"]
    BY <1>4 DEF viewDial, RequestConnect, RosterInv, TypeOK
  <2>2. QED
    BY <1>2, <1>3, <1>4, <2>1 DEF RequestConnect, View!Press
<1>5. CASE SelectNode(c)
  <2>1. viewDial' = [viewDial EXCEPT ![c] = [stage |-> "dialing",
                                              id |-> SelectBest(listing_rows)]]
    BY <1>5 DEF viewDial, SelectNode, RosterInv, TypeOK
  <2>2. QED
    BY <1>2, <1>3, <1>5, <2>1, ViewVocabulary DEF SelectNode, View!Pick
<1>6. CASE Dial(c) \/ DaemonUnreachable(c)
  <2>1. PICK s \in {"dialed", "unreached"} :
          connect' = [connect EXCEPT ![c] = s] /\ selected_id' = selected_id
    BY <1>6 DEF Dial, DaemonUnreachable
  <2>2. viewDial' = [viewDial EXCEPT ![c].stage = s]
    BY <2>1 DEF viewDial, RosterInv, TypeOK
  <2>3. QED
    BY <1>2, <1>3, <1>6, <2>2 DEF Dial, DaemonUnreachable, View!Finish
<1>7. QED
  BY <1>4, <1>5, <1>6

\* Every step of the code is a step of the view or leaves it as it is.
LEMMA ViewNext == RosterInv /\ [Next]_vars => [View!Next]_View!viewVars
<1> SUFFICES ASSUME RosterInv, [Next]_vars
             PROVE  View!Next \/ UNCHANGED View!viewVars
  OBVIOUS
<1>1. CASE StartupTimer
  BY <1>1, AskStep, RosterAssumption DEF StartupTimer, View!Next
<1>2. ASSUME NEW r \in Refreshes, ClickRefresh(r)
      PROVE  View!Next
  BY <1>2, AskStep DEF ClickRefresh, View!Next
<1>3. ASSUME NEW r \in Refreshes, FetchAnswers(r)
      PROVE  UNCHANGED View!viewVars
  BY <1>3, FetchStep
<1>4. ASSUME NEW r \in Refreshes, Land(r)
      PROVE  View!Next \/ UNCHANGED View!viewVars
  BY <1>4, LandStep, ShowStep DEF Land, View!Next
<1>5. ASSUME NEW c \in Connects,
             RequestConnect(c) \/ SelectNode(c) \/ Dial(c) \/ DaemonUnreachable(c)
      PROVE  View!Next
  BY <1>5, ConnectStep DEF View!Next
<1>6. CASE UNCHANGED vars
  BY <1>6 DEF vars, rosterVars, connectVars, View!viewVars, viewLine, viewRead, viewDial, Outstanding
<1>7. QED
  BY <1>1, <1>2, <1>3, <1>4, <1>5, <1>6 DEF Next

\* The roster of the code implements the view: reads land atomically for the
\* user and for the connect tasks at once.  (Its liveness is left to TLC.)
THEOREM RosterImplementsView == Spec => View!Safety
<1>1. QED
  BY ViewInit, ViewNext, RosterInvariant, PTL DEF Spec, View!Safety
=============================================================================
