------------------------------- MODULE Roster -------------------------------
(***************************************************************************)
(* The roster of the desktop client (main.rs, rfc051.rs): the refresh      *)
(* handler, its fetch task and the closure the task posts to the event     *)
(* loop, and the part of the connect handler that reads the same rows.     *)
(*                                                                         *)
(* Three kinds of actor share the state.                                   *)
(*   The UI thread runs one handler or one posted closure at a time; what  *)
(*   it sets is drawn only when it has returned to the loop (ui = NoRead). *)
(*   A fetch task per refresh runs beside it and posts one closure.        *)
(*   A connect task per press reads listing_rows under its mutex, on a     *)
(*   thread of its own, at any moment, the middle of a closure included.   *)
(***************************************************************************)
EXTENDS RosterTypes

CONSTANT NoRead
ASSUME NoReadAssumption == NoRead \notin Refreshes

VARIABLES
  refresh,        \* per refresh: "idle", "fetching", "answered", "done"
  answer,         \* per refresh: what its fetch returned
  ui,             \* the refresh whose closure is between two of its writes
  listing_rows,   \* the rows held for the connect filter, under a mutex
  nodes,          \* the window's flat list
  country_groups, \* the sections the matrix draws
  roster_state,   \* the line under the matrix
  connect,        \* per press: "idle", "selecting", "dialing", "dialed", "unreached"
  selected_id     \* per press: the id the daemon is asked to dial

\* History: the order reads were asked for; the read the held rows are from
\* (NoRead before any), now and when a press selected.
VARIABLES asked, heldFrom, pickedFrom

rosterVars  == <<refresh, answer, ui, listing_rows, nodes, country_groups, roster_state>>
connectVars == <<connect, selected_id, pickedFrom>>
history     == <<asked, heldFrom>>
vars        == <<rosterVars, connectVars, history>>

NoAnswer == [result |-> "None", nodes |-> <<>>, projection |-> ""]

Init ==
  /\ refresh = [r \in Refreshes |-> "idle"]
  /\ answer = [r \in Refreshes |-> NoAnswer]
  /\ ui = NoRead
  /\ listing_rows = <<>>
  /\ nodes = <<>>
  /\ country_groups = <<>>
  /\ roster_state = "Pending"
  /\ connect = [c \in Connects |-> "idle"]
  /\ selected_id = [c \in Connects |-> ""]
  /\ asked = <<>>
  /\ heldFrom = NoRead
  /\ pickedFrom = [c \in Connects |-> NoRead]

-----------------------------------------------------------------------------
\* rfc051::publish sets the line's id, label and long form, and no other slot:
\* the three are one state.
publish(state) == roster_state' = state

\* The refresh handler: it says so on the line and spawns the fetch.  Nothing
\* in it asks whether an earlier fetch is still out.
RequestRefresh(r) ==
  /\ ui = NoRead
  /\ refresh[r] = "idle"
  /\ publish("Pending")
  /\ refresh' = [refresh EXCEPT ![r] = "fetching"]
  /\ asked' = Append(asked, r)
  /\ UNCHANGED <<answer, ui, listing_rows, nodes, country_groups, heldFrom, connectVars>>

\* The launch timer fires once and invokes the same handler.
StartupTimer == RequestRefresh(Launch)

\* The REFRESH link.
ClickRefresh(r) == r # Launch /\ RequestRefresh(r)

\* fetch_global_manifest returns to the task (or panics, which the join error
\* turns into an "Other" failure) and the task posts its closure.
FetchAnswers(r) ==
  /\ refresh[r] = "fetching"
  /\ \E a \in Answers : answer' = [answer EXCEPT ![r] = a]
  /\ refresh' = [refresh EXCEPT ![r] = "answered"]
  /\ UNCHANGED <<ui, listing_rows, nodes, country_groups, roster_state, connectVars, history>>

\* The loop runs the closure of a read that succeeded: the held rows are
\* replaced first, under the mutex ...
HoldServedRows(r) ==
  /\ ui = NoRead
  /\ refresh[r] = "answered"
  /\ answer[r].result = "Ok"
  /\ listing_rows' = answer[r].nodes
  /\ ui' = r
  /\ heldFrom' = r
  /\ UNCHANGED <<refresh, answer, nodes, country_groups, roster_state, asked, connectVars>>

\* ... and the closure of a read that failed clears them.
ClearHeldRows(r) ==
  /\ ui = NoRead
  /\ refresh[r] = "answered"
  /\ answer[r].result # "Ok"
  /\ listing_rows' = <<>>
  /\ ui' = r
  /\ heldFrom' = r
  /\ UNCHANGED <<refresh, answer, nodes, country_groups, roster_state, asked, connectVars>>

\* The closure of a read that succeeded goes on to the matrix and the line.
ShowServedRows(r) ==
  /\ ui = r
  /\ answer[r].result = "Ok"
  /\ nodes' = answer[r].nodes
  /\ country_groups' = GroupByCountry(answer[r].nodes)
  /\ publish(FromProjection(answer[r].projection))
  /\ refresh' = [refresh EXCEPT ![r] = "done"]
  /\ ui' = NoRead
  /\ UNCHANGED <<answer, listing_rows, connectVars, history>>

\* A failed read that leaves the sections of the matrix (variant of ShowFailure).
ShowFailureKeepingGroups(r) ==
  /\ ui = r
  /\ answer[r].result # "Ok"
  /\ nodes' = <<>>
  /\ publish(FromFailure(answer[r].result))
  /\ refresh' = [refresh EXCEPT ![r] = "done"]
  /\ ui' = NoRead
  /\ UNCHANGED <<answer, listing_rows, country_groups, connectVars, history>>

\* A failed read that leaves the matrix as it was (variant of ShowFailure).
ShowFailureKeepingRows(r) ==
  /\ ui = r
  /\ answer[r].result # "Ok"
  /\ publish(FromFailure(answer[r].result))
  /\ refresh' = [refresh EXCEPT ![r] = "done"]
  /\ ui' = NoRead
  /\ UNCHANGED <<answer, listing_rows, nodes, country_groups, connectVars, history>>

\* A failed read that does not say so (variant of ShowFailure).
ShowFailureSilently(r) ==
  /\ ui = r
  /\ answer[r].result # "Ok"
  /\ nodes' = <<>>
  /\ country_groups' = <<>>
  /\ refresh' = [refresh EXCEPT ![r] = "done"]
  /\ ui' = NoRead
  /\ UNCHANGED <<answer, listing_rows, roster_state, connectVars, history>>

\* The closure of a read that failed empties the matrix and says why.
ShowFailure(r) ==
  /\ ui = r
  /\ answer[r].result # "Ok"
  /\ nodes' = <<>>
  /\ country_groups' = <<>>
  /\ publish(FromFailure(answer[r].result))
  /\ refresh' = [refresh EXCEPT ![r] = "done"]
  /\ ui' = NoRead
  /\ UNCHANGED <<answer, listing_rows, connectVars, history>>

-----------------------------------------------------------------------------
\* The connect handler spawns its task; the row the window hints at is ignored.
RequestConnect(c) ==
  /\ ui = NoRead
  /\ connect[c] = "idle"
  /\ connect' = [connect EXCEPT ![c] = "selecting"]
  /\ UNCHANGED <<selected_id, pickedFrom, rosterVars, history>>

\* A task that selects from what is drawn instead of what is held (variant of
\* SelectNode).
SelectNodeFromMatrix(c) ==
  /\ connect[c] = "selecting"
  /\ selected_id' = [selected_id EXCEPT ![c] = SelectBest(nodes)]
  /\ pickedFrom' = [pickedFrom EXCEPT ![c] = heldFrom]
  /\ connect' = [connect EXCEPT ![c] = "dialing"]
  /\ UNCHANGED <<rosterVars, history>>

\* A task that falls back to a held row when none is online (variant of
\* SelectNode).
SelectNodeOrAnyRow(c) ==
  /\ connect[c] = "selecting"
  /\ selected_id' = [selected_id EXCEPT ![c] =
       IF SelectBest(listing_rows) = "best" /\ listing_rows # <<>>
       THEN listing_rows[1].id ELSE SelectBest(listing_rows)]
  /\ pickedFrom' = [pickedFrom EXCEPT ![c] = heldFrom]
  /\ connect' = [connect EXCEPT ![c] = "dialing"]
  /\ UNCHANGED <<rosterVars, history>>

\* The task takes the mutex, filters the held rows and lets the mutex go; the
\* connection to the daemon is awaited after that.
SelectNode(c) ==
  /\ connect[c] = "selecting"
  /\ selected_id' = [selected_id EXCEPT ![c] = SelectBest(listing_rows)]
  /\ pickedFrom' = [pickedFrom EXCEPT ![c] = heldFrom]
  /\ connect' = [connect EXCEPT ![c] = "dialing"]
  /\ UNCHANGED <<rosterVars, history>>

\* The daemon is reached and asked to dial the id ...
Dial(c) ==
  /\ connect[c] = "dialing"
  /\ connect' = [connect EXCEPT ![c] = "dialed"]
  /\ UNCHANGED <<selected_id, pickedFrom, rosterVars, history>>

\* ... or it cannot be reached and nothing is dialed.
DaemonUnreachable(c) ==
  /\ connect[c] = "dialing"
  /\ connect' = [connect EXCEPT ![c] = "unreached"]
  /\ UNCHANGED <<selected_id, pickedFrom, rosterVars, history>>

-----------------------------------------------------------------------------
Land(r) == HoldServedRows(r) \/ ClearHeldRows(r) \/ ShowServedRows(r) \/ ShowFailure(r)

Next ==
  \/ StartupTimer
  \/ \E r \in Refreshes : ClickRefresh(r) \/ FetchAnswers(r) \/ Land(r)
  \/ \E c \in Connects :
       RequestConnect(c) \/ SelectNode(c) \/ Dial(c) \/ DaemonUnreachable(c)

\* The launch timer fires, the core's fetch returns (it is a bounded HTTP
\* call on a blocking thread), the loop runs what is posted to it, and the
\* runtime runs its tasks.  The user owes nothing.
Fairness ==
  /\ WF_vars(StartupTimer)
  /\ \A r \in Refreshes : WF_vars(FetchAnswers(r)) /\ WF_vars(Land(r))
  /\ \A c \in Connects :
       WF_vars(SelectNode(c)) /\ WF_vars(Dial(c) \/ DaemonUnreachable(c))

Spec == Init /\ [][Next]_vars /\ Fairness

-----------------------------------------------------------------------------
TypeOK ==
  /\ refresh \in [Refreshes -> {"idle", "fetching", "answered", "done"}]
  /\ answer \in [Refreshes -> Answers \cup {NoAnswer}]
  /\ ui \in Refreshes \cup {NoRead}
  /\ listing_rows \in Seq(PublicNodes)
  /\ nodes \in Seq(PublicNodes)
  /\ roster_state \in RosterStates
  /\ connect \in [Connects -> {"idle", "selecting", "dialing", "dialed", "unreached"}]
  /\ selected_id \in [Connects -> DialIds \cup {""}]
  /\ asked \in Seq(Refreshes)
  /\ heldFrom \in Refreshes \cup {NoRead}
  /\ pickedFrom \in [Connects -> Refreshes \cup {NoRead}]

Outstanding(r) == refresh[r] \in {"fetching", "answered"}

\* Whenever the loop is free to draw, the matrix shows the rows the connect
\* filter would read and no others, flat and by country: the held rows and the
\* drawn ones are "the same fact" (main.rs:617-622), although they are written
\* one after the other and by several reads.
HeldRowsAreDrawn ==
  ui = NoRead =>
    /\ nodes = listing_rows
    /\ country_groups = GroupByCountry(listing_rows)

\* Whenever the line names an outcome, that outcome and the rows above it are
\* of one and the same read, the last that landed: a line never speaks of
\* another read's rows (rfc051.rs:69-91), however many were in flight.
LineSpeaksOfTheRows ==
  ui = NoRead /\ roster_state # "Pending" =>
    /\ heldFrom # NoRead
    /\ refresh[heldFrom] = "done"
    /\ roster_state = StateOf(answer[heldFrom])
    /\ nodes = RowsOf(answer[heldFrom])

\* The line says a request is outstanding only when one is, or when the launch
\* timer, which makes one, has still to fire (main.rs:655-683).
PendingIsOutstanding ==
  roster_state = "Pending" =>
    refresh[Launch] = "idle" \/ \E r \in Refreshes : Outstanding(r)

\* A selection goes stale only by a read that lands after it: as long as the
\* held rows are those a press selected from, the id about to be dialed is the
\* first online row the user sees.
SelectionIsCurrentUntilARead ==
  \A c \in Connects :
    connect[c] = "dialing" /\ pickedFrom[c] = heldFrom /\ ui = NoRead =>
      selected_id[c] = SelectBest(nodes)

\* No id is made up: the daemon is asked for "best", or for a row that was
\* online in a listing some read was served (main.rs:236-253).
DialNamesAServedRow ==
  \A c \in Connects :
    connect[c] \in {"dialing", "dialed"} /\ selected_id[c] # "best" =>
      \E r \in Refreshes : \E i \in 1..Len(answer[r].nodes) :
        /\ answer[r].nodes[i].id = selected_id[c]
        /\ answer[r].nodes[i].is_online

\* Every read asked for lands, whatever it answers and whatever else is out.
EveryReadLands == \A r \in Refreshes : refresh[r] = "fetching" ~> refresh[r] = "done"

\* The line does not say "reading" for ever, from the first frame on.
LineLeavesPending == roster_state = "Pending" ~> roster_state # "Pending"

\* The code implements the view: its closures are atomic both for the user and
\* for the connect tasks, and what they do happens at the write of the held rows.
viewLine == IF ui = NoRead THEN roster_state ELSE StateOf(answer[ui])
viewRead == [r \in Refreshes |->
               IF refresh[r] = "done" \/ ui = r THEN "done"
               ELSE IF Outstanding(r) THEN "outstanding" ELSE "idle"]
viewDial == [c \in Connects |-> [stage |-> connect[c], id |-> selected_id[c]]]

View == INSTANCE RosterView WITH
  rows <- listing_rows, line <- viewLine, read <- viewRead, dial <- viewDial

\* Roster implements RosterView, liveness included.
ImplementsView == View!Spec

-----------------------------------------------------------------------------
\* The inductive invariant behind the safety properties (RosterProofs).
WhatWasHeld(r) == IF r = NoRead THEN <<>> ELSE RowsOf(answer[r])
Answered(r) == refresh[r] \in {"answered", "done"}

AnswersAreKept ==
  \A r \in Refreshes : IF Answered(r) THEN answer[r] \in Answers ELSE answer[r] = NoAnswer

OneClosureAtATime ==
  ui # NoRead => refresh[ui] = "answered" /\ heldFrom = ui

HeldRowsAreOfTheirRead ==
  /\ listing_rows = WhatWasHeld(heldFrom)
  /\ heldFrom # NoRead => Answered(heldFrom)
  /\ heldFrom # NoRead /\ ui = NoRead => refresh[heldFrom] = "done"

PicksAreOfTheirRead ==
  \A c \in Connects :
    connect[c] \notin {"idle", "selecting"} =>
      /\ selected_id[c] = SelectBest(WhatWasHeld(pickedFrom[c]))
      /\ pickedFrom[c] # NoRead => Answered(pickedFrom[c])

\* The write of the held rows and the rest of its closure are of one answer,
\* and so is every selection: what ties the three to each other is the read
\* they are from, which the history variables name.
RosterInv ==
  /\ TypeOK
  /\ AnswersAreKept
  /\ OneClosureAtATime
  /\ HeldRowsAreOfTheirRead
  /\ HeldRowsAreDrawn
  /\ LineSpeaksOfTheRows
  /\ PendingIsOutstanding
  /\ PicksAreOfTheirRead

\* What a press asks for is the first online row of a listing, in the server's
\* own order, and "best" only if no row of it is online.
IsFirstOnline(id, listing) ==
  \/ \E i \in 1..Len(listing) :
       /\ listing[i].id = id /\ listing[i].is_online
       /\ \A j \in 1..i - 1 : ~listing[j].is_online
  \/ id = "best" /\ \A i \in 1..Len(listing) : ~listing[i].is_online

\* main.rs 248-253: the desktop selects by a filter, never a ranking, and it
\* filters one served listing whole: no press sees half of one read and half
\* of another, whatever landed since.
DialIsTheFirstOnlineRow ==
  \A c \in Connects :
    connect[c] \notin {"idle", "selecting"} =>
      IsFirstOnline(selected_id[c], WhatWasHeld(pickedFrom[c]))

-----------------------------------------------------------------------------
\* What the comments say and the code does not do.

\* main.rs:504 "While the request is outstanding the state line says so".
LineSaysOutstanding ==
  ui = NoRead /\ (\E r \in Refreshes : Outstanding(r)) => roster_state = "Pending"

\* main.rs:620-622 a connect that dials "a row that is not on screen would be
\* the roster outliving the read that failed".
DialedRowIsOnScreen ==
  [][\A c \in Connects :
       /\ connect[c] = "dialing" /\ connect'[c] = "dialed"
       /\ ui = NoRead /\ selected_id[c] # "best"
       => \E i \in 1..Len(nodes) : nodes[i].id = selected_id[c]]_vars

\* rfc051.rs:56 of "unreadable" and "unavailable": "the two that are true when
\* there are no rows to speak of".
UnreadableHasNoRows ==
  ui = NoRead /\ roster_state \in {"Unreadable", "Unavailable"} => nodes = <<>>

\* main.rs:607 "A refresh that fails must not leave the PREVIOUS fetch's rows on
\* screen": no rows are drawn of a read asked for before one that has failed.
AskedBefore(r, s) ==
  \E i, j \in 1..Len(asked) : i < j /\ asked[i] = r /\ asked[j] = s

NoEarlierRowsAfterAFailure ==
  ui = NoRead /\ nodes # <<>> =>
    \A s \in Refreshes :
      refresh[s] = "done" /\ answer[s].result # "Ok" => ~AskedBefore(heldFrom, s)
=============================================================================
