----------------------------- MODULE RosterView -----------------------------
(***************************************************************************)
(* What the roster promises, with its threads and its event loop left out: *)
(* a user asks for reads; each read lands ONCE and at once, and what it    *)
(* puts on screen -- the rows and the line that speaks of them -- is       *)
(* exactly what its own answer says; a connect picks its node from the     *)
(* rows held at one instant and is dialed with that pick.                  *)
(*                                                                         *)
(* Module Roster, the code's own steps, is shown to implement this one.    *)
(***************************************************************************)
EXTENDS RosterTypes

VARIABLES
  rows,    \* the rows held and drawn
  line,    \* the roster's state line
  read,    \* per refresh: "idle", "outstanding" or "done"
  dial     \* per connect: the stage, and the id it picked

viewVars == <<rows, line, read, dial>>

Init ==
  /\ rows = <<>>
  /\ line = "Pending"
  /\ read = [r \in Refreshes |-> "idle"]
  /\ dial = [c \in Connects |-> [stage |-> "idle", id |-> ""]]

Ask(r) ==
  /\ read[r] = "idle"
  /\ read' = [read EXCEPT ![r] = "outstanding"]
  /\ line' = "Pending"
  /\ UNCHANGED <<rows, dial>>

Land(r) ==
  /\ read[r] = "outstanding"
  /\ read' = [read EXCEPT ![r] = "done"]
  /\ \E a \in Answers : rows' = RowsOf(a) /\ line' = StateOf(a)
  /\ UNCHANGED dial

Press(c) ==
  /\ dial[c].stage = "idle"
  /\ dial' = [dial EXCEPT ![c].stage = "selecting"]
  /\ UNCHANGED <<rows, line, read>>

Pick(c) ==
  /\ dial[c].stage = "selecting"
  /\ dial' = [dial EXCEPT ![c] = [stage |-> "dialing", id |-> SelectBest(rows)]]
  /\ UNCHANGED <<rows, line, read>>

Finish(c) ==
  /\ dial[c].stage = "dialing"
  /\ \E s \in {"dialed", "unreached"} : dial' = [dial EXCEPT ![c].stage = s]
  /\ UNCHANGED <<rows, line, read>>

Next ==
  \/ \E r \in Refreshes : Ask(r) \/ Land(r)
  \/ \E c \in Connects : Press(c) \/ Pick(c) \/ Finish(c)

\* Every read asked for lands, and every press is picked for and ends; nothing
\* makes the user ask or press, but the launch timer always asks once.
Fairness ==
  /\ WF_viewVars(Ask(Launch))
  /\ \A r \in Refreshes : WF_viewVars(Land(r))
  /\ \A c \in Connects : WF_viewVars(Pick(c)) /\ WF_viewVars(Finish(c))

Safety == Init /\ [][Next]_viewVars
Spec == Safety /\ Fairness
=============================================================================
