----------------------------- MODULE Connection -----------------------------
(***************************************************************************)
(* Connect and disconnect (main.rs:254-378): the primary button, the task  *)
(* each press spawns, the daemon that owns the tunnel, and the closure by  *)
(* which the task writes the status card when it has its answer.           *)
(*                                                                         *)
(* The handlers and the closures run on the UI thread, one at a time; the  *)
(* tasks and the daemon run beside it.  Closures of different tasks may be *)
(* posted, and so run, in any order.  The button is never disabled, so any *)
(* number of operations may be out at once.                                *)
(*                                                                         *)
(* The daemon is external.  What is assumed of it: it serves one request   *)
(* at a time, and its tunnel goes when it stops.  The round trip may fail   *)
(* wherever it is: the client cannot be made, the request is not sent, or  *)
(* it is left with the daemon, or its answer is lost.  All of these are    *)
(* the one Err of main.rs:289-293 and 342-346, and read "unreachable",     *)
(* whether a daemon is there or not.                                       *)
(***************************************************************************)
EXTENDS Naturals

CONSTANTS
  Connects,      \* the presses of the button that ask for a connection
  Disconnects,   \* those that ask for its end
  MaxStops       \* bound: how often the daemon stops

ASSUME ConnectionAssumption ==
  /\ Connects \cap Disconnects = {}
  /\ MaxStops \in Nat

VARIABLES
  status,     \* the text of the status card
  stage,      \* per operation: where its task is
  outcome,    \* per operation: what the round trip to the daemon came to
  core_ok,    \* per disconnect: FALSE when the core's task did not end well
  daemon,     \* "up" or "down"
  tunnel,     \* "up" or "down": the daemon's tunnel
  left,       \* the requests the daemon holds although their task has given up
  stops,      \* how often the daemon has stopped
  overlapped, \* history: operations have been out at once since the last calm
  moved_by    \* history: what moved the tunnel last

opVars == <<stage, outcome, core_ok>>
daemonVars == <<daemon, tunnel, left, stops, moved_by>>
vars == <<status, opVars, daemonVars, overlapped>>

Ops == Connects \cup Disconnects
Quiet == \A o \in Ops : stage[o] \in {"idle", "done"}

Init ==
  /\ status = "IDLE"
  /\ stage = [o \in Ops |-> "idle"]
  /\ outcome = [o \in Ops |-> "none"]
  /\ core_ok = [d \in Disconnects |-> TRUE]
  /\ daemon \in {"up", "down"}
  /\ tunnel \in {"up", "down"} /\ (tunnel = "up" => daemon = "up")  \* left by an earlier run
  /\ left = {}
  /\ stops = 0
  /\ overlapped = FALSE
  /\ moved_by = "launch"

-----------------------------------------------------------------------------
\* The primary button: it asks for a connection unless the card reads
\* CONNECTED, whatever is still out.
RequestConnect(c) ==
  /\ status # "CONNECTED"
  /\ stage[c] = "idle"
  /\ status' = "CONNECTING..."
  /\ stage' = [stage EXCEPT ![c] = "asking"]
  /\ overlapped' = ~Quiet
  /\ UNCHANGED <<outcome, core_ok, daemonVars>>

RequestDisconnect(d) ==
  /\ status = "CONNECTED"
  /\ stage[d] = "idle"
  /\ status' = "DISCONNECTING..."
  /\ stage' = [stage EXCEPT ![d] = "core"]
  /\ overlapped' = ~Quiet
  /\ UNCHANGED <<outcome, core_ok, daemonVars>>

\* The core's own disconnect, on a blocking thread: it cannot refuse, but its
\* task can fail to end well.  The daemon is asked all the same.
CoreDisconnect(d) ==
  /\ stage[d] = "core"
  /\ \E ok \in BOOLEAN : core_ok' = [core_ok EXCEPT ![d] = ok]
  /\ stage' = [stage EXCEPT ![d] = "asking"]
  /\ UNCHANGED <<status, outcome, daemonVars, overlapped>>

\* What carrying out o makes of the tunnel.
Moved(o) == IF o \in Connects THEN "up" ELSE "down"

\* The daemon hears a request and carries it out, or refuses it.
DaemonServes(o) ==
  /\ stage[o] = "asking"
  /\ daemon = "up"
  /\ \/ outcome' = [outcome EXCEPT ![o] = "success"] /\ tunnel' = Moved(o) /\ moved_by' = "answer"
     \/ outcome' = [outcome EXCEPT ![o] = "refused"] /\ UNCHANGED <<tunnel, moved_by>>
  /\ stage' = [stage EXCEPT ![o] = "served"]
  /\ UNCHANGED <<status, core_ok, daemon, left, stops, overlapped>>

\* Its answer reaches the task, which posts its closure.
DaemonAnswers(o) ==
  /\ stage[o] = "served"
  /\ stage' = [stage EXCEPT ![o] = "answered"]
  /\ UNCHANGED <<status, outcome, core_ok, daemonVars, overlapped>>

\* DaemonClient::connect or the request ends in an error, whatever the reason;
\* a daemon that is there may have the request all the same.
RequestFails(o) ==
  /\ stage[o] = "asking"
  /\ outcome' = [outcome EXCEPT ![o] = "unreachable"]
  /\ stage' = [stage EXCEPT ![o] = "answered"]
  /\ \/ daemon = "up" /\ left' = left \cup {o}
     \/ UNCHANGED left
  /\ UNCHANGED <<status, core_ok, daemon, tunnel, stops, moved_by, overlapped>>

\* The daemon has served the request and the task does not get to read so.
AnswerLost(o) ==
  /\ stage[o] = "served"
  /\ outcome' = [outcome EXCEPT ![o] = "unreachable"]
  /\ stage' = [stage EXCEPT ![o] = "answered"]
  /\ UNCHANGED <<status, core_ok, daemonVars, overlapped>>

\* The daemon serves a request nobody waits for any longer.
DaemonServesLeft(o) ==
  /\ o \in left
  /\ left' = left \ {o}
  /\ \/ tunnel' = Moved(o) /\ moved_by' = "left"
     \/ UNCHANGED <<tunnel, moved_by>>
  /\ UNCHANGED <<status, opVars, daemon, stops, overlapped>>

\* The daemon stops: the tunnel goes with it, and so do the requests it holds
\* and the answers it has not handed over yet.
DaemonStops ==
  /\ daemon = "up"
  /\ stops < MaxStops
  /\ daemon' = "down"
  /\ tunnel' = "down"
  /\ moved_by' = "stop"
  /\ left' = {}
  /\ stops' = stops + 1
  /\ outcome' = [o \in Ops |-> IF stage[o] = "served" THEN "unreachable" ELSE outcome[o]]
  /\ stage' = [o \in Ops |-> IF stage[o] = "served" THEN "answered" ELSE stage[o]]
  /\ UNCHANGED <<status, core_ok, overlapped>>

DaemonStarts ==
  /\ daemon = "down"
  /\ daemon' = "up"
  /\ UNCHANGED <<status, opVars, tunnel, left, stops, moved_by, overlapped>>

\* ConnectionFailure::label and DisconnectFailure::label, by class, and the
\* two words of success.
ConnectLabel(result) ==
  CASE result = "success"     -> "CONNECTED"
    [] result = "refused"     -> "CONNECT FAILED"
    [] result = "unreachable" -> "DAEMON UNREACHABLE"

\* A match that reads a refusal as success (variant of DisconnectLabel).
DisconnectLabelOptimistic(ok, result) ==
  CASE ~ok                            -> "DISCONNECT REFUSED"
    [] ok /\ result # "unreachable"   -> "DISCONNECTED"
    [] ok /\ result = "unreachable"   -> "DISCONNECTED (daemon offline)"

DisconnectLabel(ok, result) ==
  CASE ~ok                            -> "DISCONNECT REFUSED"
    [] ok /\ result = "success"       -> "DISCONNECTED"
    [] ok /\ result = "refused"       -> "DISCONNECT FAILED"
    [] ok /\ result = "unreachable"   -> "DISCONNECTED (daemon offline)"

\* A closure that leaves the card alone when the answer is bad (variant).
ConnectClosureSilentOnFailure(c) ==
  /\ stage[c] = "answered"
  /\ status' = IF outcome[c] = "success" THEN "CONNECTED" ELSE status
  /\ stage' = [stage EXCEPT ![c] = "done"]
  /\ UNCHANGED <<outcome, core_ok, daemonVars, overlapped>>

ConnectClosure(c) ==
  /\ stage[c] = "answered"
  /\ status' = ConnectLabel(outcome[c])
  /\ stage' = [stage EXCEPT ![c] = "done"]
  /\ UNCHANGED <<outcome, core_ok, daemonVars, overlapped>>

DisconnectClosure(d) ==
  /\ stage[d] = "answered"
  /\ status' = DisconnectLabel(core_ok[d], outcome[d])
  /\ stage' = [stage EXCEPT ![d] = "done"]
  /\ UNCHANGED <<outcome, core_ok, daemonVars, overlapped>>

-----------------------------------------------------------------------------
Task(o) ==
  \/ o \in Disconnects /\ CoreDisconnect(o)
  \/ DaemonServes(o)
  \/ DaemonAnswers(o)
  \/ RequestFails(o)
  \/ AnswerLost(o)

Closure(o) ==
  \/ o \in Connects /\ ConnectClosure(o)
  \/ o \in Disconnects /\ DisconnectClosure(o)

Next ==
  \/ \E c \in Connects : RequestConnect(c)
  \/ \E d \in Disconnects : RequestDisconnect(d)
  \/ \E o \in Ops : Task(o) \/ Closure(o) \/ DaemonServesLeft(o)
  \/ DaemonStops
  \/ DaemonStarts

\* The runtime runs the tasks, a round trip comes to an end, and the loop runs
\* the closures.  Nobody has to press the button, stop or start the daemon, or
\* serve what has been given up.
Fairness == \A o \in Ops : WF_vars(Task(o)) /\ WF_vars(Closure(o))

Spec == Init /\ [][Next]_vars /\ Fairness

-----------------------------------------------------------------------------
Statuses ==
  {"IDLE", "CONNECTING...", "DISCONNECTING...", "CONNECTED", "CONNECT FAILED",
   "DAEMON UNREACHABLE", "DISCONNECTED", "DISCONNECT FAILED",
   "DISCONNECTED (daemon offline)", "DISCONNECT REFUSED"}

TypeOK ==
  /\ status \in Statuses
  /\ stage \in [Ops -> {"idle", "core", "asking", "served", "answered", "done"}]
  /\ outcome \in [Ops -> {"none", "success", "refused", "unreachable"}]
  /\ core_ok \in [Disconnects -> BOOLEAN]
  /\ daemon \in {"up", "down"}
  /\ tunnel \in {"up", "down"}
  /\ left \subseteq Ops
  /\ stops \in 0..MaxStops
  /\ overlapped \in BOOLEAN
  /\ moved_by \in {"launch", "answer", "left", "stop"}

\* "The truth comes from the daemon round-trip" (main.rs:254-257): once the
\* operations are over, and if none was pressed while another was out, what
\* the card says of the tunnel is so -- unless the tunnel has been moved behind
\* the client's back, and then by what: CONNECTED outlives a daemon that stops
\* and a disconnect that had been given up, DISCONNECTED only a connect that had.
StatusIsTrueOneAtATime ==
  Quiet /\ ~overlapped =>
    /\ status = "CONNECTED" => tunnel = "up" \/ moved_by \in {"left", "stop"}
    /\ status = "DISCONNECTED" => tunnel = "down" \/ moved_by = "left"

\* An operation in progress is not shown for ever.
ProgressEnds ==
  status \in {"CONNECTING...", "DISCONNECTING..."}
    ~> status \notin {"CONNECTING...", "DISCONNECTING..."}

-----------------------------------------------------------------------------
\* The inductive invariant behind StatusIsTrueOneAtATime (ConnectionProofs).
InFlight(o) == stage[o] \notin {"idle", "done"}

AnswersHaveOutcomes ==
  \A o \in Ops : stage[o] \in {"served", "answered"} => outcome[o] # "none"

\* Without an overlap there is one operation out at most ...
OneAtATime == ~overlapped => \A o, p \in Ops : InFlight(o) /\ InFlight(p) => o = p

\* ... and only the daemon's own affairs have moved the tunnel since it served it.
Agrees(o) ==
  outcome[o] = "success" =>
    /\ o \in Connects => tunnel = "up" \/ moved_by \in {"left", "stop"}
    /\ o \in Disconnects => tunnel = "down" \/ moved_by = "left"

OutcomesAreTrue ==
  ~overlapped => \A o \in Ops : stage[o] \in {"served", "answered"} => Agrees(o)

TruthInv ==
  /\ TypeOK
  /\ AnswersHaveOutcomes
  /\ OneAtATime
  /\ OutcomesAreTrue
  /\ StatusIsTrueOneAtATime

-----------------------------------------------------------------------------
\* connection_failure.rs:102-104 "The daemon is not running -- the tunnel is
\* gone with it": the card says that it has disconnected with the daemon offline
\* only when no tunnel is left.
OfflineMeansNoTunnel ==
  Quiet /\ ~overlapped /\ status = "DISCONNECTED (daemon offline)" => tunnel = "down"

\* main.slint:1014 "border glows when the encrypted mesh is live": it glows when
\* the card reads CONNECTED.
CardGlowsOnlyWhenLive == Quiet /\ status = "CONNECTED" => tunnel = "up"

\* connection_failure.rs:113-117 "Refused ... and Core ... both end in a
\* not-torn-down tunnel": the card reads so only while there is one.
RefusalLeavesTheTunnel ==
  Quiet /\ ~overlapped /\ stops = 0
    /\ status \in {"DISCONNECT REFUSED", "DISCONNECT FAILED"} => tunnel = "up"
=============================================================================
