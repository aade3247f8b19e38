-------------------------- MODULE ConnectionProofs --------------------------
(***************************************************************************)
(* Proofs about module Connection, for any number of presses and of stops  *)
(* of the daemon.                                                          *)
(***************************************************************************)
EXTENDS Connection, TLAPS

-----------------------------------------------------------------------------
LEMMA TruthInit == Init => TruthInv
<1> SUFFICES ASSUME Init
             PROVE  TruthInv
  OBVIOUS
<1> USE DEF Init
<1>1. TypeOK
  <2>1. core_ok \in [Disconnects -> BOOLEAN] /\ overlapped \in BOOLEAN 
    OBVIOUS
  <2>2. stops \in 0..MaxStops /\ status \in Statuses
    BY ConnectionAssumption DEF Statuses
  <2>3. QED
    BY <2>1, <2>2 DEF TypeOK
<1>2. AnswersHaveOutcomes
  BY DEF AnswersHaveOutcomes, Ops
<1>3. OneAtATime /\ OutcomesAreTrue
  BY DEF OneAtATime, OutcomesAreTrue, InFlight, Ops
<1>4. StatusIsTrueOneAtATime
  BY DEF StatusIsTrueOneAtATime
<1>5. QED
  BY <1>1, <1>2, <1>3, <1>4 DEF TruthInv

LEMMA RequestPreserves ==
  ASSUME TruthInv, NEW o \in Ops,
         \/ o \in Connects /\ RequestConnect(o)
         \/ o \in Disconnects /\ RequestDisconnect(o)
  PROVE  TruthInv'
<1> USE DEF TruthInv, Ops
<1>1. /\ stage[o] = "idle"
      /\ \E s \in {"asking", "core"} :
           /\ stage' = [stage EXCEPT ![o] = s]
           /\ s = "core" => o \in Disconnects
      /\ overlapped' = ~Quiet
      /\ status' \in {"CONNECTING...", "DISCONNECTING..."}
      /\ UNCHANGED <<outcome, core_ok, daemonVars>>
  BY DEF RequestConnect, RequestDisconnect
<1>2. TypeOK'
  BY <1>1 DEF TypeOK, Statuses, daemonVars, Quiet
<1>3. AnswersHaveOutcomes'
  BY <1>1 DEF TypeOK, AnswersHaveOutcomes, daemonVars
<1>4. OneAtATime'
  BY <1>1 DEF TypeOK, OneAtATime, InFlight, Quiet
<1>5. OutcomesAreTrue'
  BY <1>1 DEF TypeOK, OutcomesAreTrue, daemonVars, Quiet
<1>6. StatusIsTrueOneAtATime'
  BY <1>1 DEF StatusIsTrueOneAtATime
<1>7. QED
  BY <1>2, <1>3, <1>4, <1>5, <1>6

LEMMA TaskPreserves ==
  ASSUME TruthInv, NEW o \in Ops, Task(o)
  PROVE  TruthInv'
<1> USE DEF TruthInv
<1>1. status' = status /\ overlapped' = overlapped /\ daemon' = daemon /\ stops' = stops
  BY DEF Task, CoreDisconnect, DaemonServes, DaemonAnswers, RequestFails, AnswerLost, daemonVars
<1>2. InFlight(o) /\ InFlight(o)'
  BY DEF Task, CoreDisconnect, DaemonServes, DaemonAnswers, RequestFails, AnswerLost, InFlight, TypeOK
<1>3. \A p \in Ops : InFlight(p)' <=> InFlight(p)
  BY <1>2 DEF Task, CoreDisconnect, DaemonServes, DaemonAnswers, RequestFails, AnswerLost, InFlight, TypeOK
<1>4. TypeOK'
  <2>1. CASE o \in Disconnects /\ CoreDisconnect(o)
    BY <2>1 DEF CoreDisconnect, TypeOK, daemonVars
  <2>2. CASE DaemonServes(o)
    <3>1. tunnel' \in {"up", "down"}
      BY <2>2 DEF DaemonServes, Moved, TypeOK
    <3>2. stage' \in [Ops -> {"idle", "core", "asking", "served", "answered", "done"}]
      BY <2>2 DEF DaemonServes, TypeOK
    <3>3. outcome' \in [Ops -> {"none", "success", "refused", "unreachable"}]
      BY <2>2 DEF DaemonServes, TypeOK
    <3>4. QED
      BY <2>2, <3>1, <3>2, <3>3 DEF DaemonServes, TypeOK
  <2>3. CASE DaemonAnswers(o)
    BY <2>3 DEF DaemonAnswers, TypeOK, daemonVars
  <2>4. CASE RequestFails(o)
    BY <2>4 DEF RequestFails, TypeOK
  <2>5. CASE AnswerLost(o)
    BY <2>5 DEF AnswerLost, TypeOK, daemonVars
  <2>6. QED
    BY <2>1, <2>2, <2>3, <2>4, <2>5 DEF Task
<1>5. AnswersHaveOutcomes'
  BY DEF Task, CoreDisconnect, DaemonServes, DaemonAnswers, RequestFails, AnswerLost, AnswersHaveOutcomes, TypeOK
<1>6. OneAtATime'
  BY <1>1, <1>3 DEF OneAtATime
<1>7. OutcomesAreTrue'
  <2> SUFFICES ASSUME ~overlapped, NEW p \in Ops, stage'[p] \in {"served", "answered"}
               PROVE  Agrees(p)'
    BY <1>1 DEF OutcomesAreTrue
  <2>1. p = o
    BY <1>1, <1>2, <1>3 DEF OneAtATime, InFlight
  <2>2. CASE o \in Disconnects /\ CoreDisconnect(o)
    BY <2>1, <2>2 DEF CoreDisconnect, TypeOK
  <2>3. CASE DaemonServes(o)
    BY <2>1, <2>3, ConnectionAssumption DEF DaemonServes, Moved, TypeOK, Agrees, Ops
  <2>4. CASE DaemonAnswers(o)
    BY <2>1, <2>4 DEF DaemonAnswers, TypeOK, OutcomesAreTrue, Agrees, daemonVars
  <2>5. CASE RequestFails(o) \/ AnswerLost(o)
    BY <2>1, <2>5 DEF RequestFails, AnswerLost, TypeOK, Agrees
  <2>6. QED
    BY <2>2, <2>3, <2>4, <2>5 DEF Task
<1>8. StatusIsTrueOneAtATime'
  BY <1>2 DEF StatusIsTrueOneAtATime, Quiet, InFlight
<1>9. QED
  BY <1>4, <1>5, <1>6, <1>7, <1>8

LEMMA ClosurePreserves ==
  ASSUME TruthInv, NEW o \in Ops, Closure(o)
  PROVE  TruthInv'
<1> USE DEF TruthInv
<1>1. /\ stage[o] = "answered"
      /\ stage' = [stage EXCEPT ![o] = "done"]
      /\ UNCHANGED <<outcome, core_ok, daemon, tunnel, left, stops, moved_by, overlapped>>
  BY DEF Closure, ConnectClosure, DisconnectClosure, daemonVars
<1>2. \/ o \in Connects /\ status' = ConnectLabel(outcome[o])
      \/ o \in Disconnects /\ status' = DisconnectLabel(core_ok[o], outcome[o])
  BY DEF Closure, ConnectClosure, DisconnectClosure
<1>3. outcome[o] \in {"success", "refused", "unreachable"}
  BY <1>1 DEF AnswersHaveOutcomes, TypeOK
<1>4. TypeOK'
  <2>1. status' \in Statuses
    BY <1>2, <1>3 DEF ConnectLabel, DisconnectLabel, Statuses, TypeOK
  <2>2. QED
    BY <1>1, <2>1 DEF TypeOK
<1>5. AnswersHaveOutcomes'
  BY <1>1 DEF TypeOK, AnswersHaveOutcomes
<1>6. OneAtATime' /\ OutcomesAreTrue'
  BY <1>1 DEF TypeOK, OneAtATime, OutcomesAreTrue, InFlight, Agrees
<1>7. StatusIsTrueOneAtATime'
  <2> SUFFICES ASSUME ~overlapped
               PROVE  /\ status' = "CONNECTED" => tunnel = "up" \/ moved_by \in {"left", "stop"}
                      /\ status' = "DISCONNECTED" => tunnel = "down" \/ moved_by = "left"
    BY <1>1 DEF StatusIsTrueOneAtATime
  <2>1. Agrees(o)
    BY <1>1 DEF OutcomesAreTrue
  <2>2. CASE o \in Connects /\ status' = ConnectLabel(outcome[o])
    BY <1>3, <2>1, <2>2 DEF Agrees, ConnectLabel
  <2>3. CASE o \in Disconnects /\ status' = DisconnectLabel(core_ok[o], outcome[o])
    BY <1>3, <2>1, <2>3 DEF Agrees, DisconnectLabel, TypeOK
  <2>4. QED
    BY <1>2, <2>2, <2>3
<1>8. QED
  BY <1>4, <1>5, <1>6, <1>7

LEMMA DaemonPreserves ==
  ASSUME TruthInv,
         DaemonStops \/ DaemonStarts \/ \E o \in Ops : DaemonServesLeft(o)
  PROVE  TruthInv'
<1> USE DEF TruthInv
<1>1. CASE DaemonStarts
  BY <1>1 DEF DaemonStarts, opVars, TypeOK, AnswersHaveOutcomes, OneAtATime,
              OutcomesAreTrue, InFlight, Agrees, StatusIsTrueOneAtATime, Quiet
<1>2. CASE DaemonStops
  <2> USE <1>2 DEF DaemonStops
  <2>1. tunnel' = "down" /\ moved_by' = "stop" /\ stops' \in 0..MaxStops
    BY ConnectionAssumption DEF TypeOK
  <2>2. \A p \in Ops : InFlight(p)' <=> InFlight(p)
    BY DEF InFlight, TypeOK
  <2>3. TypeOK'
    BY <2>1 DEF TypeOK
  <2>4. AnswersHaveOutcomes'
    BY DEF TypeOK, AnswersHaveOutcomes
  <2>5. OneAtATime'
    BY <2>2 DEF OneAtATime
  <2>6. OutcomesAreTrue'
    BY <2>1 DEF OutcomesAreTrue, Agrees
  <2>7. StatusIsTrueOneAtATime'
    BY <2>1 DEF StatusIsTrueOneAtATime
  <2>8. QED
    BY <2>3, <2>4, <2>5, <2>6, <2>7
<1>3. ASSUME NEW o \in Ops, DaemonServesLeft(o)
      PROVE  TruthInv'
  <2>1. /\ UNCHANGED <<status, stage, outcome, core_ok, daemon, stops, overlapped>>
        /\ left' \subseteq Ops
        /\ \/ UNCHANGED <<tunnel, moved_by>>
           \/ tunnel' \in {"up", "down"} /\ moved_by' = "left"
    BY <1>3 DEF DaemonServesLeft, Moved, opVars, TypeOK
  <2>2. TypeOK'
    BY <2>1 DEF TypeOK
  <2>3. AnswersHaveOutcomes' /\ OneAtATime'
    BY <2>1 DEF AnswersHaveOutcomes, OneAtATime, InFlight
  <2>4. OutcomesAreTrue'
    BY <2>1 DEF OutcomesAreTrue, Agrees
  <2>5. StatusIsTrueOneAtATime'
    BY <2>1 DEF StatusIsTrueOneAtATime, Quiet
  <2>6. QED
    BY <2>2, <2>3, <2>4, <2>5
<1>4. QED
  BY <1>1, <1>2, <1>3

LEMMA TruthNext == TruthInv /\ [Next]_vars => TruthInv'
<1> SUFFICES ASSUME TruthInv, [Next]_vars
             PROVE  TruthInv'
  OBVIOUS
<1>1. ASSUME NEW c \in Connects, RequestConnect(c)
      PROVE  TruthInv'
  BY <1>1, RequestPreserves DEF Ops
<1>2. ASSUME NEW d \in Disconnects, RequestDisconnect(d)
      PROVE  TruthInv'
  BY <1>2, RequestPreserves DEF Ops
<1>3. ASSUME NEW o \in Ops, Task(o) \/ Closure(o)
      PROVE  TruthInv'
  BY <1>3, TaskPreserves, ClosurePreserves
<1>4. CASE DaemonStops \/ DaemonStarts \/ \E o \in Ops : DaemonServesLeft(o)
  BY <1>4, DaemonPreserves
<1>5. CASE UNCHANGED vars
  BY <1>5 DEF vars, opVars, daemonVars, TruthInv, TypeOK, AnswersHaveOutcomes,
              OneAtATime, OutcomesAreTrue, InFlight, Agrees, StatusIsTrueOneAtATime, Quiet
<1>6. QED
  BY <1>1, <1>2, <1>3, <1>4, <1>5 DEF Next

\* Operations made one at a time leave the card telling the truth about the
\* tunnel, however many there are, whichever round trips fail or lose their
\* answer and whenever the daemon stops and starts, unless the daemon has moved
\* the tunnel of its own accord since: by stopping, or for a request given up.
THEOREM StatusIsTrue == Spec => []StatusIsTrueOneAtATime
<1>1. TruthInv => StatusIsTrueOneAtATime
  BY DEF TruthInv
<1>2. QED
  BY <1>1, TruthInit, TruthNext, PTL DEF Spec

\* Every variable keeps to its type; the card holds one of the client's own
\* words and nothing the daemon said.
THEOREM TypeCorrect == Spec => []TypeOK
<1>1. TruthInv => TypeOK
  BY DEF TruthInv
<1>2. QED
  BY <1>1, TruthInit, TruthNext, PTL DEF Spec
=============================================================================
