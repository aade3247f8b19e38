--------------------------- MODULE DesktopProofs ----------------------------
(***************************************************************************)
(* Proofs about module Desktop, for any number of connects, disconnects,   *)
(* pairings, stops of the daemon, polls, cancels and pieces of the         *)
(* window's work.                                                          *)
(***************************************************************************)
EXTENDS Desktop, SequenceTheorems, TLAPS

LEMMA InitDesktop == Init => DesktopInv
<1> SUFFICES ASSUME Init
             PROVE  DesktopInv
  OBVIOUS
<1>1. /\ status = "IDLE"
      /\ stage = [o \in Connecting!Ops |-> "idle"]
      /\ outcome = [o \in Connecting!Ops |-> "none"]
      /\ core_ok = [d \in Disconnects |-> TRUE]
      /\ tunnel \in {"up", "down"}
  BY Zenon DEF Init, Connecting!Init
<1>2. /\ task = [g \in Generates |-> "idle"]
      /\ session = [g \in Generates |-> "none"]
      /\ posted = <<>>
  BY Zenon DEF Init, Pairing!Init
<1>3. others \subseteq Others
  BY DEF Init, Elsewhere!CardInit
<1>4. ConnectingInv
  <2>1. Connecting!AnswersHaveOutcomes
    BY <1>1 DEF Connecting!AnswersHaveOutcomes
  <2>2. Connecting!OneAtATime /\ Connecting!OutcomesAreTrue
    BY <1>1 DEF Connecting!OneAtATime, Connecting!OutcomesAreTrue, Connecting!InFlight
  <2>3. QED
    BY <1>1, <2>1, <2>2 DEF ConnectingInv
<1>5. PairingPartInv
  <2>1. posted \in Seq(Pairing!Closure) /\ Len(posted) = 0
    BY <1>2, EmptySeq
  <2>2. EndsAreOfTheDone
    BY <2>1 DEF EndsAreOfTheDone
  <2>3. Pairing!SessionsAreMadeOnce /\ Pairing!ApprovalsAreReal
    BY <1>2, <2>1 DEF Pairing!SessionsAreMadeOnce, Pairing!ApprovalsAreReal
  <2>4. PairingTypes
    BY <1>2, <2>1 DEF PairingTypes
  <2>5. QED
    BY <2>2, <2>3, <2>4 DEF PairingPartInv
<1>6. ConnectedIsWitnessed /\ CardIsTrueOneAtATime
  BY <1>1 DEF ConnectedIsWitnessed, CardIsTrueOneAtATime
<1>7. QED
  BY <1>3, <1>4, <1>5, <1>6 DEF DesktopInv

-----------------------------------------------------------------------------
(* Connecting.                                                             *)

\* The steps by which an operation begins and is over, in one.
ConnectRequest(o) ==
  \/ o \in Connects /\ Connecting!RequestConnect(o)
  \/ o \in Disconnects /\ Connecting!RequestDisconnect(o)

LEMMA RequestKeeps ==
  ASSUME ConnectingInv, NEW o \in Connecting!Ops, ConnectRequest(o)
  PROVE  /\ ConnectingInv'
         /\ ~Connecting!Quiet'
         /\ status' = IF o \in Connects THEN "CONNECTING..." ELSE "DISCONNECTING..."
         /\ ~Connecting!InFlight(o)
         /\ \A p \in Connecting!Ops : Connecting!InFlight(p)' <=> p = o \/ Connecting!InFlight(p)
<1> USE DEF Connecting!Ops
<1>0. Connects \cap Disconnects = {}
  BY DesktopAssumption
<1>1. /\ stage[o] = "idle"
      /\ \E s \in {"asking", "core"} : stage' = [stage EXCEPT ![o] = s]
      /\ overlapped' = ~Connecting!Quiet
      /\ UNCHANGED <<outcome, core_ok, daemon, tunnel, stops, moved_by>>
  BY DEF ConnectRequest, Connecting!RequestConnect, Connecting!RequestDisconnect,
         Connecting!daemonVars
<1>2. status' = IF o \in Connects THEN "CONNECTING..." ELSE "DISCONNECTING..."
  BY <1>0 DEF ConnectRequest, Connecting!RequestConnect, Connecting!RequestDisconnect
<1>3. /\ ~Connecting!InFlight(o)
      /\ \A p \in Connecting!Ops : Connecting!InFlight(p)' <=> p = o \/ Connecting!InFlight(p)
      /\ ~Connecting!Quiet'
  BY <1>1 DEF ConnectingInv, Connecting!InFlight, Connecting!Quiet
<1>4. stage' \in [Connecting!Ops -> {"idle", "core", "asking", "served", "answered", "done"}]
  BY <1>1 DEF ConnectingInv
<1>5. Connecting!AnswersHaveOutcomes'
  BY <1>1 DEF ConnectingInv, Connecting!AnswersHaveOutcomes
<1>6. Connecting!OneAtATime'
  BY <1>1, <1>3 DEF ConnectingInv, Connecting!OneAtATime, Connecting!InFlight, Connecting!Quiet
<1>7. Connecting!OutcomesAreTrue'
  BY <1>1 DEF ConnectingInv, Connecting!OutcomesAreTrue, Connecting!Quiet
<1>8. QED
  BY <1>1, <1>2, <1>3, <1>4, <1>5, <1>6, <1>7 DEF ConnectingInv

LEMMA TaskKeeps ==
  ASSUME ConnectingInv, NEW o \in Connecting!Ops, Connecting!Task(o)
  PROVE  /\ ConnectingInv'
         /\ ~Connecting!Quiet'
         /\ status' = status
         /\ \A p \in Connecting!Ops : Connecting!InFlight(p)' <=> Connecting!InFlight(p)
         /\ \A p \in Connecting!Ops : stage[p] = "done" =>
              stage'[p] = "done" /\ outcome'[p] = outcome[p]
<1> USE DEF ConnectingInv
<1>1. status' = status /\ overlapped' = overlapped /\ daemon' = daemon /\ stops' = stops
  BY DEF Connecting!Task, Connecting!CoreDisconnect, Connecting!DaemonServes,
         Connecting!DaemonAnswers, Connecting!RequestFails, Connecting!AnswerLost,
         Connecting!daemonVars
<1>2. /\ stage[o] \in {"core", "asking", "served"}
      /\ \E s \in {"asking", "served", "answered"} : stage' = [stage EXCEPT ![o] = s]
      /\ \/ outcome' = outcome
         \/ \E r \in {"success", "refused", "unreachable"} : outcome' = [outcome EXCEPT ![o] = r]
      /\ core_ok' \in [Disconnects -> BOOLEAN]
      /\ tunnel' \in {"up", "down"}
  <2>1. CASE o \in Disconnects /\ Connecting!CoreDisconnect(o)
    BY <2>1 DEF Connecting!CoreDisconnect, Connecting!daemonVars
  <2>2. CASE Connecting!DaemonServes(o)
    BY <2>2 DEF Connecting!DaemonServes, Connecting!Moved
  <2>3. CASE Connecting!DaemonAnswers(o)
    BY <2>3 DEF Connecting!DaemonAnswers, Connecting!daemonVars
  <2>4. CASE Connecting!RequestFails(o)
    BY <2>4 DEF Connecting!RequestFails
  <2>5. CASE Connecting!AnswerLost(o)
    BY <2>5 DEF Connecting!AnswerLost, Connecting!daemonVars
  <2>6. QED
    BY <2>1, <2>2, <2>3, <2>4, <2>5 DEF Connecting!Task
<1>3. /\ Connecting!InFlight(o) /\ Connecting!InFlight(o)'
      /\ \A p \in Connecting!Ops : Connecting!InFlight(p)' <=> Connecting!InFlight(p)
  BY <1>2 DEF Connecting!InFlight
<1>4. ~Connecting!Quiet'
  BY <1>3 DEF Connecting!Quiet, Connecting!InFlight
<1>5. \A p \in Connecting!Ops : stage[p] = "done" =>
        stage'[p] = "done" /\ outcome'[p] = outcome[p]
  BY <1>2
<1>6. /\ stage' \in [Connecting!Ops -> {"idle", "core", "asking", "served", "answered", "done"}]
      /\ outcome' \in [Connecting!Ops -> {"none", "success", "refused", "unreachable"}]
  BY <1>2
<1>7. Connecting!AnswersHaveOutcomes'
  BY DEF Connecting!Task, Connecting!CoreDisconnect, Connecting!DaemonServes,
         Connecting!DaemonAnswers, Connecting!RequestFails, Connecting!AnswerLost,
         Connecting!AnswersHaveOutcomes
<1>8. Connecting!OneAtATime'
  BY <1>1, <1>3 DEF Connecting!OneAtATime
<1>9. Connecting!OutcomesAreTrue'
  <2> SUFFICES ASSUME ~overlapped, NEW p \in Connecting!Ops, stage'[p] \in {"served", "answered"}
               PROVE  Connecting!Agrees(p)'
    BY <1>1 DEF Connecting!OutcomesAreTrue
  <2>1. p = o
    BY <1>1, <1>3 DEF Connecting!OneAtATime, Connecting!InFlight
  <2>2. CASE o \in Disconnects /\ Connecting!CoreDisconnect(o)
    BY <2>1, <2>2 DEF Connecting!CoreDisconnect
  <2>3. CASE Connecting!DaemonServes(o)
    BY <2>1, <2>3, DesktopAssumption DEF Connecting!DaemonServes, Connecting!Moved,
       Connecting!Agrees, Connecting!Ops
  <2>4. CASE Connecting!DaemonAnswers(o)
    BY <2>1, <2>4 DEF Connecting!DaemonAnswers, Connecting!OutcomesAreTrue, Connecting!Agrees,
       Connecting!daemonVars
  <2>5. CASE Connecting!RequestFails(o) \/ Connecting!AnswerLost(o)
    BY <2>1, <2>5 DEF Connecting!RequestFails, Connecting!AnswerLost, Connecting!Agrees
  <2>6. QED
    BY <2>2, <2>3, <2>4, <2>5 DEF Connecting!Task
<1>10. QED
  BY <1>1, <1>2, <1>3, <1>4, <1>5, <1>6, <1>7, <1>8, <1>9

\* A closure ends its operation under a word for what the daemon answered.
LEMMA ClosureKeeps ==
  ASSUME ConnectingInv, NEW o \in Connecting!Ops, Connecting!Closure(o)
  PROVE  /\ ConnectingInv'
         /\ Connecting!InFlight(o)
         /\ \A p \in Connecting!Ops : Connecting!InFlight(p)' <=> Connecting!InFlight(p) /\ p # o
         /\ stage'[o] = "done"
         /\ \A p \in Connecting!Ops : stage[p] = "done" => stage'[p] = "done"
         /\ UNCHANGED <<outcome, tunnel, moved_by, overlapped>>
         /\ o \in Connects => status' \in {"CONNECTED", "CONNECT FAILED", "DAEMON UNREACHABLE"}
         /\ o \in Disconnects => status' \in {"DISCONNECTED", "DISCONNECT FAILED",
              "DISCONNECT REFUSED", "DISCONNECTED (daemon offline)"}
         /\ status' = "CONNECTED" => o \in Connects /\ outcome[o] = "success"
         /\ ~overlapped =>
              /\ status' = "CONNECTED" => tunnel = "up" \/ moved_by \in {"left", "stop"}
              /\ status' = "DISCONNECTED" => tunnel = "down" \/ moved_by = "left"
<1> USE DEF ConnectingInv
<1>0. Connects \cap Disconnects = {}
  BY DesktopAssumption
<1>1. /\ stage[o] = "answered"
      /\ stage' = [stage EXCEPT ![o] = "done"]
      /\ UNCHANGED <<outcome, core_ok, daemon, tunnel, moved_by, overlapped>>
  BY DEF Connecting!Closure, Connecting!ConnectClosure, Connecting!DisconnectClosure,
         Connecting!daemonVars
<1>2. \/ o \in Connects /\ status' = Connecting!ConnectLabel(outcome[o])
      \/ o \in Disconnects /\ status' = Connecting!DisconnectLabel(core_ok[o], outcome[o])
  BY DEF Connecting!Closure, Connecting!ConnectClosure, Connecting!DisconnectClosure
<1>3. outcome[o] \in {"success", "refused", "unreachable"}
  BY <1>1 DEF Connecting!AnswersHaveOutcomes
<1>4. /\ Connecting!InFlight(o)
      /\ \A p \in Connecting!Ops : Connecting!InFlight(p)' <=> Connecting!InFlight(p) /\ p # o
      /\ stage'[o] = "done"
      /\ \A p \in Connecting!Ops : stage[p] = "done" => stage'[p] = "done"
  BY <1>1 DEF Connecting!InFlight
<1>5. /\ o \in Connects => status' \in {"CONNECTED", "CONNECT FAILED", "DAEMON UNREACHABLE"}
      /\ o \in Disconnects => status' \in {"DISCONNECTED", "DISCONNECT FAILED",
              "DISCONNECT REFUSED", "DISCONNECTED (daemon offline)"}
      /\ status' = "CONNECTED" => o \in Connects /\ outcome[o] = "success"
  BY <1>0, <1>2, <1>3 DEF Connecting!ConnectLabel, Connecting!DisconnectLabel
<1>6. ASSUME ~overlapped
      PROVE  /\ status' = "CONNECTED" => tunnel = "up" \/ moved_by \in {"left", "stop"}
             /\ status' = "DISCONNECTED" => tunnel = "down" \/ moved_by = "left"
  <2>1. Connecting!Agrees(o)
    BY <1>1, <1>6 DEF Connecting!OutcomesAreTrue
  <2>2. CASE o \in Connects /\ status' = Connecting!ConnectLabel(outcome[o])
    BY <1>3, <2>1, <2>2 DEF Connecting!Agrees, Connecting!ConnectLabel
  <2>3. CASE o \in Disconnects /\ status' = Connecting!DisconnectLabel(core_ok[o], outcome[o])
    BY <1>3, <2>1, <2>3 DEF Connecting!Agrees, Connecting!DisconnectLabel
  <2>4. QED
    BY <1>2, <2>2, <2>3
<1>7. stage' \in [Connecting!Ops -> {"idle", "core", "asking", "served", "answered", "done"}]
  BY <1>1
<1>8. Connecting!AnswersHaveOutcomes'
  BY <1>1 DEF Connecting!AnswersHaveOutcomes
<1>9. Connecting!OneAtATime' /\ Connecting!OutcomesAreTrue'
  BY <1>1, <1>4 DEF Connecting!OneAtATime, Connecting!OutcomesAreTrue, Connecting!Agrees
<1>10. QED
  BY <1>1, <1>4, <1>5, <1>6, <1>7, <1>8, <1>9

\* What the daemon does unasked: it stops, starts, or serves what is left with it.
DaemonUnasked ==
  \/ Connecting!DaemonStops
  \/ Connecting!DaemonStarts
  \/ \E o \in Connecting!Ops : Connecting!DaemonServesLeft(o)

LEMMA DaemonKeeps ==
  ASSUME ConnectingInv, DaemonUnasked
  PROVE  /\ ConnectingInv'
         /\ status' = status /\ overlapped' = overlapped
         /\ \A p \in Connecting!Ops : Connecting!InFlight(p)' <=> Connecting!InFlight(p)
         /\ \A p \in Connecting!Ops : stage[p] = "done" =>
              stage'[p] = "done" /\ outcome'[p] = outcome[p]
         /\ \/ tunnel' = tunnel /\ moved_by' = moved_by
            \/ tunnel' = "down" /\ moved_by' = "stop"
            \/ moved_by' = "left"
<1> USE DEF ConnectingInv
<1>1. CASE Connecting!DaemonStarts
  BY <1>1 DEF Connecting!DaemonStarts, Connecting!opVars,
     Connecting!AnswersHaveOutcomes, Connecting!OneAtATime, Connecting!OutcomesAreTrue,
     Connecting!InFlight, Connecting!Agrees
<1>2. CASE Connecting!DaemonStops
  <2> USE <1>2 DEF Connecting!DaemonStops
  <2>1. tunnel' = "down" /\ moved_by' = "stop"
    OBVIOUS
  <2>2. \A p \in Connecting!Ops : Connecting!InFlight(p)' <=> Connecting!InFlight(p)
    BY DEF Connecting!InFlight
  <2>3. \A p \in Connecting!Ops : stage[p] = "done" =>
          stage'[p] = "done" /\ outcome'[p] = outcome[p]
    OBVIOUS
  <2>4. Connecting!AnswersHaveOutcomes'
    BY DEF Connecting!AnswersHaveOutcomes
  <2>5. Connecting!OneAtATime'
    BY <2>2 DEF Connecting!OneAtATime
  <2>6. Connecting!OutcomesAreTrue'
    BY <2>1 DEF Connecting!OutcomesAreTrue, Connecting!Agrees
  <2>7. QED
    BY <2>1, <2>2, <2>3, <2>4, <2>5, <2>6
<1>3. CASE \E o \in Connecting!Ops : Connecting!DaemonServesLeft(o)
  <2>1. /\ UNCHANGED <<status, stage, outcome, core_ok, overlapped>>
        /\ tunnel' \in {"up", "down"}
        /\ (UNCHANGED <<tunnel, moved_by>>) \/ moved_by' = "left"
    BY <1>3 DEF Connecting!DaemonServesLeft, Connecting!Moved, Connecting!opVars
  <2>2. Connecting!AnswersHaveOutcomes' /\ Connecting!OneAtATime'
    BY <2>1 DEF Connecting!AnswersHaveOutcomes, Connecting!OneAtATime, Connecting!InFlight
  <2>3. Connecting!OutcomesAreTrue'
    BY <2>1 DEF Connecting!OutcomesAreTrue, Connecting!Agrees
  <2>4. QED
    BY <2>1, <2>2, <2>3 DEF Connecting!InFlight
<1>4. QED
  BY <1>1, <1>2, <1>3 DEF DaemonUnasked

\* Whatever connecting does, the two invariants of the card stand.
LEMMA ConnectingStep ==
  ASSUME DesktopInv, Connecting!Next, UNCHANGED <<pairingVars, others>>
  PROVE  DesktopInv'
<1>1. UNCHANGED <<task, posted, session, scanned, others>>
  BY DEF pairingVars
<1>2. PairingPartInv' /\ others' \subseteq Others /\ (Approved' <=> Approved)
  BY <1>1 DEF DesktopInv, PairingPartInv, PairingTypes, EndsAreOfTheDone,
     Pairing!SessionsAreMadeOnce, Pairing!ApprovalsAreReal, Approved
<1>3. ConnectingInv /\ ConnectedIsWitnessed /\ CardIsTrueOneAtATime
  BY DEF DesktopInv
<1>4. Connects \subseteq Connecting!Ops /\ Disconnects \subseteq Connecting!Ops
  BY DEF Connecting!Ops
<1>5. ASSUME NEW o \in Connecting!Ops, ConnectRequest(o)
      PROVE  DesktopInv'
  <2>1. status' # "CONNECTED" /\ ~Connecting!Quiet' /\ ConnectingInv'
    BY <1>3, <1>5, RequestKeeps
  <2>2. QED
    BY <1>2, <2>1 DEF DesktopInv, ConnectedIsWitnessed, CardIsTrueOneAtATime
<1>6. ASSUME NEW o \in Connecting!Ops, Connecting!Task(o)
      PROVE  DesktopInv'
  <2>1. /\ ConnectingInv' /\ ~Connecting!Quiet' /\ status' = status
        /\ \A p \in Connecting!Ops : stage[p] = "done" =>
             stage'[p] = "done" /\ outcome'[p] = outcome[p]
    BY <1>3, <1>6, TaskKeeps
  <2>2. ConnectedIsWitnessed'
    BY <1>2, <1>3, <1>4, <2>1 DEF ConnectedIsWitnessed
  <2>3. QED
    BY <1>2, <2>1, <2>2 DEF DesktopInv, CardIsTrueOneAtATime
<1>7. ASSUME NEW o \in Connecting!Ops, Connecting!Closure(o)
      PROVE  DesktopInv'
  <2>1. /\ ConnectingInv' /\ stage'[o] = "done"
        /\ UNCHANGED <<outcome, tunnel, moved_by, overlapped>>
        /\ status' = "CONNECTED" => o \in Connects /\ outcome[o] = "success"
        /\ ~overlapped =>
              /\ status' = "CONNECTED" => tunnel = "up" \/ moved_by \in {"left", "stop"}
              /\ status' = "DISCONNECTED" => tunnel = "down" \/ moved_by = "left"
    BY <1>3, <1>7, ClosureKeeps
  <2>2. ConnectedIsWitnessed'
    BY <2>1 DEF ConnectedIsWitnessed
  <2>3. CardIsTrueOneAtATime'
    BY <2>1 DEF CardIsTrueOneAtATime
  <2>4. QED
    BY <1>2, <2>1, <2>2, <2>3 DEF DesktopInv
<1>8. CASE DaemonUnasked
  <2>1. /\ ConnectingInv' /\ status' = status /\ overlapped' = overlapped
        /\ \A p \in Connecting!Ops : Connecting!InFlight(p)' <=> Connecting!InFlight(p)
        /\ \A p \in Connecting!Ops : stage[p] = "done" =>
             stage'[p] = "done" /\ outcome'[p] = outcome[p]
        /\ \/ tunnel' = tunnel /\ moved_by' = moved_by
           \/ tunnel' = "down" /\ moved_by' = "stop"
           \/ moved_by' = "left"
    BY <1>3, <1>8, DaemonKeeps
  <2>2. Connecting!Quiet' => Connecting!Quiet
    BY <2>1 DEF Connecting!Quiet, Connecting!InFlight
  <2>3. ConnectedIsWitnessed'
    BY <1>2, <1>3, <1>4, <2>1 DEF ConnectedIsWitnessed
  <2>4. CardIsTrueOneAtATime'
    BY <1>2, <1>3, <2>1, <2>2 DEF CardIsTrueOneAtATime
  <2>5. QED
    BY <1>2, <2>1, <2>3, <2>4 DEF DesktopInv
<1>9. QED
  BY <1>4, <1>5, <1>6, <1>7, <1>8 DEF Connecting!Next, ConnectRequest, DaemonUnasked

-----------------------------------------------------------------------------
(* Pairing.                                                                *)

EndPosted(g) == \E k \in 1..Len(posted) : posted[k].kind \in EndKinds /\ posted[k].of = g

\* A press is out while its task is, or its end is on the queue.
LEMMA OutOrPosted ==
  ASSUME NEW g \in Generates
  PROVE  /\ Pairing!InFlight(g) <=> task[g] \in {"generating", "polling"} \/ EndPosted(g)
         /\ Pairing!InFlight(g)' <=> task'[g] \in {"generating", "polling"} \/ EndPosted(g)'
BY Zenon DEF Pairing!InFlight, EndPosted, EndKinds

\* The queue holds an end only of a task that is done.
LEMMA EndsOfDone ==
  ASSUME EndsAreOfTheDone, NEW g \in Generates, EndPosted(g)
  PROVE  task[g] = "done"
BY DEF EndsAreOfTheDone, EndPosted

LEMMA PostAppends ==
  ASSUME PairingTypes, NEW k, NEW g, Pairing!Post(k, g), [kind |-> k, of |-> g] \in Pairing!Closure
  PROVE  /\ posted' \in Seq(Pairing!Closure)
         /\ Len(posted) \in Nat
         /\ Len(posted') = Len(posted) + 1
         /\ \A i \in 1..Len(posted) : posted'[i] = posted[i]
         /\ posted'[Len(posted) + 1].kind = k
         /\ posted'[Len(posted) + 1].of = g
         /\ \A i \in 1..Len(posted') : i \in 1..Len(posted) \/ i = Len(posted) + 1
<1>1. posted \in Seq(Pairing!Closure)
  BY DEF PairingTypes
<1>2. /\ posted' \in Seq(Pairing!Closure)
      /\ Len(posted') = Len(posted) + 1
      /\ \A i \in 1..Len(posted) : posted'[i] = posted[i]
      /\ posted'[Len(posted) + 1] = [kind |-> k, of |-> g]
  BY <1>1, AppendProperties DEF Pairing!Post
<1>3. QED
  BY <1>1, <1>2

LEMMA TakingShifts ==
  ASSUME PairingTypes, posted # <<>>, posted' = Tail(posted)
  PROVE  /\ posted' \in Seq(Pairing!Closure)
         /\ Len(posted) \in Nat \ {0}
         /\ Len(posted') = Len(posted) - 1
         /\ \A i \in 1..Len(posted') : posted'[i] = posted[i + 1]
         /\ Head(posted) = posted[1]
         /\ Head(posted) \in Pairing!Closure
<1>1. posted \in Seq(Pairing!Closure)
  BY DEF PairingTypes
<1>2. /\ Head(posted) \in Pairing!Closure
      /\ Tail(posted) \in Seq(Pairing!Closure)
      /\ Len(Tail(posted)) = Len(posted) - 1
      /\ \A i \in 1..Len(Tail(posted)) : Tail(posted)[i] = posted[i + 1]
  BY <1>1, HeadTailProperties
<1>3. Len(posted) \in Nat \ {0} /\ Head(posted) = posted[1]
  BY <1>1
<1>4. QED
  BY <1>2, <1>3

LEMMA ActivatedAreGenerates ==
  ASSUME PairingTypes, NEW i \in 1..Len(posted), posted[i].kind = "activated"
  PROVE  posted[i].of \in Generates
<1>1. posted[i] \in Pairing!Closure
  BY ElementOfSeq DEF PairingTypes
<1>2. QED
  BY <1>1 DEF Pairing!Closure

\* Posting an end by the task that is done with it, or anything else by a
\* task or a handler, keeps the invariant and what is out.
LEMMA PostingKeeps ==
  ASSUME PairingPartInv, NEW k, NEW g, Pairing!Post(k, g),
         [kind |-> k, of |-> g] \in Pairing!Closure,
         task' \in [Generates -> {"idle", "generating", "polling", "done"}],
         session' \in [Generates -> {"none", "pending", "activated"}],
         Pairing!SessionsAreMadeOnce', UNCHANGED <<status, scanned>>,
         \A h \in Generates :
           \/ task'[h] \in {"generating", "polling"} <=> task[h] \in {"generating", "polling"}
           \/ h = g /\ k \in EndKinds,
         k \in EndKinds => task[g] \in {"generating", "polling"} /\ task'[g] = "done",
         \A h : task[h] = "done" => task'[h] = "done",
         \A h \in Generates : session'[h] = "activated" <=> session[h] = "activated",
         k = "activated" => session[g] = "activated"
  PROVE  /\ PairingPartInv' /\ (Approved => Approved')
         /\ \A h \in Generates : Pairing!InFlight(h)' <=> Pairing!InFlight(h)
<1>0. PairingTypes /\ EndsAreOfTheDone /\ Pairing!ApprovalsAreReal
  BY DEF PairingPartInv
<1>1. /\ posted' \in Seq(Pairing!Closure)
      /\ Len(posted) \in Nat
      /\ Len(posted') = Len(posted) + 1
      /\ \A i \in 1..Len(posted) : posted'[i] = posted[i]
      /\ posted'[Len(posted) + 1].kind = k
      /\ posted'[Len(posted) + 1].of = g
      /\ \A i \in 1..Len(posted') : i \in 1..Len(posted) \/ i = Len(posted) + 1
  BY <1>0, PostAppends
<1>2. EndsAreOfTheDone'
  <2> SUFFICES ASSUME NEW i \in 1..Len(posted'), posted'[i].kind \in EndKinds
               PROVE  /\ task'[posted'[i].of] = "done"
                      /\ \A j \in 1..Len(posted') :
                           posted'[j].kind \in EndKinds /\ posted'[j].of = posted'[i].of => j = i
    BY DEF EndsAreOfTheDone
  <2>1. k \in EndKinds => \A j \in 1..Len(posted) :
                            ~(posted[j].kind \in EndKinds /\ posted[j].of = g)
    BY <1>0 DEF EndsAreOfTheDone
  <2>2. CASE i \in 1..Len(posted)
    <3>1. posted'[i] = posted[i] /\ posted[i].kind \in EndKinds
      BY <1>1, <2>2
    <3>2. /\ task[posted[i].of] = "done"
          /\ \A j \in 1..Len(posted) :
               posted[j].kind \in EndKinds /\ posted[j].of = posted[i].of => j = i
      BY <1>0, <2>2, <3>1 DEF EndsAreOfTheDone
    <3>3. k \in EndKinds => g # posted[i].of
      BY <2>1, <2>2, <3>1
    <3>4. QED
      BY <1>1, <3>1, <3>2, <3>3
  <2>3. CASE i = Len(posted) + 1
    BY <1>1, <2>1, <2>3
  <2>4. QED
    BY <1>1, <2>2, <2>3
<1>3. Pairing!ApprovalsAreReal'
  <2>1. \A h \in Generates : session'[h] = "activated" => h \in scanned'
    BY <1>0 DEF Pairing!ApprovalsAreReal
  <2>2. ASSUME NEW i \in 1..Len(posted'), posted'[i].kind = "activated"
        PROVE  session'[posted'[i].of] = "activated"
    <3>1. CASE i \in 1..Len(posted)
      <4>1. posted'[i] = posted[i] /\ posted[i].kind = "activated"
        BY <1>1, <2>2, <3>1
      <4>2. posted[i].of \in Generates /\ session[posted[i].of] = "activated"
        BY <1>0, <3>1, <4>1, ActivatedAreGenerates DEF Pairing!ApprovalsAreReal
      <4>3. QED
        BY <4>1, <4>2
    <3>2. CASE i = Len(posted) + 1
      <4>1. k = "activated" /\ posted'[i].of = g
        BY <1>1, <2>2, <3>2
      <4>2. g \in Generates
        BY <4>1 DEF Pairing!Closure
      <4>3. QED
        BY <4>1, <4>2
    <3>3. QED
      BY <1>1, <3>1, <3>2
  <2>3. QED
    BY <2>1, <2>2 DEF Pairing!ApprovalsAreReal
<1>4. PairingTypes'
  BY <1>1 DEF PairingTypes
<1>5. Approved => Approved'
  BY DEF Approved
<1>6. ASSUME NEW h \in Generates
      PROVE  Pairing!InFlight(h)' <=> Pairing!InFlight(h)
  <2>1. EndPosted(h)' <=> EndPosted(h) \/ (k \in EndKinds /\ g = h)
    <3>1. 1..Len(posted) \subseteq 1..Len(posted') /\ Len(posted) + 1 \in 1..Len(posted')
      BY <1>1
    <3>2. QED
      BY <1>1, <3>1 DEF EndPosted
  <2>2. QED
    BY <2>1, OutOrPosted
<1>7. QED
  BY <1>2, <1>3, <1>4, <1>5, <1>6 DEF PairingPartInv

\* A step that posts nothing keeps the invariant if it undoes no end of a task
\* and no approval.
LEMMA QuietStepKeeps ==
  ASSUME PairingPartInv, posted' = posted,
         task' \in [Generates -> {"idle", "generating", "polling", "done"}],
         session' \in [Generates -> {"none", "pending", "activated"}],
         Pairing!SessionsAreMadeOnce',
         \A h : task[h] = "done" => task'[h] = "done",
         \A h \in Generates : session[h] = "activated" => session'[h] = "activated",
         \A h \in Generates : session'[h] = "activated" => h \in scanned',
         scanned \subseteq scanned'
  PROVE  /\ PairingPartInv' /\ (Approved => Approved')
         /\ \A h \in Generates : EndPosted(h)' <=> EndPosted(h)
<1>0. PairingTypes /\ EndsAreOfTheDone /\ Pairing!ApprovalsAreReal
  BY DEF PairingPartInv
<1>1. EndsAreOfTheDone'
  BY <1>0 DEF EndsAreOfTheDone
<1>2. Pairing!ApprovalsAreReal'
  BY <1>0, ActivatedAreGenerates DEF Pairing!ApprovalsAreReal
<1>3. PairingTypes'
  BY <1>0 DEF PairingTypes
<1>4. Approved => Approved'
  BY DEF Approved
<1>5. \A h \in Generates : EndPosted(h)' <=> EndPosted(h)
  BY DEF EndPosted
<1>6. QED
  BY <1>1, <1>2, <1>3, <1>4, <1>5 DEF PairingPartInv

\* Taking a closure keeps it too; what was out is, except for the press whose
\* end the closure is.
LEMMA TakingKeeps ==
  ASSUME PairingPartInv, Pairing!RunClosure
  PROVE  /\ PairingPartInv' /\ (Approved => Approved')
         /\ \/ /\ \A h \in Generates : Pairing!InFlight(h)' <=> Pairing!InFlight(h)
               /\ status' = status
            \/ \E g \in Generates :
               /\ Pairing!InFlight(g)
               /\ \A h \in Generates : Pairing!InFlight(h)' <=> Pairing!InFlight(h) /\ h # g
               /\ status' \in {"CONNECTED", "PAIRING EXPIRED", "PAIRING FAILED"}
               /\ status' = "CONNECTED" => Approved
<1>0. PairingTypes /\ EndsAreOfTheDone /\ Pairing!ApprovalsAreReal /\ Pairing!SessionsAreMadeOnce
  BY DEF PairingPartInv
<1>1. /\ posted # <<>> /\ posted' = Tail(posted)
      /\ task' = task /\ session' = session /\ scanned' = scanned
  BY DEF Pairing!RunClosure, Pairing!world
<1>2. /\ posted' \in Seq(Pairing!Closure)
      /\ Len(posted) \in Nat \ {0}
      /\ Len(posted') = Len(posted) - 1
      /\ \A i \in 1..Len(posted') : posted'[i] = posted[i + 1]
      /\ Head(posted) = posted[1]
      /\ Head(posted) \in Pairing!Closure
  BY <1>0, <1>1, TakingShifts
<1>3. \A i \in 1..Len(posted') : i + 1 \in 1..Len(posted)
  BY <1>2
<1>4. PairingPartInv' /\ (Approved => Approved')
  <2>1. EndsAreOfTheDone'
    <3> SUFFICES ASSUME NEW i \in 1..Len(posted'), posted'[i].kind \in EndKinds
                 PROVE  /\ task'[posted'[i].of] = "done"
                        /\ \A j \in 1..Len(posted') :
                             posted'[j].kind \in EndKinds /\ posted'[j].of = posted'[i].of => j = i
      BY DEF EndsAreOfTheDone
    <3>1. i + 1 \in 1..Len(posted) /\ posted'[i] = posted[i + 1]
      BY <1>2
    <3>2. /\ task[posted[i + 1].of] = "done"
          /\ \A j \in 1..Len(posted) :
               posted[j].kind \in EndKinds /\ posted[j].of = posted[i + 1].of => j = i + 1
      BY <1>0, <3>1 DEF EndsAreOfTheDone
    <3>3. ASSUME NEW j \in 1..Len(posted'), posted'[j].kind \in EndKinds,
                 posted'[j].of = posted'[i].of
          PROVE  j = i
      <4>1. j + 1 \in 1..Len(posted) /\ posted'[j] = posted[j + 1]
        BY <1>2
      <4>2. j + 1 = i + 1
        BY <3>1, <3>2, <3>3, <4>1
      <4>3. QED
        BY <4>2
    <3>4. QED
      BY <1>1, <3>1, <3>2, <3>3
  <2>2. Pairing!ApprovalsAreReal' /\ Pairing!SessionsAreMadeOnce'
    BY <1>0, <1>1, <1>2, <1>3 DEF Pairing!ApprovalsAreReal, Pairing!SessionsAreMadeOnce
  <2>3. PairingTypes'
    BY <1>0, <1>1, <1>2 DEF PairingTypes
  <2>4. QED
    BY <1>1, <2>1, <2>2, <2>3 DEF PairingPartInv, Approved
<1>5. ASSUME NEW h \in Generates
      PROVE  EndPosted(h) <=> EndPosted(h)' \/ (posted[1].kind \in EndKinds /\ posted[1].of = h)
  <2>1. ASSUME EndPosted(h)
        PROVE  EndPosted(h)' \/ (posted[1].kind \in EndKinds /\ posted[1].of = h)
    <3>1. PICK k \in 1..Len(posted) : posted[k].kind \in EndKinds /\ posted[k].of = h
      BY <2>1 DEF EndPosted
    <3>2. CASE k = 1
      BY <3>1, <3>2
    <3>3. CASE k # 1
      <4>1. k - 1 \in 1..Len(posted') /\ posted'[k - 1] = posted[k]
        BY <1>2, <3>3
      <4>2. QED
        BY <3>1, <4>1 DEF EndPosted
    <3>4. QED
      BY <3>2, <3>3
  <2>2. EndPosted(h)' => EndPosted(h)
    BY <1>2, <1>3 DEF EndPosted
  <2>3. posted[1].kind \in EndKinds /\ posted[1].of = h => EndPosted(h)
    BY <1>2 DEF EndPosted
  <2>4. QED
    BY <2>1, <2>2, <2>3
<1>6. CASE posted[1].kind \notin EndKinds
  <2>1. \A h \in Generates : Pairing!InFlight(h)' <=> Pairing!InFlight(h)
    BY <1>1, <1>5, <1>6, OutOrPosted
  <2>2. posted[1].kind \notin {"activated", "expired", "failed"}
    BY <1>6 DEF EndKinds
  <2>3. status' = status
    <3>1. \/ Pairing!ShowToken(posted[1].of)
          \/ Pairing!ShowCancelled
      BY <1>2, <2>2 DEF Pairing!RunClosure
    <3>2. QED
      BY <3>1 DEF Pairing!ShowToken, Pairing!ShowCancelled
  <2>4. QED
    BY <1>4, <2>1, <2>3
<1>7. CASE posted[1].kind \in EndKinds
  <2>1. PICK g \in Generates : posted[1].of = g
    BY <1>2, <1>7 DEF Pairing!Closure, EndKinds
  <2>2. 1 \in 1..Len(posted)
    BY <1>2
  <2>3. task[g] = "done" /\ \A j \in 1..Len(posted) :
          posted[j].kind \in EndKinds /\ posted[j].of = g => 1 = j
    BY <1>0, <1>7, <2>1, <2>2 DEF EndsAreOfTheDone
  <2>4. ~EndPosted(g)'
    <3> SUFFICES ASSUME NEW k \in 1..Len(posted'),
                        posted'[k].kind \in EndKinds, posted'[k].of = g
                 PROVE  FALSE
      BY DEF EndPosted
    <3>1. k + 1 \in 1..Len(posted) /\ posted'[k] = posted[k + 1] /\ k + 1 # 1
      BY <1>2
    <3>2. QED
      BY <2>3, <3>1
  <2>5. Pairing!InFlight(g) /\ ~Pairing!InFlight(g)'
    BY <1>1, <1>5, <1>7, <2>1, <2>3, <2>4, OutOrPosted
  <2>6. \A h \in Generates : Pairing!InFlight(h)' <=> Pairing!InFlight(h) /\ h # g
    BY <1>1, <1>5, <2>1, <2>5, OutOrPosted
  <2>7. status' \in {"CONNECTED", "PAIRING EXPIRED", "PAIRING FAILED"}
    <3>1. Pairing!ShowActivated \/ Pairing!ShowExpired \/ Pairing!ShowFailed
      BY <1>2, <1>7 DEF Pairing!RunClosure, EndKinds
    <3>2. QED
      BY <3>1 DEF Pairing!ShowActivated, Pairing!ShowExpired, Pairing!ShowFailed
  <2>8. status' = "CONNECTED" => Approved
    <3> SUFFICES ASSUME status' = "CONNECTED"
                 PROVE  Approved
      OBVIOUS
    <3>1. Head(posted).kind = "activated"
      BY <1>2, <1>7 DEF Pairing!RunClosure, Pairing!ShowExpired, Pairing!ShowFailed, EndKinds
    <3>2. session[g] = "activated" /\ g \in scanned
      BY <1>0, <1>2, <2>1, <2>2, <3>1 DEF Pairing!ApprovalsAreReal
    <3>3. QED
      BY <3>2 DEF Approved
  <2>9. QED
    BY <1>4, <2>5, <2>6, <2>7, <2>8
<1>8. QED
  BY <1>6, <1>7

\* What a step of pairing is to the card: a press begun, nothing, or one ended.
PairingBegins ==
  /\ status' = "PAIRING..."
  /\ \E g \in Generates :
       /\ ~Pairing!InFlight(g)
       /\ \A h \in Generates : Pairing!InFlight(h)' <=> Pairing!InFlight(h) \/ h = g

PairingSaysNothing ==
  /\ status' = status
  /\ \A h \in Generates : Pairing!InFlight(h)' <=> Pairing!InFlight(h)

PairingEnds ==
  /\ status' \in {"CONNECTED", "PAIRING EXPIRED", "PAIRING FAILED"}
  /\ status' = "CONNECTED" => Approved
  /\ \E g \in Generates :
       /\ Pairing!InFlight(g)
       /\ \A h \in Generates : Pairing!InFlight(h)' <=> Pairing!InFlight(h) /\ h # g

LEMMA PairingMoves ==
  ASSUME PairingPartInv, Pairing!Next
  PROVE  /\ PairingPartInv' /\ (Approved => Approved')
         /\ PairingBegins \/ PairingSaysNothing \/ PairingEnds
<1>0. /\ PairingTypes /\ EndsAreOfTheDone
      /\ Pairing!ApprovalsAreReal /\ Pairing!SessionsAreMadeOnce
  BY DEF PairingPartInv
<1>1. ASSUME NEW g \in Generates, Pairing!ClickGenerate(g)
      PROVE  PairingPartInv' /\ (Approved => Approved') /\ PairingBegins
  <2>1. /\ task[g] = "idle" /\ task' = [task EXCEPT ![g] = "generating"]
        /\ status' = "PAIRING..." /\ UNCHANGED <<posted, session, scanned>>
    BY <1>1 DEF Pairing!ClickGenerate, Pairing!world
  <2>2. Pairing!SessionsAreMadeOnce'
    BY <1>0, <2>1 DEF PairingTypes, Pairing!SessionsAreMadeOnce
  <2>3. /\ task' \in [Generates -> {"idle", "generating", "polling", "done"}]
        /\ \A h : task[h] = "done" => task'[h] = "done"
    BY <1>0, <2>1 DEF PairingTypes
  <2>4. /\ PairingPartInv' /\ (Approved => Approved')
        /\ \A h \in Generates : EndPosted(h)' <=> EndPosted(h)
    BY <1>0, <2>1, <2>2, <2>3, QuietStepKeeps DEF PairingTypes, Pairing!ApprovalsAreReal
  <2>5. ~Pairing!InFlight(g)
    BY <1>0, <2>1, EndsOfDone, OutOrPosted
  <2>6. \A h \in Generates : Pairing!InFlight(h)' <=> Pairing!InFlight(h) \/ h = g
    BY <1>0, <2>1, <2>4, OutOrPosted DEF PairingTypes
  <2>7. QED
    BY <2>1, <2>4, <2>5, <2>6 DEF PairingBegins
<1>2. ASSUME NEW g \in Generates, Pairing!Generated(g)
      PROVE  PairingPartInv' /\ (Approved => Approved') /\ PairingSaysNothing
  <2>1. [kind |-> "token", of |-> g] \in Pairing!Closure
    BY DEF Pairing!Closure
  <2>2. /\ task[g] = "generating" /\ task' = [task EXCEPT ![g] = "polling"]
        /\ session' = [session EXCEPT ![g] = "pending"]
        /\ Pairing!Post("token", g) /\ UNCHANGED <<status, scanned>>
    BY <1>2 DEF Pairing!Generated
  <2>3. /\ task' \in [Generates -> {"idle", "generating", "polling", "done"}]
        /\ session' \in [Generates -> {"none", "pending", "activated"}]
        /\ \A h : task[h] = "done" => task'[h] = "done"
        /\ \A h \in Generates :
             task'[h] \in {"generating", "polling"} <=> task[h] \in {"generating", "polling"}
        /\ \A h \in Generates : session'[h] = "activated" <=> session[h] = "activated"
        /\ Pairing!SessionsAreMadeOnce'
    BY <1>0, <2>2 DEF PairingTypes, Pairing!SessionsAreMadeOnce
  <2>4. "token" \notin EndKinds
    BY DEF EndKinds
  <2>5. QED
    BY <2>1, <2>2, <2>3, <2>4, PostingKeeps DEF PairingSaysNothing
<1>3. ASSUME NEW g \in Generates, NEW k \in EndKinds, Pairing!Post(k, g),
             task[g] \in {"generating", "polling"}, task' = [task EXCEPT ![g] = "done"],
             k = "activated" => session[g] = "activated",
             UNCHANGED <<status, session, scanned>>
      PROVE  PairingPartInv' /\ (Approved => Approved') /\ PairingSaysNothing
  <2>1. [kind |-> k, of |-> g] \in Pairing!Closure
    BY DEF Pairing!Closure, EndKinds
  <2>2. /\ task' \in [Generates -> {"idle", "generating", "polling", "done"}]
        /\ session' \in [Generates -> {"none", "pending", "activated"}]
        /\ task'[g] = "done"
        /\ \A h : task[h] = "done" => task'[h] = "done"
        /\ \A h \in Generates :
             \/ task'[h] \in {"generating", "polling"} <=> task[h] \in {"generating", "polling"}
             \/ h = g /\ k \in EndKinds
        /\ Pairing!SessionsAreMadeOnce'
    BY <1>0, <1>3 DEF PairingTypes, Pairing!SessionsAreMadeOnce
  <2>3. QED
    BY <1>3, <2>1, <2>2, PostingKeeps DEF PairingSaysNothing
<1>4. ASSUME NEW g \in Generates,
             Pairing!GenerateFails(g) \/ Pairing!PollActivated(g) \/ Pairing!PollsRunOut(g)
      PROVE  PairingPartInv' /\ (Approved => Approved') /\ PairingSaysNothing
  <2>1. \E k \in EndKinds :
          /\ Pairing!Post(k, g)
          /\ task[g] \in {"generating", "polling"} /\ task' = [task EXCEPT ![g] = "done"]
          /\ k = "activated" => session[g] = "activated"
          /\ UNCHANGED <<status, session, scanned>>
    BY <1>4 DEF Pairing!GenerateFails, Pairing!PollActivated, Pairing!PollsRunOut, Pairing!world,
       EndKinds
  <2>2. QED
    BY <1>3, <2>1
<1>5. ASSUME UNCHANGED <<status, task, posted>>,
             session' \in [Generates -> {"none", "pending", "activated"}],
             Pairing!SessionsAreMadeOnce',
             \A h \in Generates : session[h] = "activated" => session'[h] = "activated",
             \A h \in Generates : session'[h] = "activated" => h \in scanned',
             scanned \subseteq scanned'
      PROVE  PairingPartInv' /\ (Approved => Approved') /\ PairingSaysNothing
  <2>1. /\ PairingPartInv' /\ (Approved => Approved')
        /\ \A h \in Generates : EndPosted(h)' <=> EndPosted(h)
    BY <1>0, <1>5, QuietStepKeeps DEF PairingTypes
  <2>2. \A h \in Generates : Pairing!InFlight(h)' <=> Pairing!InFlight(h)
    BY <1>5, <2>1, OutOrPosted
  <2>3. QED
    BY <1>5, <2>1, <2>2 DEF PairingSaysNothing
<1>6. ASSUME NEW g \in Generates, Pairing!PollNothing(g) \/ Pairing!PhoneApproves(g)
      PROVE  PairingPartInv' /\ (Approved => Approved') /\ PairingSaysNothing
  <2>1. /\ UNCHANGED <<status, task, posted, scanned>>
        /\ \/ session' = session
           \/ /\ g \in scanned /\ session[g] = "pending"
              /\ session' = [session EXCEPT ![g] = "activated"]
    BY <1>6 DEF Pairing!PollNothing, Pairing!PhoneApproves, Pairing!world
  <2>2. /\ session' \in [Generates -> {"none", "pending", "activated"}]
        /\ Pairing!SessionsAreMadeOnce'
        /\ \A h \in Generates : session[h] = "activated" => session'[h] = "activated"
        /\ \A h \in Generates : session'[h] = "activated" => h \in scanned'
    BY <1>0, <2>1 DEF PairingTypes, Pairing!SessionsAreMadeOnce, Pairing!ApprovalsAreReal
  <2>3. QED
    BY <1>5, <2>1, <2>2
<1>7. CASE Pairing!PhoneScans
  <2>1. UNCHANGED <<status, task, posted, session>> /\ scanned \subseteq scanned'
    BY <1>7 DEF Pairing!PhoneScans
  <2>2. /\ session' \in [Generates -> {"none", "pending", "activated"}]
        /\ Pairing!SessionsAreMadeOnce'
        /\ \A h \in Generates : session'[h] = "activated" => h \in scanned'
    BY <1>0, <2>1 DEF PairingTypes, Pairing!SessionsAreMadeOnce, Pairing!ApprovalsAreReal
  <2>3. QED
    BY <1>5, <2>1, <2>2
<1>8. CASE Pairing!ClickCancel
  <2>1. [kind |-> "cancel", of |-> NoToken] \in Pairing!Closure /\ "cancel" \notin EndKinds
    BY DEF Pairing!Closure, EndKinds
  <2>2. UNCHANGED <<status, task, session, scanned>> /\ Pairing!Post("cancel", NoToken)
    BY <1>8 DEF Pairing!ClickCancel, Pairing!world
  <2>3. /\ task' \in [Generates -> {"idle", "generating", "polling", "done"}]
        /\ session' \in [Generates -> {"none", "pending", "activated"}]
        /\ Pairing!SessionsAreMadeOnce'
    BY <1>0, <2>2 DEF PairingTypes, Pairing!SessionsAreMadeOnce
  <2>4. QED
    BY <2>1, <2>2, <2>3, PostingKeeps DEF PairingSaysNothing
<1>9. CASE Pairing!RunClosure
  BY <1>9, TakingKeeps DEF PairingSaysNothing, PairingEnds
<1>10. QED
  BY <1>1, <1>2, <1>4, <1>6, <1>7, <1>8, <1>9 DEF Pairing!Next, Pairing!Task

LEMMA PairingStep ==
  ASSUME DesktopInv, Pairing!Next, UNCHANGED <<connectingVars, others>>
  PROVE  DesktopInv'
<1>1. UNCHANGED <<stage, outcome, core_ok, daemon, tunnel, moved_by, overlapped, others>>
  BY DEF connectingVars
<1>2. /\ PairingPartInv' /\ (Approved => Approved')
      /\ PairingBegins \/ PairingSaysNothing \/ PairingEnds
  BY PairingMoves DEF DesktopInv
<1>3. \/ status' = status
      \/ status' \in {"PAIRING...", "PAIRING EXPIRED", "PAIRING FAILED"}
      \/ status' = "CONNECTED" /\ Approved'
  BY <1>2 DEF PairingBegins, PairingSaysNothing, PairingEnds
<1>4. ConnectingInv'
  BY <1>1 DEF DesktopInv, ConnectingInv, Connecting!AnswersHaveOutcomes, Connecting!OneAtATime, Connecting!OutcomesAreTrue,
     Connecting!InFlight, Connecting!Agrees
<1>5. ConnectedIsWitnessed'
  BY <1>1, <1>2, <1>3 DEF DesktopInv, ConnectedIsWitnessed
<1>6. CardIsTrueOneAtATime'
  BY <1>1, <1>2, <1>3 DEF DesktopInv, CardIsTrueOneAtATime, Connecting!Quiet
<1>7. QED
  BY <1>1, <1>2, <1>4, <1>5, <1>6 DEF DesktopInv

-----------------------------------------------------------------------------
(* The window's handlers, by StatusCard.                                   *)

LEMMA EndsOfKinds ==
  /\ Card!Ended["connect"] = {"CONNECTED", "CONNECT FAILED", "DAEMON UNREACHABLE"}
  /\ Card!Ended["disconnect"] = {"DISCONNECTED", "DISCONNECT FAILED", "DISCONNECT REFUSED",
                                 "DISCONNECTED (daemon offline)"}
  /\ Card!Ended["pair"] = {"CONNECTED", "PAIRING EXPIRED", "PAIRING FAILED"}
  /\ Elsewhere!Ended["login"] = {"AUTHENTICATED", "AUTHENTICATION FAILED"}
  /\ Elsewhere!Ended["wipe"] = {"WIPED", "WIPED (FAILED)"}
  /\ Elsewhere!Ended["update"] = {"UPDATE AVAILABLE"}
BY Zenon DEF Card!Ended, Elsewhere!Ended

LEMMA BegunOfKinds ==
  /\ Card!Begun["connect"] = {"CONNECTING..."}
  /\ Card!Begun["disconnect"] = {"DISCONNECTING..."}
  /\ Card!Begun["pair"] = {"PAIRING..."}
  /\ Elsewhere!Begun["login"] = {"AUTHENTICATING..."}
  /\ Elsewhere!Begun["wipe"] = {"WIPING..."}
  /\ Elsewhere!Begun["update"] = {}
BY Zenon DEF Card!Begun, Elsewhere!Begun

\* None of their labels is one of connecting's or pairing's.
ElsewhereLabels ==
  {"AUTHENTICATING...", "AUTHENTICATED", "AUTHENTICATION FAILED", "WIPING...", "WIPED",
   "WIPED (FAILED)", "UPDATE AVAILABLE", "AUTOSTART ON", "AUTOSTART OFF", "AUTOSTART FAILED"}

LEMMA ElsewhereMoves ==
  ASSUME Elsewhere!CardNext
  PROVE  /\ status' = status \/ status' \in ElsewhereLabels
         /\ others \subseteq Others => others' \subseteq Others
<1>1. \A w \in Others : OtherKind[w] \in {"login", "wipe", "update"}
  BY DesktopAssumption
<1>2. ASSUME NEW w \in Others, Elsewhere!Begin(w)
      PROVE  status' \in ElsewhereLabels /\ others' = others \cup {w}
  <2>1. status' \in Elsewhere!Begun[OtherKind[w]] /\ others' = others \cup {w}
    BY Zenon, <1>2 DEF Elsewhere!Begin
  <2>2. QED
    BY <1>1, <2>1, BegunOfKinds DEF ElsewhereLabels
<1>3. ASSUME NEW w \in Others, Elsewhere!End(w)
      PROVE  (status' = status \/ status' \in ElsewhereLabels) /\ others' = others \ {w}
  <2>1. /\ status' \in Elsewhere!Ended[OtherKind[w]] \/ status' = status
        /\ others' = others \ {w}
    BY Zenon, <1>3 DEF Elsewhere!End
  <2>2. QED
    BY <1>1, <2>1, EndsOfKinds DEF ElsewhereLabels
<1>4. CASE Elsewhere!Report
  BY <1>4 DEF Elsewhere!Report, Elsewhere!AutostartLabels, ElsewhereLabels
<1>5. QED
  BY <1>2, <1>3, <1>4 DEF Elsewhere!CardNext

LEMMA ElsewhereStep ==
  ASSUME DesktopInv, Elsewhere!CardNext, UNCHANGED <<connectingVars, pairingVars>>
  PROVE  DesktopInv'
<1>1. UNCHANGED <<stage, outcome, core_ok, daemon, tunnel, moved_by, overlapped>>
  BY DEF connectingVars
<1>2. UNCHANGED <<task, posted, session, scanned>>
  BY DEF pairingVars
<1>3. others' \subseteq Others /\ (status' = status \/ status' \in ElsewhereLabels)
  BY ElsewhereMoves DEF DesktopInv
<1>4. ConnectingInv'
  BY <1>1 DEF DesktopInv, ConnectingInv, Connecting!AnswersHaveOutcomes, Connecting!OneAtATime, Connecting!OutcomesAreTrue,
     Connecting!InFlight, Connecting!Agrees
<1>5. PairingPartInv' /\ (Approved' <=> Approved)
  BY <1>2 DEF DesktopInv, PairingPartInv, PairingTypes, EndsAreOfTheDone,
     Pairing!SessionsAreMadeOnce, Pairing!ApprovalsAreReal, Approved
<1>6. ConnectedIsWitnessed'
  BY <1>1, <1>3, <1>5 DEF DesktopInv, ConnectedIsWitnessed, ElsewhereLabels
<1>7. CardIsTrueOneAtATime'
  BY <1>1, <1>3, <1>5 DEF DesktopInv, CardIsTrueOneAtATime, Connecting!Quiet, ElsewhereLabels
<1>8. QED
  BY <1>3, <1>4, <1>5, <1>6, <1>7 DEF DesktopInv

LEMMA DesktopStep == DesktopInv /\ [Next]_vars => DesktopInv'
<1> SUFFICES ASSUME DesktopInv, [Next]_vars
             PROVE  DesktopInv'
  OBVIOUS
<1>1. CASE UNCHANGED vars
  <2>1. UNCHANGED <<status, stage, outcome, core_ok, daemon, tunnel, moved_by, overlapped, others>>
    BY <1>1 DEF vars, connectingVars
  <2>2. UNCHANGED <<task, posted, session, scanned>>
    BY <1>1 DEF vars, pairingVars
  <2>3. ConnectingInv'
    BY <2>1 DEF DesktopInv, ConnectingInv,   Connecting!AnswersHaveOutcomes, Connecting!OneAtATime, Connecting!OutcomesAreTrue,
       Connecting!InFlight, Connecting!Agrees
  <2>4. PairingPartInv' /\ (Approved' <=> Approved)
    BY <2>2 DEF DesktopInv, PairingPartInv, PairingTypes, EndsAreOfTheDone,
       Pairing!SessionsAreMadeOnce, Pairing!ApprovalsAreReal, Approved
  <2>5. ConnectedIsWitnessed' /\ CardIsTrueOneAtATime'
    BY <2>1, <2>4 DEF DesktopInv, ConnectedIsWitnessed, CardIsTrueOneAtATime, Connecting!Quiet
  <2>6. QED
    BY <2>1, <2>3, <2>4, <2>5 DEF DesktopInv
<1>2. QED
  BY <1>1, ConnectingStep, PairingStep, ElsewhereStep DEF Next

THEOREM DesktopInvariant == Spec => []DesktopInv
  BY InitDesktop, DesktopStep, PTL DEF Spec

\* However presses of any kind overlap, and whoever has written over the card
\* since, CONNECTED is an answer's: the daemon has served a connect, or the
\* phone has approved a code (main.rs 254-335, 380-486).
THEOREM ConnectedIsWitnessedAlways == Spec => []ConnectedIsWitnessed
<1>1. DesktopInv => ConnectedIsWitnessed
  BY DEF DesktopInv
<1>2. QED
  BY <1>1, DesktopInvariant, PTL

\* Connects and disconnects made one at a time leave the card telling the
\* truth, whatever pairings, logins, wipes, checks and autostart do beside them.
THEOREM CardIsTrueOneAtATimeAlways == Spec => []CardIsTrueOneAtATime
<1>1. DesktopInv => CardIsTrueOneAtATime
  BY DEF DesktopInv
<1>2. QED
  BY <1>1, DesktopInvariant, PTL

-----------------------------------------------------------------------------
(* All of the handlers together implement StatusCard.                      *)

ConnectingOut == {o \in Connecting!Ops : Connecting!InFlight(o)}
PairingOut == {g \in Generates : Pairing!InFlight(g)}

LEMMA KindsOfWork ==
  /\ \A c \in Connects : c \in Work /\ Kind[c] = "connect"
  /\ \A d \in Disconnects : d \in Work /\ Kind[d] = "disconnect"
  /\ \A g \in Generates : g \in Work /\ Kind[g] = "pair"
  /\ \A w \in Others : w \in Work /\ Kind[w] = OtherKind[w]
BY DesktopAssumption DEF Work, Kind, Connecting!Ops

LEMMA WorkApart ==
  /\ WorkOut = ConnectingOut \cup PairingOut \cup others
  /\ WorkOut' = ConnectingOut' \cup PairingOut' \cup others'
  /\ \A o \in Connecting!Ops : o \notin Generates /\ o \notin Others
  /\ \A g \in Generates : g \notin Connecting!Ops /\ g \notin Others
  /\ \A w \in Others : w \notin Connecting!Ops /\ w \notin Generates
  /\ ConnectingOut \subseteq Connecting!Ops /\ PairingOut \subseteq Generates
<1>1. /\ WorkOut = ConnectingOut \cup PairingOut \cup others
      /\ WorkOut' = ConnectingOut' \cup PairingOut' \cup others'
  BY Zenon DEF WorkOut, ConnectingOut, PairingOut
<1>2. /\ \A o \in Connecting!Ops : o \notin Generates /\ o \notin Others
      /\ \A g \in Generates : g \notin Connecting!Ops /\ g \notin Others
      /\ \A w \in Others : w \notin Connecting!Ops /\ w \notin Generates
  BY DesktopAssumption DEF Connecting!Ops
<1>3. ConnectingOut \subseteq Connecting!Ops /\ PairingOut \subseteq Generates
  BY Zenon DEF ConnectingOut, PairingOut
<1>4. QED
  BY <1>1, <1>2, <1>3

LEMMA InitMaps == Init => Card!CardInit
<1> SUFFICES ASSUME Init
             PROVE  Card!CardInit
  OBVIOUS
<1>1. status = "IDLE" /\ stage = [o \in Connecting!Ops |-> "idle"]
  BY Zenon DEF Init, Connecting!Init
<1>2. posted = <<>> /\ task = [g \in Generates |-> "idle"]
  BY Zenon DEF Init, Pairing!Init
<1>3. ConnectingOut = {} /\ PairingOut = {}
  BY <1>1, <1>2 DEF ConnectingOut, PairingOut, Connecting!InFlight, Pairing!InFlight
<1>4. WorkOut = others
  BY <1>3, WorkApart
<1>5. others \in {{}} \cup {{w} : w \in {v \in Others : OtherKind[v] = "update"}}
  BY Zenon DEF Init, Elsewhere!CardInit
<1>6. \A w \in Others : w \in Work /\ Kind[w] = OtherKind[w]
  BY KindsOfWork
<1>7. others \in {{}} \cup {{w} : w \in {v \in Work : Kind[v] = "update"}}
  BY <1>5, <1>6
<1>8. QED
  BY Zenon, <1>1, <1>4, <1>7 DEF Card!CardInit

LEMMA CardBegins ==
  ASSUME NEW w \in Work, w \notin WorkOut, WorkOut' = WorkOut \cup {w},
         status' \in Card!Begun[Kind[w]]
  PROVE  Card!CardNext
BY Zenon DEF Card!CardNext, Card!Begin

LEMMA CardEnds ==
  ASSUME NEW w \in Work, w \in WorkOut, WorkOut' = WorkOut \ {w},
         status' \in Card!Ended[Kind[w]] \/ (Kind[w] = "update" /\ status' = status)
  PROVE  Card!CardNext
<1>1. status' \in Card!Ended[Kind[w]] \cup (IF Kind[w] = "update" THEN {status} ELSE {})
  BY Zenon
<1>2. QED
  BY Zenon, <1>1 DEF Card!CardNext, Card!End

LEMMA ConnectingMaps ==
  ASSUME DesktopInv, Connecting!Next, UNCHANGED <<pairingVars, others>>
  PROVE  Card!CardNext \/ UNCHANGED <<status, WorkOut>>
<1>1. PairingOut' = PairingOut /\ others' = others
  BY DEF PairingOut, Pairing!InFlight, pairingVars
<1>2. ConnectingInv /\ others \subseteq Others
  BY DEF DesktopInv
<1>3. ASSUME NEW o \in Connecting!Ops, ConnectRequest(o)
      PROVE  Card!CardNext
  <2>1. /\ status' = IF o \in Connects THEN "CONNECTING..." ELSE "DISCONNECTING..."
        /\ ~Connecting!InFlight(o)
        /\ \A p \in Connecting!Ops : Connecting!InFlight(p)' <=> p = o \/ Connecting!InFlight(p)
    BY <1>2, <1>3, RequestKeeps
  <2>2. o \notin ConnectingOut /\ ConnectingOut' = ConnectingOut \cup {o}
    BY <2>1 DEF ConnectingOut
  <2>3. o \notin WorkOut /\ WorkOut' = WorkOut \cup {o}
    BY <1>1, <1>2, <2>2, WorkApart
  <2>4. o \in Work /\ status' \in Card!Begun[Kind[o]]
    BY <2>1, KindsOfWork, BegunOfKinds DEF Connecting!Ops
  <2>5. QED
    BY <2>3, <2>4, CardBegins
<1>4. ASSUME NEW o \in Connecting!Ops, Connecting!Closure(o)
      PROVE  Card!CardNext
  <2>1. /\ Connecting!InFlight(o)
        /\ \A p \in Connecting!Ops : Connecting!InFlight(p)' <=> Connecting!InFlight(p) /\ p # o
        /\ o \in Connects => status' \in {"CONNECTED", "CONNECT FAILED", "DAEMON UNREACHABLE"}
        /\ o \in Disconnects => status' \in {"DISCONNECTED", "DISCONNECT FAILED",
              "DISCONNECT REFUSED", "DISCONNECTED (daemon offline)"}
    BY <1>2, <1>4, ClosureKeeps
  <2>2. o \in ConnectingOut /\ ConnectingOut' = ConnectingOut \ {o}
    BY <2>1 DEF ConnectingOut
  <2>3. o \in WorkOut /\ WorkOut' = WorkOut \ {o}
    BY <1>1, <1>2, <2>2, WorkApart
  <2>4. o \in Work /\ status' \in Card!Ended[Kind[o]]
    BY <2>1, KindsOfWork, EndsOfKinds DEF Connecting!Ops
  <2>5. QED
    BY <2>3, <2>4, CardEnds
<1>5. ASSUME status' = status,
             \A p \in Connecting!Ops : Connecting!InFlight(p)' <=> Connecting!InFlight(p)
      PROVE  UNCHANGED <<status, WorkOut>>
  <2>1. ConnectingOut' = ConnectingOut
    BY <1>5 DEF ConnectingOut
  <2>2. QED
    BY <1>1, <1>5, <2>1, WorkApart
<1>6. ASSUME NEW o \in Connecting!Ops, Connecting!Task(o)
      PROVE  UNCHANGED <<status, WorkOut>>
  BY <1>2, <1>5, <1>6, TaskKeeps
<1>7. CASE DaemonUnasked
  BY <1>2, <1>5, <1>7, DaemonKeeps
<1>8. QED
  BY <1>3, <1>4, <1>6, <1>7 DEF Connecting!Next, Connecting!Ops, ConnectRequest, DaemonUnasked

LEMMA PairingMaps ==
  ASSUME DesktopInv, Pairing!Next, UNCHANGED <<connectingVars, others>>
  PROVE  Card!CardNext \/ UNCHANGED <<status, WorkOut>>
<1>1. ConnectingOut' = ConnectingOut /\ others' = others
  BY DEF ConnectingOut, Connecting!InFlight, connectingVars
<1>2. others \subseteq Others
  BY DEF DesktopInv
<1>3. CASE PairingBegins
  <2>1. PICK g \in Generates :
          /\ ~Pairing!InFlight(g)
          /\ \A h \in Generates : Pairing!InFlight(h)' <=> Pairing!InFlight(h) \/ h = g
    BY <1>3 DEF PairingBegins
  <2>2. g \notin PairingOut /\ PairingOut' = PairingOut \cup {g}
    BY <2>1 DEF PairingOut
  <2>3. g \notin WorkOut /\ WorkOut' = WorkOut \cup {g}
    BY <1>1, <1>2, <2>2, WorkApart
  <2>4. g \in Work /\ status' \in Card!Begun[Kind[g]]
    BY <1>3, KindsOfWork, BegunOfKinds DEF PairingBegins
  <2>5. QED
    BY <2>3, <2>4, CardBegins
<1>4. CASE PairingEnds
  <2>1. PICK g \in Generates :
          /\ Pairing!InFlight(g)
          /\ \A h \in Generates : Pairing!InFlight(h)' <=> Pairing!InFlight(h) /\ h # g
    BY <1>4 DEF PairingEnds
  <2>2. g \in PairingOut /\ PairingOut' = PairingOut \ {g}
    BY <2>1 DEF PairingOut
  <2>3. g \in WorkOut /\ WorkOut' = WorkOut \ {g}
    BY <1>1, <1>2, <2>2, WorkApart
  <2>4. g \in Work /\ status' \in Card!Ended[Kind[g]]
    BY <1>4, KindsOfWork, EndsOfKinds DEF PairingEnds
  <2>5. QED
    BY <2>3, <2>4, CardEnds
<1>5. CASE PairingSaysNothing
  <2>1. PairingOut' = PairingOut /\ status' = status
    BY <1>5 DEF PairingSaysNothing, PairingOut
  <2>2. QED
    BY <1>1, <2>1, WorkApart
<1>6. QED
  BY <1>3, <1>4, <1>5, PairingMoves DEF DesktopInv

LEMMA SameTables ==
  /\ Elsewhere!Begun = Card!Begun
  /\ Elsewhere!Ended = Card!Ended
  /\ Elsewhere!AutostartLabels = Card!AutostartLabels
BY Zenon DEF Elsewhere!Begun, Card!Begun, Elsewhere!Ended, Card!Ended,
   Elsewhere!AutostartLabels, Card!AutostartLabels

LEMMA ElsewhereMaps ==
  ASSUME DesktopInv, Elsewhere!CardNext, UNCHANGED <<connectingVars, pairingVars>>
  PROVE  Card!CardNext
<1>1. ConnectingOut' = ConnectingOut /\ PairingOut' = PairingOut
  BY DEF ConnectingOut, PairingOut, Connecting!InFlight, Pairing!InFlight, connectingVars,
     pairingVars
<1>2. ASSUME NEW w \in Others, Elsewhere!Begin(w)
      PROVE  Card!CardNext
  <2>1. w \notin others /\ others' = others \cup {w} /\ status' \in Card!Begun[OtherKind[w]]
    BY Zenon, <1>2, SameTables DEF Elsewhere!Begin
  <2>2. w \notin WorkOut /\ WorkOut' = WorkOut \cup {w}
    BY <1>1, <2>1, WorkApart
  <2>3. w \in Work /\ Kind[w] = OtherKind[w]
    BY KindsOfWork
  <2>4. QED
    BY Zenon, <2>1, <2>2, <2>3, CardBegins
<1>3. ASSUME NEW w \in Others, Elsewhere!End(w)
      PROVE  Card!CardNext
  <2>1. /\ w \in others /\ others' = others \ {w}
        /\ status' \in Card!Ended[OtherKind[w]] \/ (OtherKind[w] = "update" /\ status' = status)
    BY Zenon, <1>3, SameTables DEF Elsewhere!End
  <2>2. w \in WorkOut /\ WorkOut' = WorkOut \ {w}
    BY <1>1, <2>1, WorkApart
  <2>3. w \in Work /\ Kind[w] = OtherKind[w]
    BY KindsOfWork
  <2>4. QED
    BY Zenon, <2>1, <2>2, <2>3, CardEnds
<1>4. CASE Elsewhere!Report
  <2>1. status' \in Card!AutostartLabels /\ others' = others
    BY Zenon, <1>4, SameTables DEF Elsewhere!Report
  <2>2. WorkOut' = WorkOut
    BY <1>1, <2>1, WorkApart
  <2>3. QED
    BY Zenon, <2>1, <2>2 DEF Card!CardNext, Card!Report
<1>5. QED
  BY Zenon, <1>2, <1>3, <1>4 DEF Elsewhere!CardNext

LEMMA StepMaps == DesktopInv /\ [Next]_vars => [Card!CardNext]_Card!cardVars
<1> SUFFICES ASSUME DesktopInv, [Next]_vars
             PROVE  Card!CardNext \/ UNCHANGED <<status, WorkOut>>
  BY DEF Card!cardVars
<1>1. CASE UNCHANGED vars
  <2>1. UNCHANGED <<status, stage, task, posted, others>>
    BY <1>1 DEF vars, connectingVars, pairingVars
  <2>2. ConnectingOut' = ConnectingOut /\ PairingOut' = PairingOut
    BY <2>1 DEF ConnectingOut, PairingOut, Connecting!InFlight, Pairing!InFlight
  <2>3. QED
    BY <2>1, <2>2, WorkApart
<1>2. QED
  BY <1>1, ConnectingMaps, PairingMaps, ElsewhereMaps DEF Next

\* However many pieces of work of whatever handlers overlap, each of them
\* writes the card as StatusCard promises: a label of work when it begins, and
\* one of its own ends when its last closure runs (main.rs 259-989).
THEOREM DesktopImplementsCard == Spec => ImplementsCard
  BY InitMaps, StepMaps, DesktopInvariant, PTL DEF Spec, ImplementsCard, Card!CardSafety
-----------------------------------------------------------------------------
(* The panel in the company of the other writers: PairingProofs speaks of   *)
(* the same variables, and what it proves of the panel depends on no card.  *)
Panels == INSTANCE PairingProofs

LEMMA PanelsAssumption == Panels!PairingAssumption
BY DesktopAssumption DEF Panels!PairingAssumption

\* Both instances name the same steps.
LEMMA SamePanelSteps ==
  ASSUME NEW g
  PROVE  /\ Pairing!ClickGenerate(g) => Panels!ClickGenerate(g)
         /\ Pairing!Task(g) => Panels!Task(g)
         /\ Pairing!PhoneApproves(g) => Panels!PhoneApproves(g)
<1> USE DEF Pairing!Post, Panels!Post, Pairing!panel, Panels!panel, Pairing!world, Panels!world
<1>1. Pairing!ClickGenerate(g) => Panels!ClickGenerate(g)
  BY DEF Pairing!ClickGenerate, Panels!ClickGenerate
<1>2. Pairing!Generated(g) => Panels!Generated(g)
  BY DEF Pairing!Generated, Panels!Generated
<1>3. Pairing!GenerateFails(g) => Panels!GenerateFails(g)
  BY DEF Pairing!GenerateFails, Panels!GenerateFails
<1>4. Pairing!PollActivated(g) => Panels!PollActivated(g)
  BY DEF Pairing!PollActivated, Panels!PollActivated
<1>5. Pairing!PollNothing(g) => Panels!PollNothing(g)
  BY DEF Pairing!PollNothing, Panels!PollNothing
<1>6. Pairing!PollsRunOut(g) => Panels!PollsRunOut(g)
  BY DEF Pairing!PollsRunOut, Panels!PollsRunOut
<1>7. Pairing!PhoneApproves(g) => Panels!PhoneApproves(g)
  BY DEF Pairing!PhoneApproves, Panels!PhoneApproves
<1>8. QED
  BY <1>1, <1>2, <1>3, <1>4, <1>5, <1>6, <1>7 DEF Pairing!Task, Panels!Task

LEMMA SamePanelClosures ==
  /\ Pairing!ClickCancel => Panels!ClickCancel
  /\ Pairing!PhoneScans => Panels!PhoneScans
  /\ Pairing!RunClosure => Panels!RunClosure
<1> USE DEF Pairing!Post, Panels!Post, Pairing!panel, Panels!panel, Pairing!world, Panels!world
<1>1. Pairing!ClickCancel => Panels!ClickCancel
  BY DEF Pairing!ClickCancel, Panels!ClickCancel
<1>2. Pairing!PhoneScans => Panels!PhoneScans
  BY DEF Pairing!PhoneScans, Panels!PhoneScans
<1>3. Pairing!RunClosure => Panels!RunClosure
  BY DEF Pairing!RunClosure, Panels!RunClosure, Pairing!ShowToken, Panels!ShowToken,
     Pairing!ShowActivated, Panels!ShowActivated, Pairing!ShowExpired, Panels!ShowExpired,
     Pairing!ShowFailed, Panels!ShowFailed, Pairing!ShowCancelled, Panels!ShowCancelled
<1>4. QED
  BY <1>1, <1>2, <1>3

LEMMA PanelElsewhere ==
  ASSUME Panels!PanelInv, UNCHANGED pairingVars
  PROVE  Panels!PanelInv'
<1>1. Panels!PanelTypes'
  BY DEF Panels!PanelInv, Panels!PanelTypes, pairingVars
<1>2. Panels!SessionsAreMadeOnce'
  BY DEF Panels!PanelInv, Panels!SessionsAreMadeOnce, pairingVars
<1>3. Panels!EndsFollowTokens' /\ Panels!ApprovalsAreReal'
  BY DEF Panels!PanelInv, Panels!EndsFollowTokens, Panels!ApprovalsAreReal, pairingVars
<1>4. Panels!WaitingIsPolled'
  BY DEF Panels!PanelInv, Panels!WaitingIsPolled, Panels!EndIsPosted, pairingVars
<1>5. QED
  BY <1>1, <1>2, <1>3, <1>4 DEF Panels!PanelInv

\* Whoever else writes the card: a panel that waits is polled for (main.rs
\* 400-470).
THEOREM PanelIsPolledForAlways ==
  Spec => []PanelIsPolledFor
<1>1. Init => Panels!PanelInv
  <2>1. Init => Panels!Init
    BY DEF Init, Pairing!Init, Panels!Init
  <2>2. QED
    BY <2>1, Panels!PanelInit, PanelsAssumption
<1>2. Panels!PanelInv /\ [Next]_vars => Panels!PanelInv'
  <2> SUFFICES ASSUME Panels!PanelInv, [Next]_vars
               PROVE  Panels!PanelInv'
    OBVIOUS
  <2>1. CASE Pairing!Next
    <3>1. Panels!Next
      BY <2>1, SamePanelSteps, SamePanelClosures DEF Pairing!Next, Panels!Next
    <3>2. QED
      BY <3>1, Panels!PanelStep, PanelsAssumption
  <2>2. CASE UNCHANGED pairingVars
    BY <2>2, PanelElsewhere
  <2>3. QED
    BY <2>1, <2>2 DEF Next, vars
<1>3. Panels!PanelInv => PanelIsPolledFor
  BY DEF PanelIsPolledFor, Panels!PanelInv, Panels!WaitingIsPolled, Panels!EndIsPosted,
     Pairing!WaitingIsPolled, Pairing!EndIsPosted
<1>4. QED
  BY <1>1, <1>2, <1>3, PTL DEF Spec
=============================================================================
