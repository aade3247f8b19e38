--------------------------- MODULE PairingProofs ---------------------------
(***************************************************************************)
(* Proofs about pairing, for any number of presses, polls and cancels.     *)
(***************************************************************************)
EXTENDS Pairing, SequenceTheorems, TLAPS

LEMMA PanelInit == Init => PanelInv
<1> SUFFICES ASSUME Init
             PROVE  PanelInv
  OBVIOUS
<1> USE PairingAssumption DEF Init
<1>1. PanelTypes
  <2>1. posted \in Seq(Closure)
    BY EmptySeq
  <2>2. /\ cancels \in 0..MaxCancels
        /\ polls \in [Generates -> 0..MaxPolls]
    OBVIOUS
  <2>3. QED
    BY <2>1, <2>2 DEF PanelTypes
<1>2. Len(posted) = 0
  OBVIOUS
<1>3. EndsFollowTokens /\ ApprovalsAreReal /\ SessionsAreMadeOnce
  BY <1>2 DEF EndsFollowTokens, ApprovalsAreReal, SessionsAreMadeOnce
<1>4. WaitingIsPolled
  BY DEF WaitingIsPolled
<1>5. QED
  BY <1>1, <1>3, <1>4 DEF PanelInv

\* What Post does to the queue.
LEMMA PostAppends ==
  ASSUME PanelTypes, NEW k, NEW g, Post(k, g), [kind |-> k, of |-> g] \in Closure
  PROVE  /\ posted' \in Seq(Closure)
         /\ Len(posted) \in Nat
         /\ Len(posted') = Len(posted) + 1
         /\ \A i \in 1..Len(posted) : posted'[i] = posted[i]
         /\ posted'[Len(posted) + 1].kind = k
         /\ posted'[Len(posted) + 1].of = g
         /\ \A i \in 1..Len(posted') : i \in 1..Len(posted) \/ i = Len(posted) + 1
<1>1. posted \in Seq(Closure)
  BY DEF PanelTypes
<1> HIDE DEF Closure
<1>2. /\ posted' \in Seq(Closure)
      /\ Len(posted') = Len(posted) + 1
      /\ \A i \in 1..Len(posted) : posted'[i] = posted[i]
      /\ posted'[Len(posted) + 1] = [kind |-> k, of |-> g]
  BY <1>1, AppendProperties DEF Post
<1>3. QED
  BY <1>1, <1>2

\* What taking a closure does to it.
LEMMA TakingShifts ==
  ASSUME PanelTypes, posted # <<>>, posted' = Tail(posted)
  PROVE  /\ posted' \in Seq(Closure)
         /\ Len(posted) \in Nat \ {0}
         /\ Len(posted') = Len(posted) - 1
         /\ \A i \in 1..Len(posted') : posted'[i] = posted[i + 1]
         /\ Head(posted) = posted[1]
         /\ Head(posted) \in Closure
<1>1. posted \in Seq(Closure)
  BY DEF PanelTypes
<1>2. /\ Head(posted) \in Closure
      /\ Tail(posted) \in Seq(Closure)
      /\ Len(Tail(posted)) = Len(posted) - 1
      /\ \A i \in 1..Len(Tail(posted)) : Tail(posted)[i] = posted[i + 1]
  BY <1>1, HeadTailProperties
<1>3. Len(posted) \in Nat \ {0}
  BY <1>1
<1>4. Head(posted) = posted[1]
  BY <1>1
<1>5. QED
  BY <1>2, <1>3, <1>4

-----------------------------------------------------------------------------
\* Posting keeps the order of the queue if it posts a token for a task that
\* polls, or how a task ended for a task that no longer does.
LEMMA PostingKeepsTheOrder ==
  ASSUME PanelTypes, EndsFollowTokens, NEW k, NEW g, Post(k, g), [kind |-> k, of |-> g] \in Closure,
         \A h \in Generates : task[h] \in {"polling", "done"} => task'[h] \in {"polling", "done"},
         \A h \in Generates : task[h] = "polling" =>
           task'[h] = "polling" \/ (k \in {"activated", "expired"} /\ g = h),
         k = "token" => task'[g] = "polling"
  PROVE  EndsFollowTokens'
<1>1. /\ posted' \in Seq(Closure)
      /\ Len(posted) \in Nat
      /\ Len(posted') = Len(posted) + 1
      /\ \A i \in 1..Len(posted) : posted'[i] = posted[i]
      /\ posted'[Len(posted) + 1].kind = k
      /\ posted'[Len(posted) + 1].of = g
      /\ \A i \in 1..Len(posted') : i \in 1..Len(posted) \/ i = Len(posted) + 1
  BY PostAppends
<1>2. SUFFICES ASSUME NEW i \in 1..Len(posted'), posted'[i].kind = "token"
               PROVE  /\ task'[posted'[i].of] \in {"polling", "done"}
                      /\ \/ task'[posted'[i].of] = "polling"
                         \/ \E j \in (i + 1)..Len(posted') :
                              /\ posted'[j].kind \in {"activated", "expired"}
                              /\ posted'[j].of = posted'[i].of
  BY DEF EndsFollowTokens
<1>3. CASE i = Len(posted) + 1
  BY <1>1, <1>2, <1>3
<1>4. CASE i \in 1..Len(posted)
  <2>1. PICK h \in Generates : posted'[i] = posted[i] /\ posted[i].of = h
    <3>1. posted[i] \in Closure
      <4>1. posted \in Seq(Closure)
        BY DEF PanelTypes
      <4>2. QED
        BY <4>1, <1>4, ElementOfSeq
    <3>2. QED
      BY <3>1, <1>1, <1>2, <1>4 DEF Closure
  <2>2. /\ task[h] \in {"polling", "done"}
        /\ task[h] = "polling" \/ \E j \in (i + 1)..Len(posted) :
             posted[j].kind \in {"activated", "expired"} /\ posted[j].of = h
    BY <1>2, <1>4, <2>1 DEF EndsFollowTokens
  <2>3. CASE task'[h] = "polling"
    BY <2>1, <2>3
  <2>4. CASE task[h] = "polling" /\ task'[h] # "polling"
    <3>1. /\ posted'[Len(posted) + 1].kind \in {"activated", "expired"}
          /\ posted'[Len(posted) + 1].of = h
      BY <2>4, <1>1
    <3>2. Len(posted) + 1 \in (i + 1)..Len(posted')
      BY <1>1, <1>4
    <3>3. QED
      BY <2>1, <2>2, <3>1, <3>2
  <2>5. CASE task[h] # "polling"
    <3>1. PICK j \in (i + 1)..Len(posted) :
            posted[j].kind \in {"activated", "expired"} /\ posted[j].of = h
      BY <2>2, <2>5
    <3>2. posted'[j] = posted[j] /\ j \in (i + 1)..Len(posted')
      BY <1>1, <1>4
    <3>3. QED
      BY <2>1, <2>2, <3>1, <3>2
  <2>6. QED
    BY <2>3, <2>4, <2>5
<1>5. QED
  BY <1>1, <1>3, <1>4

\* So does a step that posts nothing and moves no task that polls or is done.
LEMMA QuietStepsKeepTheOrder ==
  ASSUME PanelTypes, EndsFollowTokens, posted' = posted,
         \A h \in Generates : task[h] \in {"polling", "done"} => task'[h] = task[h]
  PROVE  EndsFollowTokens'
<1>1. SUFFICES ASSUME NEW i \in 1..Len(posted), posted[i].kind = "token"
               PROVE  /\ task'[posted[i].of] \in {"polling", "done"}
                      /\ \/ task'[posted[i].of] = "polling"
                         \/ \E j \in (i + 1)..Len(posted) :
                              /\ posted[j].kind \in {"activated", "expired"}
                              /\ posted[j].of = posted[i].of
  BY DEF EndsFollowTokens
<1>2. posted[i] \in Closure
  <2>1. posted \in Seq(Closure)
    BY DEF PanelTypes
  <2>2. QED
    BY <2>1, ElementOfSeq
<1>3. posted[i].of \in Generates
  BY <1>1, <1>2 DEF Closure
<1>4. QED
  BY <1>1, <1>3 DEF EndsFollowTokens

\* Posting an activation the daemon reported keeps approvals real.
LEMMA PostingKeepsApprovals ==
  ASSUME PanelTypes, ApprovalsAreReal, NEW k, NEW g, Post(k, g),
         [kind |-> k, of |-> g] \in Closure, scanned' = scanned,
         \A h \in Generates : session'[h] = "activated" <=> session[h] = "activated",
         k = "activated" => session[g] = "activated"
  PROVE  ApprovalsAreReal'
<1>1. /\ posted' \in Seq(Closure)
      /\ Len(posted) \in Nat
      /\ \A i \in 1..Len(posted) : posted'[i] = posted[i]
      /\ posted'[Len(posted) + 1].kind = k
      /\ posted'[Len(posted) + 1].of = g
      /\ \A i \in 1..Len(posted') : i \in 1..Len(posted) \/ i = Len(posted) + 1
  BY PostAppends
<1>2. \A i \in 1..Len(posted') : posted'[i] \in Closure
  BY <1>1
<1>3. \A i \in 1..Len(posted') : posted'[i].kind = "activated" => posted'[i].of \in Generates
  BY <1>2 DEF Closure
<1>4. QED
  BY <1>1, <1>3 DEF ApprovalsAreReal

\* A panel that waits goes on being polled for, or its end stays in the queue.
LEMMA PostingKeepsThePolls ==
  ASSUME PanelTypes, WaitingIsPolled, NEW k, NEW g, Post(k, g), [kind |-> k, of |-> g] \in Closure,
         UNCHANGED panel,
         \A h \in Generates : task[h] = "polling" =>
           task'[h] = "polling" \/ (k \in {"activated", "expired"} /\ g = h)
  PROVE  WaitingIsPolled'
<1>1. /\ Len(posted) \in Nat
      /\ Len(posted') = Len(posted) + 1
      /\ \A i \in 1..Len(posted) : posted'[i] = posted[i]
      /\ posted'[Len(posted) + 1].kind = k
      /\ posted'[Len(posted) + 1].of = g
  BY PostAppends
<1>2. SUFFICES ASSUME pairing_waiting
               PROVE  /\ pairing_token # NoToken
                      /\ \/ task'[pairing_token] = "polling"
                         \/ \E i \in 1..Len(posted') :
                              /\ posted'[i].kind \in {"activated", "expired"}
                              /\ posted'[i].of = pairing_token
  BY DEF WaitingIsPolled, EndIsPosted, panel
<1>3. pairing_token # NoToken /\ pairing_token \in Generates
  BY <1>2 DEF WaitingIsPolled, PanelTypes
<1>4. CASE task[pairing_token] = "polling"
  <2>1. Len(posted) + 1 \in 1..Len(posted')
    BY <1>1
  <2>2. QED
    BY <1>1, <1>3, <1>4, <2>1
<1>5. CASE EndIsPosted(pairing_token)
  <2>1. PICK i \in 1..Len(posted) :
          posted[i].kind \in {"activated", "expired"} /\ posted[i].of = pairing_token
    BY <1>5 DEF EndIsPosted
  <2>2. i \in 1..Len(posted') /\ posted'[i] = posted[i]
    BY <1>1
  <2>3. QED
    BY <1>3, <2>1, <2>2
<1>6. QED
  BY <1>2, <1>4, <1>5 DEF WaitingIsPolled

\* The five tasks and handlers that post, in one.
LEMMA PostingKeeps ==
  ASSUME PanelInv, NEW k, NEW g, Post(k, g), [kind |-> k, of |-> g] \in Closure,
         PanelTypes', SessionsAreMadeOnce',
         UNCHANGED <<panel, scanned>>,
         \A h \in Generates : task[h] \in {"polling", "done"} => task'[h] \in {"polling", "done"},
         \A h \in Generates : task[h] = "polling" =>
           task'[h] = "polling" \/ (k \in {"activated", "expired"} /\ g = h),
         k = "token" => task'[g] = "polling",
         \A h \in Generates : session'[h] = "activated" <=> session[h] = "activated",
         k = "activated" => session[g] = "activated"
  PROVE  PanelInv'
<1>1. EndsFollowTokens'
  BY PostingKeepsTheOrder DEF PanelInv
<1>2. ApprovalsAreReal'
  BY PostingKeepsApprovals DEF PanelInv
<1>3. WaitingIsPolled'
  BY PostingKeepsThePolls DEF PanelInv
<1>4. QED
  BY <1>1, <1>2, <1>3 DEF PanelInv

-----------------------------------------------------------------------------
\* The closure the loop takes keeps the invariant.
LEMMA RunningKeeps ==
  ASSUME PanelInv, RunClosure
  PROVE  PanelInv'
<1> USE DEF PanelInv
<1>1. /\ posted # <<>> /\ posted' = Tail(posted)
      /\ task' = task /\ polls' = polls /\ session' = session /\ scanned' = scanned
      /\ cancels' = cancels
  BY DEF RunClosure, world
<1>2. /\ posted' \in Seq(Closure)
      /\ Len(posted) \in Nat \ {0}
      /\ Len(posted') = Len(posted) - 1
      /\ \A i \in 1..Len(posted') : posted'[i] = posted[i + 1]
      /\ Head(posted) = posted[1]
      /\ Head(posted) \in Closure
  BY <1>1, TakingShifts
<1> DEFINE head == posted[1]
<1>3. \/ head.kind = "token" /\ head.of \in Generates /\ ShowToken(head.of)
      \/ head.kind = "activated" /\ head.of \in Generates /\ ShowActivated
      \/ head.kind = "expired" /\ ShowExpired
      \/ head.kind = "failed" /\ ShowFailed
      \/ head.kind = "cancel" /\ ShowCancelled
  BY <1>2 DEF RunClosure, Closure
<1> HIDE DEF head
<1>4. PanelTypes'
  <2>1. CASE head.kind = "token" /\ head.of \in Generates /\ ShowToken(head.of)
    BY <1>1, <1>2, <2>1 DEF PanelTypes, ShowToken
  <2>2. CASE ShowActivated
    BY <1>1, <1>2, <2>2 DEF PanelTypes, ShowActivated
  <2>3. CASE ShowExpired
    BY <1>1, <1>2, <2>3 DEF PanelTypes, ShowExpired
  <2>4. CASE ShowFailed
    BY <1>1, <1>2, <2>4 DEF PanelTypes, ShowFailed, panel
  <2>5. CASE ShowCancelled
    BY <1>1, <1>2, <2>5 DEF PanelTypes, ShowCancelled
  <2>6. QED
    BY <1>3, <2>1, <2>2, <2>3, <2>4, <2>5
<1>5. EndsFollowTokens'
  <2>1. SUFFICES ASSUME NEW i \in 1..Len(posted'), posted'[i].kind = "token"
                 PROVE  /\ task[posted'[i].of] \in {"polling", "done"}
                        /\ \/ task[posted'[i].of] = "polling"
                           \/ \E j \in (i + 1)..Len(posted') :
                                /\ posted'[j].kind \in {"activated", "expired"}
                                /\ posted'[j].of = posted'[i].of
    BY <1>1 DEF EndsFollowTokens
  <2>2. i + 1 \in 1..Len(posted) /\ posted'[i] = posted[i + 1]
    BY <1>2
  <2>3. /\ task[posted'[i].of] \in {"polling", "done"}
        /\ \/ task[posted'[i].of] = "polling"
           \/ \E j \in (i + 2)..Len(posted) :
                posted[j].kind \in {"activated", "expired"} /\ posted[j].of = posted'[i].of
    BY <2>1, <2>2 DEF EndsFollowTokens
  <2>4. \A j \in (i + 2)..Len(posted) :
          j - 1 \in (i + 1)..Len(posted') /\ posted'[j - 1] = posted[j]
    BY <1>2
  <2>5. QED
    BY <2>3, <2>4
<1>6. ApprovalsAreReal' /\ SessionsAreMadeOnce'
  <2>1. \A i \in 1..Len(posted') : i + 1 \in 1..Len(posted)
    BY <1>2
  <2>2. QED
    BY <1>1, <1>2, <2>1 DEF ApprovalsAreReal, SessionsAreMadeOnce
<1>7. WaitingIsPolled'
  <2>1. CASE head.kind = "token" /\ head.of \in Generates /\ ShowToken(head.of)
    <3>1. pairing_token' = head.of /\ head.of # NoToken
      BY <2>1, PairingAssumption DEF ShowToken
    <3>2. 1 \in 1..Len(posted)
      BY <1>2
    <3>3. task[head.of] = "polling" \/ \E j \in 2..Len(posted) :
            posted[j].kind \in {"activated", "expired"} /\ posted[j].of = head.of
      BY <2>1, <3>2 DEF EndsFollowTokens, head
    <3>4. \A j \in 2..Len(posted) : j - 1 \in 1..Len(posted') /\ posted'[j - 1] = posted[j]
      BY <1>2
    <3>5. task'[head.of] = "polling" \/ \E j \in 1..Len(posted') :
            posted'[j].kind \in {"activated", "expired"} /\ posted'[j].of = head.of
      BY <3>3, <3>4, <1>1
    <3>6. QED
      BY <3>1, <3>5 DEF WaitingIsPolled, EndIsPosted
  <2>2. CASE ShowActivated \/ ShowExpired \/ ShowCancelled
    BY <2>2 DEF WaitingIsPolled, ShowActivated, ShowExpired, ShowCancelled
  <2>3. CASE head.kind = "failed" /\ ShowFailed
    <3>1. SUFFICES ASSUME pairing_waiting
                   PROVE  /\ pairing_token # NoToken
                          /\ \/ task[pairing_token] = "polling"
                             \/ \E j \in 1..Len(posted') :
                                  /\ posted'[j].kind \in {"activated", "expired"}
                                  /\ posted'[j].of = pairing_token
      BY <1>1, <2>3 DEF WaitingIsPolled, EndIsPosted, ShowFailed, panel
    <3>2. /\ pairing_token # NoToken
          /\ \/ task[pairing_token] = "polling"
             \/ \E j \in 1..Len(posted) :
                  posted[j].kind \in {"activated", "expired"} /\ posted[j].of = pairing_token
      BY <3>1 DEF WaitingIsPolled, EndIsPosted
    <3>3. \A j \in 1..Len(posted) : posted[j].kind \in {"activated", "expired"} =>
            j - 1 \in 1..Len(posted') /\ posted'[j - 1] = posted[j]
      BY <1>2, <2>3 DEF head
    <3>4. QED
      BY <3>2, <3>3
  <2>4. QED
    BY <1>3, <2>1, <2>2, <2>3
<1>8. QED
  BY <1>4, <1>5, <1>6, <1>7

-----------------------------------------------------------------------------
\* A step that posts nothing and leaves the panel alone keeps the
\* invariant, if it ends no poll and takes back no approval.
LEMMA QuietStepsKeep ==
  ASSUME PanelInv, PanelTypes', SessionsAreMadeOnce',
         UNCHANGED <<panel, posted>>,
         \A h \in Generates : task[h] \in {"polling", "done"} => task'[h] = task[h],
         \A h \in Generates : session[h] = "activated" => session'[h] = "activated",
         \A h \in Generates : session'[h] = "activated" => h \in scanned',
         scanned \subseteq scanned'
  PROVE  PanelInv'
<1> USE DEF PanelInv
<1>1. EndsFollowTokens'
  BY QuietStepsKeepTheOrder
<1>2. ApprovalsAreReal'
  <2>1. posted \in Seq(Closure)
    BY DEF PanelTypes
  <2>2. \A i \in 1..Len(posted) : posted[i] \in Closure
    BY <2>1, ElementOfSeq
  <2>3. \A i \in 1..Len(posted) : posted[i].kind = "activated" => posted[i].of \in Generates
    BY <2>2 DEF Closure
  <2>4. QED
    BY <2>3 DEF ApprovalsAreReal
<1>3. WaitingIsPolled'
  <2>1. SUFFICES ASSUME pairing_waiting
                 PROVE  /\ pairing_token # NoToken
                        /\ task'[pairing_token] = "polling" \/ EndIsPosted(pairing_token)
    BY DEF WaitingIsPolled, EndIsPosted, panel
  <2>2. QED
    BY <2>1 DEF WaitingIsPolled, PanelTypes
<1>4. QED
  BY <1>1, <1>2, <1>3

LEMMA PanelStep == PanelInv /\ [Next]_vars => PanelInv'
<1> SUFFICES ASSUME PanelInv, [Next]_vars
             PROVE  PanelInv'
  OBVIOUS
<1>0. PanelTypes /\ SessionsAreMadeOnce /\ ApprovalsAreReal
  BY DEF PanelInv
<1>1. ASSUME NEW g \in Generates, ClickGenerate(g)
      PROVE  PanelInv'
  <2>1. PanelTypes' /\ SessionsAreMadeOnce'
    BY <1>0, <1>1 DEF PanelTypes, SessionsAreMadeOnce, ClickGenerate, panel, world
  <2>2. QED
    BY <1>0, <1>1, <2>1, QuietStepsKeep DEF PanelTypes, ApprovalsAreReal, ClickGenerate, world
<1>2. ASSUME NEW g \in Generates, Generated(g)
      PROVE  PanelInv'
  <2>1. [kind |-> "token", of |-> g] \in Closure
    BY DEF Closure
  <2>2. posted' \in Seq(Closure)
    BY <1>0, <1>2, <2>1, PostAppends DEF Generated
  <2>3. PanelTypes' /\ SessionsAreMadeOnce'
    BY <1>0, <1>2, <2>2 DEF PanelTypes, SessionsAreMadeOnce, Generated, panel
  <2>4. /\ \A h \in Generates : task[h] \in {"polling", "done"} => task'[h] = task[h]
        /\ task'[g] = "polling"
        /\ \A h \in Generates : session'[h] = "activated" <=> session[h] = "activated"
        /\ UNCHANGED <<status, panel, scanned>> /\ Post("token", g)
    BY <1>0, <1>2 DEF PanelTypes, SessionsAreMadeOnce, Generated
  <2>5. QED
    BY <2>1, <2>3, <2>4, PostingKeeps
<1>3. ASSUME NEW g \in Generates, GenerateFails(g)
      PROVE  PanelInv'
  <2>1. [kind |-> "failed", of |-> g] \in Closure
    BY DEF Closure
  <2>2. posted' \in Seq(Closure)
    BY <1>0, <1>3, <2>1, PostAppends DEF GenerateFails
  <2>3. PanelTypes' /\ SessionsAreMadeOnce'
    BY <1>0, <1>3, <2>2 DEF PanelTypes, SessionsAreMadeOnce, GenerateFails, panel, world
  <2>4. /\ \A h \in Generates : task[h] \in {"polling", "done"} => task'[h] = task[h]
        /\ session' = session
        /\ UNCHANGED <<status, panel, scanned>> /\ Post("failed", g)
    BY <1>0, <1>3 DEF PanelTypes, GenerateFails, world
  <2>5. QED
    BY <2>1, <2>3, <2>4, PostingKeeps
<1>4. ASSUME NEW g \in Generates, PollActivated(g)
      PROVE  PanelInv'
  <2>1. [kind |-> "activated", of |-> g] \in Closure
    BY DEF Closure
  <2>2. posted' \in Seq(Closure)
    BY <1>0, <1>4, <2>1, PostAppends DEF PollActivated
  <2>3. PanelTypes' /\ SessionsAreMadeOnce'
    BY <1>0, <1>4, <2>2 DEF PanelTypes, SessionsAreMadeOnce, PollActivated, panel, world
  <2>4. /\ \A h \in Generates : h # g => task'[h] = task[h]
        /\ task'[g] = "done"
        /\ session' = session /\ session[g] = "activated"
        /\ UNCHANGED <<status, panel, scanned>> /\ Post("activated", g)
    BY <1>0, <1>4 DEF PanelTypes, PollActivated, world
  <2>5. QED
    BY <2>1, <2>3, <2>4, PostingKeeps
<1>5. ASSUME NEW g \in Generates, PollNothing(g)
      PROVE  PanelInv'
  <2>1. polls' \in [Generates -> 0..MaxPolls]
    <3>1. /\ polls \in [Generates -> 0..MaxPolls] /\ polls[g] < MaxPolls
          /\ polls' = [polls EXCEPT ![g] = @ + 1]
      BY <1>0, <1>5 DEF PanelTypes, PollNothing
    <3>2. polls[g] + 1 \in 0..MaxPolls
      BY <3>1, PairingAssumption
    <3>3. QED
      BY <3>1, <3>2
  <2>2. PanelTypes' /\ SessionsAreMadeOnce'
    BY <1>0, <1>5, <2>1 DEF PanelTypes, SessionsAreMadeOnce, PollNothing, panel, world
  <2>3. QED
    BY <1>0, <1>5, <2>2, QuietStepsKeep DEF ApprovalsAreReal, PollNothing, world
<1>6. ASSUME NEW g \in Generates, PollsRunOut(g)
      PROVE  PanelInv'
  <2>1. [kind |-> "expired", of |-> g] \in Closure
    BY DEF Closure
  <2>2. posted' \in Seq(Closure)
    BY <1>0, <1>6, <2>1, PostAppends DEF PollsRunOut
  <2>3. PanelTypes' /\ SessionsAreMadeOnce'
    BY <1>0, <1>6, <2>2 DEF PanelTypes, SessionsAreMadeOnce, PollsRunOut, panel, world
  <2>4. /\ \A h \in Generates : h # g => task'[h] = task[h]
        /\ task'[g] = "done"
        /\ session' = session
        /\ UNCHANGED <<status, panel, scanned>> /\ Post("expired", g)
    BY <1>0, <1>6 DEF PanelTypes, PollsRunOut, world
  <2>5. QED
    BY <2>1, <2>3, <2>4, PostingKeeps
<1>7. ASSUME NEW g \in Generates, PhoneApproves(g)
      PROVE  PanelInv'
  <2>1. PanelTypes' /\ SessionsAreMadeOnce'
    BY <1>0, <1>7 DEF PanelTypes, SessionsAreMadeOnce, PhoneApproves, panel
  <2>2. QED
    BY <1>0, <1>7, <2>1, QuietStepsKeep DEF PanelTypes, ApprovalsAreReal, PhoneApproves
<1>8. CASE ClickCancel
  <2>1. [kind |-> "cancel", of |-> NoToken] \in Closure
    BY DEF Closure
  <2>2. posted' \in Seq(Closure)
    BY <1>0, <1>8, <2>1, PostAppends DEF ClickCancel
  <2>3. cancels' \in 0..MaxCancels
    <3>1. cancels \in 0..MaxCancels /\ cancels < MaxCancels /\ cancels' = cancels + 1
      BY <1>0, <1>8 DEF PanelTypes, ClickCancel
    <3>2. QED
      BY <3>1, PairingAssumption
  <2>4. PanelTypes' /\ SessionsAreMadeOnce'
    BY <1>0, <1>8, <2>2, <2>3 DEF PanelTypes, SessionsAreMadeOnce, ClickCancel, panel, world
  <2>5. /\ task' = task /\ session' = session
        /\ UNCHANGED <<status, panel, scanned>> /\ Post("cancel", NoToken)
    BY <1>8 DEF ClickCancel, world
  <2>6. QED
    BY <2>1, <2>4, <2>5, PostingKeeps
<1>9. CASE RunClosure
  BY <1>9, RunningKeeps
<1>10. CASE PhoneScans
  <2>1. pairing_qr \in Generates
    BY <1>0, <1>10 DEF PanelTypes, PhoneScans
  <2>2. PanelTypes' /\ SessionsAreMadeOnce'
    BY <1>0, <1>10, <2>1 DEF PanelTypes, SessionsAreMadeOnce, PhoneScans, panel
  <2>3. QED
    BY <1>0, <1>10, <2>2, QuietStepsKeep DEF ApprovalsAreReal, PhoneScans
<1>11. CASE UNCHANGED vars
  <2>1. PanelTypes' /\ SessionsAreMadeOnce'
    BY <1>0, <1>11 DEF PanelTypes, SessionsAreMadeOnce, vars, panel, world
  <2>2. QED
    BY <1>0, <1>11, <2>1, QuietStepsKeep DEF ApprovalsAreReal, vars, world
<1>12. QED
  BY <1>1, <1>2, <1>3, <1>4, <1>5, <1>6, <1>7, <1>8, <1>9, <1>10, <1>11 DEF Next, Task

-----------------------------------------------------------------------------
\* The card: what lights it is at the head of the queue.
LEMMA CardInit == Init => TypeOK /\ ConnectedIsApproved
<1>1. QED
  BY PanelInit DEF Init, TypeOK, PanelInv, ConnectedIsApproved

LEMMA CardStep ==
  ASSUME PairingInv, [Next]_vars
  PROVE  TypeOK' /\ ConnectedIsApproved'
<1> DEFINE Words == {"IDLE", "PAIRING...", "PAIRING FAILED", "PAIRING EXPIRED", "CONNECTED"}
<1>1. /\ status \in Words /\ PanelTypes /\ ApprovalsAreReal
      /\ SessionsAreMadeOnce /\ ConnectedIsApproved
  BY DEF PairingInv, PanelInv, TypeOK
<1>2. PanelTypes'
  BY PanelStep DEF PairingInv, PanelInv
<1>3. ASSUME status' = status \/ status' = "PAIRING...",
             scanned \subseteq scanned',
             \A h \in Generates : session[h] = "activated" => session'[h] = "activated"
      PROVE  TypeOK' /\ ConnectedIsApproved'
  <2>1. scanned \subseteq Generates
    BY <1>1 DEF PanelTypes
  <2>2. ConnectedIsApproved'
    BY <1>1, <1>3, <2>1 DEF ConnectedIsApproved
  <2>3. QED
    BY <1>1, <1>2, <1>3, <2>2 DEF TypeOK
<1>4. CASE RunClosure
  <2>1. /\ posted # <<>> /\ posted' = Tail(posted)
        /\ session' = session /\ scanned' = scanned
    BY <1>4 DEF RunClosure, world
  <2>2. Head(posted) = posted[1] /\ 1 \in 1..Len(posted) /\ Head(posted) \in Closure
    <3>1. Len(posted) \in Nat \ {0} /\ Head(posted) = posted[1] /\ Head(posted) \in Closure
      BY <1>1, <2>1, TakingShifts
    <3>2. QED
      BY <3>1
  <2>3. CASE Head(posted).kind = "activated" /\ ShowActivated
    <3>1. Head(posted).of \in Generates
      BY <2>2, <2>3 DEF Closure
    <3>2. session[Head(posted).of] = "activated" /\ Head(posted).of \in scanned
      BY <1>1, <2>2, <2>3, <3>1 DEF ApprovalsAreReal
    <3>3. ConnectedIsApproved'
      BY <2>1, <3>2 DEF ConnectedIsApproved
    <3>4. QED
      BY <1>2, <2>3, <3>3 DEF TypeOK, ShowActivated
  <2>4. CASE ShowExpired \/ ShowFailed
    BY <1>2, <2>4 DEF TypeOK, ConnectedIsApproved, ShowExpired, ShowFailed
  <2>5. CASE ShowToken(Head(posted).of) \/ ShowCancelled
    BY <1>3, <2>1, <2>5 DEF ShowToken, ShowCancelled
  <2>6. QED
    BY <1>4, <2>3, <2>4, <2>5 DEF RunClosure
<1>5. ASSUME NEW g \in Generates,
             ClickGenerate(g) \/ Task(g)
      PROVE  TypeOK' /\ ConnectedIsApproved'
  <2>1. \A h \in Generates : session[h] = "activated" => session'[h] = "activated"
    BY <1>1, <1>5 DEF ClickGenerate, Task, Generated, GenerateFails, PollActivated, PollNothing,
       PollsRunOut, world, PanelTypes, SessionsAreMadeOnce
  <2>2. scanned' = scanned /\ (status' = status \/ status' = "PAIRING...")
    BY <1>5 DEF ClickGenerate, Task, Generated, GenerateFails, PollActivated, PollNothing,
       PollsRunOut, world
  <2>3. QED
    BY <1>3, <2>1, <2>2
<1>6. ASSUME NEW g \in Generates, PhoneApproves(g)
      PROVE  TypeOK' /\ ConnectedIsApproved'
  BY <1>1, <1>3, <1>6 DEF PhoneApproves, PanelTypes
<1>7. CASE ClickCancel \/ PhoneScans \/ UNCHANGED vars
  BY <1>3, <1>7 DEF ClickCancel, PhoneScans, vars, world
<1>8. QED
  BY <1>4, <1>5, <1>6, <1>7 DEF Next

LEMMA PairingInit == Init => PairingInv
<1>1. QED
  BY PanelInit, CardInit DEF PairingInv

LEMMA PairingStep == PairingInv /\ [Next]_vars => PairingInv'
<1>1. QED
  BY PanelStep, CardStep DEF PairingInv

-----------------------------------------------------------------------------
\* However many presses, polls and cancels there are, the invariant holds.
THEOREM PairingInvariant == Spec => []PairingInv
<1>1. QED
  BY PairingInit, PairingStep, PTL DEF Spec

\* A panel that waits is polled for.
THEOREM WaitingIsPolledAlways == Spec => []WaitingIsPolled
<1>1. PairingInv => WaitingIsPolled
  BY DEF PairingInv, PanelInv
<1>2. QED
  BY PairingInvariant, <1>1, PTL

\* CONNECTED, where pairing writes it, is a phone's approval of a drawn code.
THEOREM ConnectedIsApprovedAlways == Spec => []ConnectedIsApproved
<1>1. PairingInv => ConnectedIsApproved
  BY DEF PairingInv
<1>2. QED
  BY PairingInvariant, <1>1, PTL
=============================================================================
