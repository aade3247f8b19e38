------------------------- MODULE ForensicWipeProofs -------------------------
(***************************************************************************)
(* Proofs about module ForensicWipe, for any number of overlapping wipes,  *)
(* any state the directory may hold, with and without faults, dying tasks  *)
(* and restarts.                                                           *)
(***************************************************************************)
EXTENDS ForensicWipe, SequenceTheorems, TLAPS

\* What the proofs use of the order of the purge.
LEMMA OrderFacts ==
    /\ Len(Order) = 5 /\ Len(Order) + 1 = 6
    /\ \A i \in 1 .. 5 : Order[i] \in Files
    /\ \A i, j \in 1 .. 5 : Order[i] = Order[j] => i = j
    /\ Order[1] = "security.jsonl" /\ Order[2] = "node_cache"
    /\ Order[3] = Stamp /\ Order[4] = "device_id"
    /\ Order[5] = "activation.json"
  BY DEF Order, Files, Stamp

\* Where a wipe that works on a file stands.
FilePlaces == {"look", "check", "measure", "zero", "unlink"}
LEMMA FileFacts ==
  ASSUME TypeOK, NEW w \in Wipes, pc[w] \in FilePlaces
  PROVE  /\ at[w] \in 1 .. 5
         /\ File(w) \in Files
         /\ \A i \in 1 .. 5 : Order[i] = File(w) => i = at[w]
<1>1. pc[w] \in AtWork \ {"teardown", "report"}
  BY DEF FilePlaces, AtWork
<1>2. at[w] \in 1 .. 6 /\ at[w] <= 5
  BY <1>1, OrderFacts DEF TypeOK
<1>3. at[w] \in 1 .. 5
  BY <1>2
<1>4. QED
  BY <1>3, OrderFacts DEF File

\* The end of a file: Ok or Err, and on to the next.
LEMMA NextFile ==
  ASSUME TypeOK, NEW w \in Wipes, pc[w] \in FilePlaces, Advance(w)
  PROVE  /\ at' \in [Wipes -> 1 .. 6]
         /\ at' = [at EXCEPT ![w] = @ + 1]
         /\ \E q \in {"look", "check", "report"} :
              /\ pc' = [pc EXCEPT ![w] = q]
              /\ q = "report" => at'[w] = 6
              /\ q # "report" => at'[w] <= 5
<1>1. at[w] \in 1 .. 5
  BY FileFacts
<1>2. at \in [Wipes -> 1 .. 6]
  <2>1. 1 .. Len(Order) + 1 = 1 .. 6
    BY OrderFacts
  <2>2. QED
    BY <2>1 DEF TypeOK
<1>3. at' = [at EXCEPT ![w] = @ + 1] /\ pc' = [pc EXCEPT ![w] = Entry(at[w] + 1)]
  BY DEF Advance
<1>4. /\ Entry(at[w] + 1) \in {"look", "check", "report"}
      /\ Entry(at[w] + 1) = "report" => at[w] + 1 = 6
      /\ Entry(at[w] + 1) # "report" => at[w] + 1 <= 5
  BY <1>1, OrderFacts DEF Entry
<1>5. at'[w] = at[w] + 1 /\ at' \in [Wipes -> 1 .. 6]
  BY <1>1, <1>2, <1>3
<1>6. QED
  BY <1>3, <1>4, <1>5

\* A file step, by what it comes to: it stays at the file, is done with it,
\* or gives it up.
StaysAt(w, q) ==
    /\ pc[w] # "unlink"
    /\ UNCHANGED << at, failed, removed, unseen >>
    /\ pc' = [pc EXCEPT ![w] = q]
    /\ \/ disk' = disk /\ q \in {"check", "measure", "zero"}
       \/ disk' = disk /\ q = "unlink" /\ disk[File(w)] # "small"
       \/ disk' = [disk EXCEPT ![File(w)] = "zeroed"] /\ q = "unlink"
IsDone(w) ==
    /\ Advance(w)
    /\ UNCHANGED failed
    /\ \/ removed' = removed
       \/ removed' = [removed EXCEPT ![w] = IF File(w) = "device_id" THEN @
                                           ELSE @ \cup {File(w)}]
    /\ \/ UNCHANGED unseen /\ disk' = disk /\ disk[File(w)] = "absent"
       \/ UNCHANGED unseen /\ disk' = [disk EXCEPT ![File(w)] = "absent"]
       \/ disk' = disk /\ pc[w] # "unlink" /\ Overlook(w)
GivesUp(w) ==
    /\ Fail(w)
    /\ UNCHANGED unseen
    /\ disk' = disk \/ disk' = [disk EXCEPT ![File(w)] = "empty"]

LEMMA FileStepCases ==
  ASSUME NEW w \in Wipes, FileStep(w)
  PROVE  /\ pc[w] \in FilePlaces
         /\ UNCHANGED rest
         /\ (\E q \in FilePlaces : StaysAt(w, q)) \/ IsDone(w) \/ GivesUp(w)
<1>1. CASE Look(w)
  <2>1. CASE disk[File(w)] = "absent" /\ Advance(w) /\ UNCHANGED unseen
    BY <1>1, <2>1 DEF Look, FilePlaces, IsDone, report
  <2>2. CASE Overlook(w) /\ Advance(w)
    BY <1>1, <2>2 DEF Look, FilePlaces, IsDone, report
  <2>3. CASE pc' = [pc EXCEPT ![w] = "check"] /\ UNCHANGED << at, unseen >>
    BY <1>1, <2>3 DEF Look, FilePlaces, StaysAt, report
  <2>4. QED
    BY <1>1, <2>1, <2>2, <2>3 DEF Look
<1>2. CASE Check(w)
  <2>1. CASE disk[File(w)] = "absent" /\ Succeed(w) /\ UNCHANGED << disk, unseen >>
    BY <1>2, <2>1 DEF Check, FilePlaces, IsDone, Succeed
  <2>2. CASE Overlook(w) /\ Succeed(w) /\ disk' = disk
    BY <1>2, <2>2 DEF Check, FilePlaces, IsDone, Succeed
  <2>3. CASE pc' = [pc EXCEPT ![w] = "measure"] /\ UNCHANGED << at, report, unseen >>
    BY <1>2, <2>3 DEF Check, FilePlaces, StaysAt, report
  <2>4. QED
    BY <1>2, <2>1, <2>2, <2>3 DEF Check
<1>3. CASE Measure(w)
  BY <1>3 DEF Measure, FilePlaces, StaysAt, GivesUp, report
<1>4. CASE Zero(w)
  BY <1>4 DEF Zero, FilePlaces, StaysAt, GivesUp, report
<1>5. CASE Unlink(w)
  <2>1. CASE Succeed(w) /\ disk' = [disk EXCEPT ![File(w)] = "absent"]
    BY <1>5, <2>1 DEF Unlink, FilePlaces, IsDone, Succeed
  <2>2. CASE Fail(w) /\ UNCHANGED disk
    BY <1>5, <2>2 DEF Unlink, FilePlaces, GivesUp
  <2>3. QED
    BY <1>5, <2>1, <2>2 DEF Unlink
<1>6. QED
  BY <1>1, <1>2, <1>3, <1>4, <1>5 DEF FileStep
-----------------------------------------------------------------------------
LEMMA InitPurge == Init => PurgeInv
<1> SUFFICES ASSUME Init
             PROVE  PurgeInv
  OBVIOUS
<1>1. TypeOK
  <2>1. 1 \in 1 .. Len(Order) + 1 /\ Restarts \in 0 .. Restarts
    BY OrderFacts, WipeAssumption
  <2>2. << >> \in Seq(Wipes)
    BY EmptySeq
  <2>3. QED
    BY <2>1, <2>2 DEF Init, TypeOK, AtWork
<1>2. Places /\ ClearedAtUnlink
  BY DEF Init, Places, ClearedAtUnlink
<1>3. PastIsPurged
  BY DEF Init, PastIsPurged, AtWork
<1>4. QED
  BY <1>1, <1>2, <1>3 DEF PurgeInv

\* What a wipe has passed stays purged when another wipe stays at its file,
\* is done with it, or gives it up.
LEMMA MadeAgainStays ==
  ASSUME TypeOK, NEW w \in Wipes, pc[w] \in FilePlaces, NEW i \in {1, 2, 4},
         \/ \E q \in FilePlaces : StaysAt(w, q)
         \/ IsDone(w)
         \/ GivesUp(w)
  PROVE  /\ (disk[Order[i]] = "absent" \/ MadeAgain(w, Order[i]))
               => (disk'[Order[i]] = "absent" \/ MadeAgain(w, Order[i])')
         /\ \A v \in Wipes \ {w} :
               MadeAgain(v, Order[i]) => MadeAgain(v, Order[i])'
         /\ (i < at[w] /\ disk[Order[i]] = "absent") => disk'[Order[i]] = "absent"
<1>1. /\ at[w] \in 1 .. 5 /\ File(w) \in Files
      /\ \A k \in 1 .. 5 : Order[k] = File(w) => k = at[w]
  BY FileFacts
<1>2. /\ Order[i] \in Files /\ Order[i] # "activation.json" /\ i \in 1 .. 5
  BY OrderFacts
<1> HIDE DEF Order, Files, File
<1>3. disk \in [Files -> Contents] /\ pc \in [Wipes -> AtWork \cup
          {"idle", "reported", "died", "ended"}] /\ failed \in [Wipes -> SUBSET Files]
  BY DEF TypeOK
<1>4. ASSUME NEW q \in FilePlaces, StaysAt(w, q)
      PROVE  /\ UNCHANGED << at, failed >> /\ pc' = [pc EXCEPT ![w] = q]
             /\ pc[w] # "unlink"
             /\ \/ disk' = disk
                \/ disk' = [disk EXCEPT ![File(w)] = "zeroed"] /\ pc'[w] = "unlink"
  BY <1>3, <1>4 DEF StaysAt
<1>5. ASSUME IsDone(w) \/ GivesUp(w)
      PROVE  /\ \E q : pc' = [pc EXCEPT ![w] = q]
             /\ failed[w] \subseteq failed'[w]
             /\ \A v \in Wipes \ {w} : failed'[v] = failed[v] /\ at'[v] = at[v]
             /\ \/ disk' = [disk EXCEPT ![File(w)] = "absent"]
                \/ disk' = disk /\ disk[File(w)] = "absent"
                \/ disk' = disk /\ pc[w] # "unlink"
                \/ /\ disk' = disk \/ disk' = [disk EXCEPT ![File(w)] = "empty"]
                   /\ File(w) # "activation.json" => File(w) \in failed'[w]
  <2>1. /\ pc' = [pc EXCEPT ![w] = Entry(at[w] + 1)]
        /\ at' = [at EXCEPT ![w] = @ + 1]
    BY <1>5, Zenon DEF IsDone, GivesUp, Fail, Advance
  <2>2. at \in [Wipes -> 1 .. Len(Order) + 1]
    BY DEF TypeOK
  <2>3. \A v \in Wipes \ {w} : at'[v] = at[v]
    BY <2>1, <2>2
  <2>4. /\ failed[w] \subseteq failed'[w]
        /\ \A v \in Wipes \ {w} : failed'[v] = failed[v]
        /\ GivesUp(w) /\ File(w) # "activation.json" => File(w) \in failed'[w]
    BY <1>3, <1>5 DEF IsDone, GivesUp, Fail
  <2>5. CASE IsDone(w)
    BY <2>1, <2>3, <2>4, <2>5 DEF IsDone
  <2>6. CASE GivesUp(w)
    BY <2>1, <2>3, <2>4, <2>6 DEF GivesUp
  <2>7. QED
    BY <1>5, <2>5, <2>6
<1>6. pc[w] # "died"
  BY DEF FilePlaces
<1>7. ASSUME NEW v \in Wipes \ {w}, MadeAgain(v, Order[i])
      PROVE  MadeAgain(v, Order[i])'
  <2>1. pc'[v] = pc[v] /\ at'[v] = at[v] /\ failed'[v] = failed[v]
    BY <1>3, <1>4, <1>5
  <2>2. QED
    BY <1>7, <2>1 DEF MadeAgain, File
<1>8. ASSUME i < at[w], disk[Order[i]] = "absent"
      PROVE  disk'[Order[i]] = "absent"
  <2>1. File(w) # Order[i]
    BY <1>1, <1>2, <1>8
  <2>2. QED
    BY <1>1, <1>2, <1>3, <1>4, <1>5, <1>8, <2>1
<1>9. ASSUME disk[Order[i]] = "absent" \/ MadeAgain(w, Order[i])
      PROVE  disk'[Order[i]] = "absent" \/ MadeAgain(w, Order[i])'
  <2>1. CASE Order[i] \in failed[w]
    <3>1. Order[i] \in failed'[w]
      BY <2>1, <1>4, <1>5
    <3>2. QED
      BY <3>1 DEF MadeAgain
  <2>2. CASE Order[i] # File(w) /\ Order[i] \notin failed[w]
    <3>1. CASE disk[Order[i]] = "absent"
      BY <1>1, <1>2, <1>3, <1>4, <1>5, <2>2, <3>1
    <3>2. CASE MadeAgain(w, Order[i])
      BY <1>6, <2>2, <3>2 DEF MadeAgain
    <3>3. QED
      BY <1>9, <3>1, <3>2
  <2>3. CASE Order[i] = File(w) /\ Order[i] \notin failed[w]
    <3>1. CASE \E q \in FilePlaces : StaysAt(w, q)
      <4>1. File(w)' = File(w)
        BY <1>4, <3>1 DEF File
      <4>2. CASE disk' = disk
        <5>1. disk[Order[i]] = "absent"
          BY <1>4, <1>6, <1>9, <2>3, <3>1 DEF MadeAgain
        <5>2. QED
          BY <4>2, <5>1
      <4>3. CASE pc'[w] = "unlink"
        BY <2>3, <4>1, <4>3 DEF MadeAgain
      <4>4. QED
        BY <1>4, <3>1, <4>2, <4>3
    <3>2. CASE IsDone(w) \/ GivesUp(w)
      <4>1. CASE disk' = [disk EXCEPT ![File(w)] = "absent"]
        BY <1>1, <1>3, <2>3, <4>1
      <4>2. CASE File(w) \in failed'[w]
        BY <2>3, <4>2 DEF MadeAgain
      <4>3. CASE disk' = disk /\ pc[w] # "unlink"
        BY <1>6, <1>9, <2>3, <4>3 DEF MadeAgain
      <4>4. QED
        BY <1>2, <1>5, <2>3, <3>2, <4>1, <4>2, <4>3
    <3>3. QED
      BY <3>1, <3>2
  <2>4. QED
    BY <2>1, <2>2, <2>3
<1>10. QED
  BY <1>7, <1>8, <1>9
-----------------------------------------------------------------------------
LEMMA FileStepPreserves ==
  ASSUME PurgeInv, NEW w \in Wipes, FileStep(w)
  PROVE  PurgeInv'
<1> USE DEF PurgeInv
<1>1. /\ pc[w] \in FilePlaces /\ UNCHANGED rest
      /\ (\E q \in FilePlaces : StaysAt(w, q)) \/ IsDone(w) \/ GivesUp(w)
  BY FileStepCases
<1>2. /\ at[w] \in 1 .. 5 /\ File(w) \in Files
      /\ \A k \in 1 .. 5 : Order[k] = File(w) => k = at[w]
  BY <1>1, FileFacts
<1>3. ASSUME IsDone(w) \/ GivesUp(w)
      PROVE  /\ at' \in [Wipes -> 1 .. 6]
             /\ at' = [at EXCEPT ![w] = @ + 1]
             /\ \E q \in {"look", "check", "report"} :
                  /\ pc' = [pc EXCEPT ![w] = q]
                  /\ q = "report" => at'[w] = 6
                  /\ q # "report" => at'[w] <= 5
  BY <1>1, <1>3, NextFile DEF IsDone, GivesUp, Fail
<1>4. 1 .. Len(Order) + 1 = 1 .. 6 /\ Len(Order) = 5 /\ Len(Order) + 1 = 6
  BY OrderFacts
<1> HIDE DEF Order, Files, File, Contents
<1>5. "absent" \in Contents /\ "empty" \in Contents /\ "zeroed" \in Contents
  BY DEF Contents
<1>a. /\ unseen' \in [Wipes -> SUBSET Files]
      /\ \A v \in Wipes : unseen[v] \subseteq unseen'[v]
      /\ unseen' # unseen => File(w) \in unseen'[w]
  <2>1. unseen \in [Wipes -> SUBSET Files]
    BY DEF TypeOK
  <2>2. CASE unseen' = unseen
    BY <2>1, <2>2
  <2>3. CASE unseen' = [unseen EXCEPT ![w] = @ \cup {File(w)}]
    BY <1>2, <2>1, <2>3
  <2>4. QED
    BY <1>1, <2>2, <2>3 DEF StaysAt, IsDone, GivesUp, Overlook
<1>6. TypeOK'
  <2>1. disk' \in [Files -> Contents]
    BY <1>1, <1>2, <1>5 DEF TypeOK, StaysAt, IsDone, GivesUp
  <2>2. failed' \in [Wipes -> SUBSET Files] /\ removed' \in [Wipes -> SUBSET Files]
    <3>1. CASE \E q \in FilePlaces : StaysAt(w, q)
      BY <3>1 DEF TypeOK, StaysAt
    <3>2. CASE IsDone(w)
      <4>1. /\ failed \in [Wipes -> SUBSET Files]
            /\ removed \in [Wipes -> SUBSET Files]
        BY DEF TypeOK
      <4>2. CASE removed' = removed
        BY <3>2, <4>1, <4>2 DEF IsDone
      <4>3. CASE removed' # removed
        <5>1. PICK S \in SUBSET Files : removed' = [removed EXCEPT ![w] = S]
          BY <1>2, <3>2, <4>1, <4>3 DEF IsDone
        <5>2. QED
          BY <3>2, <4>1, <5>1 DEF IsDone
      <4>4. QED
        BY <4>2, <4>3
    <3>3. CASE GivesUp(w)
      BY <3>3, <1>2 DEF TypeOK, GivesUp, Fail
    <3>4. QED
      BY <1>1, <3>1, <3>2, <3>3
  <2>3. /\ at' \in [Wipes -> 1 .. Len(Order) + 1]
        /\ pc' \in [Wipes -> AtWork \cup {"idle", "reported", "died", "ended"}]
        /\ \A u \in Wipes : pc'[u] \in AtWork \ {"teardown", "report"} =>
                              at'[u] <= Len(Order)
    <3>1. CASE \E q \in FilePlaces : StaysAt(w, q)
      <4>1. PICK q \in FilePlaces : at' = at /\ pc' = [pc EXCEPT ![w] = q]
        BY <3>1 DEF StaysAt
      <4>2. q \in AtWork
        BY DEF FilePlaces, AtWork
      <4>3. at[w] <= Len(Order)
        BY <1>2, <1>4
      <4>4. QED
        BY <4>1, <4>2, <4>3 DEF TypeOK
    <3>2. CASE IsDone(w) \/ GivesUp(w)
      BY <3>2, <1>3, <1>4 DEF TypeOK, AtWork
    <3>3. QED
      BY <1>1, <3>1, <3>2
  <2>4. unseen' \in [Wipes -> SUBSET Files]
    BY <1>a
  <2>5. QED
    BY <1>1, <2>1, <2>2, <2>3, <2>4 DEF TypeOK, rest
<1>7. Places'
  <2>1. CASE \E q \in FilePlaces : StaysAt(w, q)
    BY <2>1 DEF Places, TypeOK, StaysAt, FilePlaces
  <2>2. CASE IsDone(w) \/ GivesUp(w)
    BY <2>2, <1>3, <1>4 DEF Places, TypeOK
  <2>3. QED
    BY <1>1, <2>1, <2>2
<1>8. ClearedAtUnlink'
  <2> SUFFICES ASSUME NEW u \in Wipes, pc'[u] = "unlink", File(u)' # Stamp
               PROVE  disk'[File(u)'] # "small"
    BY DEF ClearedAtUnlink
  <2>1. \A f \in Files : disk'[f] # "small" \/ disk'[f] = disk[f]
    BY <1>1, <1>2 DEF TypeOK, StaysAt, IsDone, GivesUp
  <2>2. CASE u # w
    <3>1. pc[u] = "unlink" /\ at'[u] = at[u]
      BY <1>1, <1>3, <2>2 DEF TypeOK, StaysAt
    <3>2. File(u)' = File(u) /\ File(u) \in Files
      BY <3>1, FileFacts DEF FilePlaces, File
    <3>3. QED
      BY <2>1, <3>1, <3>2 DEF ClearedAtUnlink
  <2>3. CASE u = w
    <3>1. PICK q \in FilePlaces : StaysAt(w, q)
      BY <1>1, <1>3, <2>3 DEF TypeOK
    <3>2. File(w)' = File(w) /\ q = "unlink"
      BY <3>1, <2>3 DEF StaysAt, TypeOK, File
    <3>3. QED
      BY <1>2, <2>3, <3>1, <3>2 DEF StaysAt, TypeOK
  <2>4. QED
    BY <2>2, <2>3
<1>9. PastIsPurged'
  <2> SUFFICES ASSUME NEW u \in Wipes, NEW i \in {1, 2, 4},
                      pc'[u] \in AtWork \cup {"reported"}, i < at'[u]
               PROVE  \/ disk'[Order[i]] = "absent"
                      \/ Order[i] \in failed'[u] \cup unseen'[u]
                      \/ \E v \in Wipes \ {u} : MadeAgain(v, Order[i])'
    BY DEF PastIsPurged
  <2>1. /\ (disk[Order[i]] = "absent" \/ MadeAgain(w, Order[i]))
             => (disk'[Order[i]] = "absent" \/ MadeAgain(w, Order[i])')
        /\ \A v \in Wipes \ {w} :
             MadeAgain(v, Order[i]) => MadeAgain(v, Order[i])'
        /\ (i < at[w] /\ disk[Order[i]] = "absent") => disk'[Order[i]] = "absent"
    BY <1>1, MadeAgainStays
  <2>2. \A v \in Wipes : failed[v] \subseteq failed'[v]
    <3>1. failed \in [Wipes -> SUBSET Files]
      BY DEF TypeOK
    <3>2. CASE failed' = failed
      BY <3>2
    <3>3. CASE GivesUp(w)
      BY <3>1, <3>3 DEF GivesUp, Fail
    <3>4. QED
      BY <1>1, <3>2, <3>3 DEF StaysAt, IsDone
  <2>3. CASE u # w
    <3>1. pc[u] = pc'[u] /\ at'[u] = at[u]
      BY <1>1, <1>3, <2>3 DEF TypeOK, StaysAt
    <3>2. \/ disk[Order[i]] = "absent"
          \/ Order[i] \in failed[u] \cup unseen[u]
          \/ \E v \in Wipes \ {u} : MadeAgain(v, Order[i])
      BY <3>1 DEF PastIsPurged
    <3>3. QED
      BY <1>a, <2>1, <2>2, <2>3, <3>2
  <2>4. CASE u = w /\ i < at[w]
    <3>1. pc[w] \in AtWork
      BY <1>1 DEF FilePlaces, AtWork
    <3>2. \/ disk[Order[i]] = "absent"
          \/ Order[i] \in failed[w] \cup unseen[w]
          \/ \E v \in Wipes \ {w} : MadeAgain(v, Order[i])
      BY <2>4, <3>1 DEF PastIsPurged
    <3>3. QED
      BY <1>a, <2>1, <2>2, <2>4, <3>2
  <2>5. CASE u = w /\ ~(i < at[w])
    <3>1. IsDone(w) \/ GivesUp(w)
      BY <1>1, <2>5 DEF StaysAt
    <3>2. i = at[w]
      <4>1. at'[w] = at[w] + 1
        BY <1>3, <1>4, <3>1 DEF TypeOK
      <4>2. QED
        BY <1>2, <2>5, <4>1
    <3>3. File(w) = Order[i] /\ File(w) # "activation.json"
      BY <3>2, OrderFacts DEF File
    <3>4. disk'[File(w)] = "absent" \/ File(w) \in failed'[w] \cup unseen'[w]
      <4>1. /\ failed \in [Wipes -> SUBSET Files]
            /\ disk \in [Files -> Contents]
        BY DEF TypeOK
      <4>2. CASE IsDone(w)
        <5>1. CASE Overlook(w)
          <6>1. unseen \in [Wipes -> SUBSET Files]
            BY DEF TypeOK
          <6>2. QED
            BY <5>1, <6>1 DEF Overlook
        <5>2. CASE ~Overlook(w)
          BY <1>2, <4>1, <4>2, <5>2 DEF IsDone
        <5>3. QED
          BY <5>1, <5>2
      <4>3. CASE GivesUp(w)
        BY <3>3, <4>1, <4>3 DEF GivesUp, Fail
      <4>4. QED
        BY <3>1, <4>2, <4>3
    <3>5. QED
      BY <2>5, <3>3, <3>4
  <2>6. QED
    BY <2>3, <2>4, <2>5
<1>10. QED
  BY <1>6, <1>7, <1>8, <1>9

\* The steps of a wipe that touch no file: what it has passed keeps its place,
\* and a wipe that dies may have made anything again.
LEMMA QuietStepPreserves ==
  ASSUME PurgeInv, NEW w \in Wipes,
         Press(w) \/ Teardown(w) \/ Report(w) \/ TaskDies(w)
  PROVE  PurgeInv'
<1> USE DEF PurgeInv
<1>1. \E q \in {"teardown", "look", "reported", "died"} :
         /\ pc' = [pc EXCEPT ![w] = q]
         /\ q = "teardown" => pc[w] = "idle"
         /\ q = "look" => pc[w] = "teardown"
         /\ q = "reported" => pc[w] = "report"
         /\ q # "died" => failed' = failed /\ removed' = removed
  BY DEF Press, Teardown, Report, TaskDies, Entry, report
<1>0. faults' = faults /\ unseen' = unseen
  BY DEF Press, Teardown, Report, TaskDies, rest
<1>2. /\ at' = at /\ disk' = disk /\ checking' = checking /\ left' = left
      /\ pc[w] # "unlink" \/ pc'[w] = "died"
      /\ \A v \in Wipes \ {w} : failed'[v] = failed[v]
      /\ failed' \in [Wipes -> SUBSET Files] /\ removed' \in [Wipes -> SUBSET Files]
      /\ status' \in {status, "WIPING..."}
      /\ posted' = posted \/ posted' = Append(posted, w)
  BY DEF Press, Teardown, Report, TaskDies, report, rest, TypeOK
<1>3. TypeOK'
  <2>1. posted' \in Seq(Wipes)
    <3>1. posted \in Seq(Wipes)
      BY DEF TypeOK
    <3>2. Append(posted, w) \in Seq(Wipes)
      BY <3>1, AppendProperties
    <3>3. QED
      BY <1>2, <3>1, <3>2
  <2>2. at[w] <= Len(Order) \/ pc[w] # "teardown"
    BY OrderFacts DEF Places
  <2>3. pc' \in [Wipes -> AtWork \cup {"idle", "reported", "died", "ended"}]
    BY <1>1 DEF TypeOK, AtWork
  <2>4. \A u \in Wipes : pc'[u] \in AtWork \ {"teardown", "report"} =>
                           at'[u] <= Len(Order)
    BY <1>1, <1>2, <2>2 DEF TypeOK, AtWork
  <2>5. QED
    BY <1>0, <1>2, <2>1, <2>3, <2>4 DEF TypeOK
<1>4. Places'
  BY <1>1, <1>2 DEF Places, TypeOK
<1>5. ClearedAtUnlink'
  BY <1>1, <1>2 DEF ClearedAtUnlink, File, TypeOK
<1>6. PastIsPurged'
  <2> SUFFICES ASSUME NEW u \in Wipes, NEW i \in {1, 2, 4},
                      pc'[u] \in AtWork \cup {"reported"}, i < at'[u]
               PROVE  \/ disk'[Order[i]] = "absent"
                      \/ Order[i] \in failed'[u] \cup unseen'[u]
                      \/ \E v \in Wipes \ {u} : MadeAgain(v, Order[i])'
    BY DEF PastIsPurged
  <2>1. \A v \in Wipes : MadeAgain(v, Order[i]) => MadeAgain(v, Order[i])'
    BY <1>1, <1>2 DEF MadeAgain, File, TypeOK
  <2>2. pc[u] \in AtWork \cup {"reported"} /\ failed'[u] = failed[u]
    <3>1. CASE u # w
      BY <1>1, <1>2, <3>1 DEF TypeOK
    <3>2. CASE u = w
      <4>1. at[w] # 1
        BY <1>2, <3>2
      <4>2. pc[w] = "report" /\ failed' = failed
        BY <1>1, <3>2, <4>1 DEF Places, TypeOK, AtWork
      <4>3. QED
        BY <3>2, <4>2 DEF AtWork
    <3>3. QED
      BY <3>1, <3>2
  <2>3. QED
    BY <1>0, <1>2, <2>1, <2>2 DEF PastIsPurged
<1>7. QED
  BY <1>3, <1>4, <1>5, <1>6

\* The update check writes its stamp and nothing else.
LEMMA RecordCheckPreserves == PurgeInv /\ RecordCheck => PurgeInv'
<1> SUFFICES ASSUME PurgeInv, RecordCheck
             PROVE  PurgeInv'
  OBVIOUS
<1> USE DEF PurgeInv
<1>1. /\ UNCHANGED << faults, pc, at, failed, removed, posted, status, left, unseen >>
      /\ \/ disk' = disk
         \/ \E c \in {"small", "empty"} : disk' = [disk EXCEPT ![Stamp] = c]
      /\ checking' = FALSE
  BY DEF RecordCheck, report
<1>2. TypeOK'
  BY <1>1 DEF TypeOK, Contents
<1>3. \A f : (f # Stamp /\ f \in Files) => disk'[f] = disk[f]
  BY <1>1 DEF TypeOK
<1>4. Places'
  BY <1>1 DEF Places
<1>5. ClearedAtUnlink'
  <2> SUFFICES ASSUME NEW u \in Wipes, pc'[u] = "unlink", File(u)' # Stamp
               PROVE  disk'[File(u)'] # "small"
    BY DEF ClearedAtUnlink
  <2>1. pc[u] = "unlink" /\ File(u)' = File(u)
    BY <1>1 DEF File
  <2>2. File(u) \in Files
    BY <2>1, FileFacts DEF FilePlaces
  <2>3. QED
    BY <1>3, <2>1, <2>2 DEF ClearedAtUnlink
<1>6. PastIsPurged'
  <2>1. \A i \in {1, 2, 4} : disk'[Order[i]] = disk[Order[i]]
    BY <1>3, OrderFacts
  <2>2. \A v \in Wipes, i \in {1, 2, 4} :
           MadeAgain(v, Order[i])' <=> MadeAgain(v, Order[i])
    BY <1>1 DEF MadeAgain, File
  <2>3. QED
    BY <1>1, <2>1, <2>2 DEF PastIsPurged
<1>7. QED
  BY <1>2, <1>4, <1>5, <1>6

LEMMA RestPreserves == PurgeInv /\ (ShowReport \/ Restart) => PurgeInv'
<1> SUFFICES ASSUME PurgeInv, ShowReport \/ Restart
             PROVE  PurgeInv'
  OBVIOUS
<1> USE DEF PurgeInv
<1>1. CASE ShowReport
  <2>1. UNCHANGED << faults, disk, pc, at, failed, removed, checking, left, unseen >>
    BY <1>1 DEF ShowReport, report
  <2>2. posted' \in Seq(Wipes) /\ status' \in {"WIPED", "WIPED (FAILED)"}
    BY <1>1, HeadTailProperties DEF ShowReport, TypeOK
  <2>3. TypeOK'
    BY <2>1, <2>2 DEF TypeOK
  <2>4. Places' /\ ClearedAtUnlink'
    BY <2>1 DEF Places, ClearedAtUnlink, File
  <2>5. PastIsPurged'
    BY <2>1 DEF PastIsPurged, MadeAgain, File
  <2>6. QED
    BY <2>3, <2>4, <2>5
<1>2. CASE Restart
  <2>1. /\ UNCHANGED << disk, at, failed, removed, unseen >>
        /\ \A w \in Wipes : pc'[w] = "ended" \/ (pc'[w] = "idle" /\ pc[w] = "idle")
        /\ pc' \in [Wipes -> {"idle", "ended"}]
    BY <1>2 DEF Restart, report
  <2>2. TypeOK'
    <3>1. left' \in 0 .. Restarts
      <4>1. left \in 0 .. Restarts /\ left > 0 /\ left' = left - 1 /\ Restarts \in Nat
        BY <1>2, WipeAssumption DEF Restart, TypeOK
      <4>2. QED
        BY <4>1
    <3>2. << >> \in Seq(Wipes)
      BY EmptySeq
    <3>3. checking' \in BOOLEAN
      BY <1>2 DEF Restart
    <3>4. QED
      BY <1>2, <2>1, <3>1, <3>2, <3>3 DEF Restart, TypeOK, AtWork
  <2>3. Places' /\ ClearedAtUnlink' /\ PastIsPurged'
    BY <2>1 DEF Places, ClearedAtUnlink, PastIsPurged, AtWork
  <2>4. QED
    BY <2>2, <2>3
<1>3. QED
  BY <1>1, <1>2

LEMMA PurgeStep == PurgeInv /\ [Next]_vars => PurgeInv'
<1> SUFFICES ASSUME PurgeInv, [Next]_vars
             PROVE  PurgeInv'
  OBVIOUS
<1>1. CASE \E w \in Wipes : FileStep(w)
  BY <1>1, FileStepPreserves
<1>2. CASE \E w \in Wipes : Press(w) \/ Teardown(w) \/ Report(w) \/ TaskDies(w)
  BY <1>2, QuietStepPreserves
<1>3. CASE RecordCheck
  BY <1>3, RecordCheckPreserves
<1>4. CASE ShowReport \/ Restart
  BY <1>4, RestPreserves
<1>5. CASE UNCHANGED vars
  <2>1. TypeOK'
    BY <1>5 DEF PurgeInv, TypeOK, vars
  <2>2. Places' /\ ClearedAtUnlink'
    BY <1>5 DEF PurgeInv, Places, ClearedAtUnlink, File, vars
  <2>3. PastIsPurged'
    BY <1>5 DEF PurgeInv, PastIsPurged, MadeAgain, File, vars
  <2>4. QED
    BY <2>1, <2>2, <2>3 DEF PurgeInv
<1>6. QED
  BY <1>1, <1>2, <1>3, <1>4, <1>5 DEF Next, Task

-----------------------------------------------------------------------------
\* The inductive invariant of the purge (rfc011.rs 216-268), typing included.
THEOREM PurgeInvariant == Spec => []PurgeInv
<1>1. Init => PurgeInv
  BY InitPurge
<1>2. PurgeInv /\ [Next]_vars => PurgeInv'
  BY PurgeStep
<1>3. QED
  BY <1>1, <1>2, PTL DEF Spec

\* However many wipes overlap, and whatever fails: what a wipe leaves of the
\* log, the cache and the identity is in its report, or another wipe's doing, or a
\* file it did not see, since its stat failed (rfc011.rs 231, 258).
THEOREM WhatIsLeftIsReportedAlways == Spec => []WhatIsLeftIsReported
<1>1. PurgeInv => WhatIsLeftIsReported
  <2> SUFFICES ASSUME PurgeInv, NEW w \in Wipes, NEW i \in {1, 2, 4},
                      Reported(w), disk[Order[i]] # "absent"
               PROVE  \/ Order[i] \in failed[w] \cup unseen[w]
                      \/ \E v \in Wipes \ {w} : MadeAgain(v, Order[i])
    BY OrderFacts DEF WhatIsLeftIsReported
  <2>1. at[w] = 6 /\ pc[w] \in AtWork \cup {"reported"}
    BY OrderFacts DEF PurgeInv, Places, Reported, AtWork
  <2>2. QED
    BY <2>1 DEF PurgeInv, PastIsPurged
<1>2. QED
  BY <1>1, PurgeInvariant, PTL

\* No step of any wipe unlinks a file of up to 16 MiB with its content.
THEOREM NeverUnlinkedInTheClearAlways == Spec => NeverUnlinkedInTheClear
<1>1. ASSUME PurgeInv, [Next]_vars, NEW f \in Files \ {Stamp}, disk[f] = "small"
      PROVE  disk'[f] # "absent"
  <2>1. CASE \E w \in Wipes : Unlink(w)
    <3>1. PICK w \in Wipes : Unlink(w)
      BY <2>1
    <3>2. pc[w] = "unlink" /\ File(w) \in Files
      BY <1>1, <3>1, FileFacts DEF Unlink, FilePlaces, PurgeInv
    <3>3. disk' = disk \/ disk' = [disk EXCEPT ![File(w)] = "absent"]
      BY <3>1 DEF Unlink
    <3>4. File(w) # f
      BY <1>1, <3>2 DEF PurgeInv, ClearedAtUnlink
    <3>5. QED
      BY <1>1, <3>2, <3>3, <3>4 DEF PurgeInv, TypeOK
  <2>2. CASE \E w \in Wipes : Zero(w)
    BY <1>1, <2>2 DEF Zero, PurgeInv, TypeOK
  <2>3. CASE RecordCheck
    BY <1>1, <2>3 DEF RecordCheck, PurgeInv, TypeOK
  <2>4. CASE UNCHANGED disk
    BY <1>1, <2>4
  <2>5. QED
    BY <1>1, <2>1, <2>2, <2>3, <2>4 DEF Next, Task, FileStep, Press, Teardown,
       Look, Check, Measure, Report, TaskDies, ShowReport, Restart, vars
<1>2. PurgeInv /\ [Next]_vars =>
        [\A f \in Files \ {Stamp} : disk[f] = "small" => disk'[f] # "absent"]_vars
  BY <1>1
<1>3. QED
  BY <1>2, PurgeInvariant, PTL DEF Spec, NeverUnlinkedInTheClear

\* The marker of the activation goes last: no end of the process leaves a
\* first run behind with an identity or a log that no wipe has given up or
\* overlooked.
THEOREM FirstRunHasNoIdentityAlways == Spec => FirstRunHasNoIdentity
<1> DEFINE A == (disk["activation.json"] # "absent" /\ disk'["activation.json"] = "absent")
         => \A f \in {"device_id", "security.jsonl"} :
                \/ disk[f] = "absent"
                \/ \E v \in Wipes : f \in unseen[v] \/ MadeAgain(v, f)
<1>1. ASSUME PurgeInv, [Next]_vars, NEW i \in {1, 4},
             disk["activation.json"] # "absent", disk'["activation.json"] = "absent"
      PROVE  \/ disk[Order[i]] = "absent"
             \/ \E v \in Wipes : Order[i] \in unseen[v] \/ MadeAgain(v, Order[i])
  <2>a. /\ "activation.json" \in Files /\ "activation.json" # Stamp
        /\ disk \in [Files -> Contents]
    <3>1. 5 \in 1 .. 5
      OBVIOUS
    <3>2. "activation.json" \in Files
      BY <3>1, OrderFacts, Zenon
    <3>3. "activation.json" # Stamp
      BY DEF Stamp
    <3>4. QED
      BY <1>1, <3>2, <3>3 DEF PurgeInv, TypeOK
  <2>1. CASE \E w \in Wipes : Unlink(w)
    <3>1. PICK w \in Wipes : Unlink(w)
      BY <2>1
    <3>2. pc[w] = "unlink" /\ at[w] \in 1 .. 5 /\ File(w) \in Files
          /\ \A k \in 1 .. 5 : Order[k] = File(w) => k = at[w]
      BY <1>1, <3>1, FileFacts DEF Unlink, FilePlaces, PurgeInv
    <3>3. disk' = disk \/ disk' = [disk EXCEPT ![File(w)] = "absent"]
      BY <3>1 DEF Unlink
    <3>4. File(w) = "activation.json"
      BY <1>1, <2>a, <3>2, <3>3
    <3>5. at[w] = 5
      BY <3>2, <3>4, OrderFacts
    <3>6. QED
      <4>1. \/ disk[Order[i]] = "absent"
            \/ Order[i] \in failed[w] \cup unseen[w]
            \/ \E v \in Wipes \ {w} : MadeAgain(v, Order[i])
        BY <1>1, <3>2, <3>5 DEF PurgeInv, PastIsPurged, AtWork
      <4>2. QED
        BY <4>1 DEF MadeAgain
  <2>2. CASE \E w \in Wipes : Zero(w)
    BY <1>1, <2>a, <2>2 DEF Zero
  <2>3. CASE RecordCheck
    BY <1>1, <2>a, <2>3 DEF RecordCheck
  <2>4. CASE UNCHANGED disk
    BY <1>1, <2>4
  <2>5. QED
    BY <1>1, <2>1, <2>2, <2>3, <2>4 DEF Next, Task, FileStep, Press, Teardown,
       Look, Check, Measure, Report, TaskDies, ShowReport, Restart, vars
<1>2. PurgeInv /\ [Next]_vars => A
  BY <1>1, OrderFacts
<1>3. QED
  BY <1>2, PurgeInvariant, PTL DEF Spec, FirstRunHasNoIdentity

-----------------------------------------------------------------------------
(* Wipes that meet no fault.                                               *)

\* A file step without faults stays at its file or leaves it absent.
LEMMA SoundFileStep ==
  ASSUME ~faults, NEW w \in Wipes, FileStep(w)
  PROVE  /\ UNCHANGED rest
         /\ \/ /\ pc[w] # "unlink" /\ at' = at
               /\ \E q \in FilePlaces : pc' = [pc EXCEPT ![w] = q]
               /\ \/ disk' = disk
                  \/ disk' = [disk EXCEPT ![File(w)] = "zeroed"] /\ pc' = [pc EXCEPT ![w] = "unlink"]
            \/ /\ Advance(w)
               /\ \/ disk' = disk /\ disk[File(w)] = "absent"
                  \/ disk' = [disk EXCEPT ![File(w)] = "absent"]
<1>1. CASE Look(w)
  BY <1>1 DEF Look, Overlook, FilePlaces
<1>2. CASE Check(w)
  BY <1>2 DEF Check, Overlook, Succeed, FilePlaces, report
<1>3. CASE Measure(w)
  BY <1>3 DEF Measure, Fail, FilePlaces, report
<1>4. CASE Zero(w)
  BY <1>4 DEF Zero, FilePlaces, report
<1>5. CASE Unlink(w)
  BY <1>5 DEF Unlink, Succeed, Fail
<1>6. QED
  BY <1>1, <1>2, <1>3, <1>4, <1>5 DEF FileStep

LEMMA SoundFileStepPreserves ==
  ASSUME PurgeInv, BackIsAboutToGo, NEW w \in Wipes, FileStep(w)
  PROVE  BackIsAboutToGo'
<1>1. faults' = faults
  BY FileStepCases DEF rest
<1> SUFFICES ASSUME ~faults, NEW u \in Wipes, NEW i \in {1, 2, 4, 5},
                    pc'[u] \in AtWork \cup {"reported"}, i < at'[u]
             PROVE  \/ disk'[Order[i]] = "absent"
                    \/ \E v \in Wipes \ {u} : \/ pc'[v] = "unlink" /\ File(v)' = Order[i]
                                             \/ pc'[v] = "died"
  BY <1>1 DEF BackIsAboutToGo
<1>2. /\ TypeOK /\ pc[w] \in FilePlaces /\ at[w] \in 1 .. 5 /\ File(w) \in Files
      /\ \A k \in 1 .. 5 : Order[k] = File(w) => k = at[w]
      /\ disk \in [Files -> Contents]
      /\ at \in [Wipes -> 1 .. Len(Order) + 1]
      /\ DOMAIN pc = Wipes
  BY FileStepCases, FileFacts DEF PurgeInv, TypeOK
<1>3. Order[i] \in Files
  BY OrderFacts
<1>4. PICK q \in FilePlaces \cup {"report"} :
        /\ pc' = [pc EXCEPT ![w] = q]
        /\ \/ pc[w] # "unlink" /\ at' = at
           \/ at' = [at EXCEPT ![w] = @ + 1]
        /\ \/ disk' = disk
           \/ disk' = [disk EXCEPT ![File(w)] = "zeroed"] /\ q = "unlink" /\ at' = at
           \/ disk' = [disk EXCEPT ![File(w)] = "absent"]
        /\ at' # at => disk'[File(w)] = "absent"
  <2>1. CASE Advance(w)
    <3>1. /\ at' = [at EXCEPT ![w] = @ + 1]
          /\ \E r \in {"look", "check", "report"} : pc' = [pc EXCEPT ![w] = r]
      BY <1>2, <2>1, NextFile
    <3>2. at' # at
      BY <1>2, <3>1
    <3>3. \/ disk' = disk /\ disk[File(w)] = "absent"
          \/ disk' = [disk EXCEPT ![File(w)] = "absent"]
      BY <1>2, <3>1, <3>2, SoundFileStep
    <3>4. disk'[File(w)] = "absent"
      BY <1>2, <3>3
    <3>5. QED
      BY <3>1, <3>3, <3>4 DEF FilePlaces
  <2>2. CASE ~Advance(w)
    <3>1. /\ pc[w] # "unlink" /\ at' = at
          /\ \E r \in FilePlaces : pc' = [pc EXCEPT ![w] = r]
          /\ \/ disk' = disk
             \/ disk' = [disk EXCEPT ![File(w)] = "zeroed"] /\ pc' = [pc EXCEPT ![w] = "unlink"]
      BY <2>2, SoundFileStep
    <3>2. PICK r \in FilePlaces : pc' = [pc EXCEPT ![w] = r]
      BY <3>1
    <3>3. pc' = [pc EXCEPT ![w] = "unlink"] => r = "unlink"
      BY <1>2, <3>2
    <3>4. QED
      BY <3>1, <3>2, <3>3
  <2>3. QED
    BY <2>1, <2>2
<1>5. \A v \in Wipes \ {w} : pc'[v] = pc[v] /\ at'[v] = at[v] /\ File(v)' = File(v)
  BY <1>2, <1>4 DEF File
<1>6. CASE u = w
  <2>1. CASE i < at[w]
    <3>1. Order[i] # File(w)
      BY <1>2, <2>1
    <3>2. disk'[Order[i]] = disk[Order[i]]
      BY <1>2, <1>3, <1>4, <3>1
    <3>3. pc[w] \in AtWork
      BY <1>2 DEF FilePlaces, AtWork
    <3>4. \/ disk[Order[i]] = "absent"
          \/ \E v \in Wipes \ {w} : \/ pc[v] = "unlink" /\ File(v) = Order[i]
                                   \/ pc[v] = "died"
      BY <2>1, <3>3 DEF BackIsAboutToGo
    <3>5. QED
      BY <1>5, <1>6, <3>2, <3>4
  <2>2. CASE ~(i < at[w])
    <3>1. at' # at /\ i = at[w]
      BY <1>2, <1>4, <1>6, <2>2
    <3>2. QED
      BY <1>4, <3>1 DEF File
  <2>3. QED
    BY <2>1, <2>2
<1>7. CASE u # w
  <2>1. \/ disk[Order[i]] = "absent"
        \/ \E v \in Wipes \ {u} : \/ pc[v] = "unlink" /\ File(v) = Order[i]
                                 \/ pc[v] = "died"
    BY <1>5, <1>7 DEF BackIsAboutToGo
  <2>2. CASE disk[Order[i]] = "absent"
    <3>1. CASE disk' = [disk EXCEPT ![File(w)] = "zeroed"] /\ File(w) = Order[i]
      <4>1. pc'[w] = "unlink" /\ File(w)' = Order[i]
        <5>1. q = "unlink" /\ at' = at
          <6>1. disk[File(w)] = "absent" /\ disk'[File(w)] = "zeroed"
            BY <1>2, <2>2, <3>1
          <6>2. disk' # disk /\ disk' # [disk EXCEPT ![File(w)] = "absent"]
            BY <1>2, <6>1
          <6>3. QED
            BY <1>4, <6>2
        <5>2. QED
          BY <1>2, <1>4, <3>1, <5>1 DEF File
      <4>2. QED
        BY <1>7, <4>1
    <3>2. CASE disk'[Order[i]] = "absent"
      BY <3>2
    <3>3. QED
      BY <1>2, <1>3, <1>4, <2>2, <3>1, <3>2
  <2>3. CASE \E v \in Wipes \ {u, w} : \/ pc[v] = "unlink" /\ File(v) = Order[i]
                                       \/ pc[v] = "died"
    BY <1>5, <2>3
  <2>4. CASE pc[w] = "unlink" /\ File(w) = Order[i]
    <3>1. at' # at
      BY <1>2, <1>4, <2>4
    <3>2. QED
      BY <1>4, <2>4, <3>1
  <2>5. QED
    BY <1>2, <2>1, <2>2, <2>3, <2>4 DEF FilePlaces
<1>8. QED
  BY <1>6, <1>7

LEMMA SoundStep == PurgeInv /\ BackIsAboutToGo /\ [Next]_vars => BackIsAboutToGo'
<1> SUFFICES ASSUME PurgeInv, BackIsAboutToGo, [Next]_vars
             PROVE  BackIsAboutToGo'
  OBVIOUS
<1>0. DOMAIN pc = Wipes
  BY DEF PurgeInv, TypeOK
<1>1. CASE \E w \in Wipes : FileStep(w)
  BY <1>1, SoundFileStepPreserves
<1>2. ASSUME NEW w \in Wipes, Press(w) \/ Teardown(w) \/ Report(w) \/ TaskDies(w)
      PROVE  BackIsAboutToGo'
  <2>1. /\ UNCHANGED << faults, disk, at >>
        /\ \E q \in {"teardown", "look", "reported", "died"} :
             /\ pc' = [pc EXCEPT ![w] = q]
             /\ q = "teardown" => pc[w] = "idle"
             /\ q = "look" => pc[w] = "teardown"
             /\ q = "reported" => pc[w] = "report"
             /\ q = "died" => pc[w] \in AtWork
    BY <1>2 DEF Press, Teardown, Report, TaskDies, Entry, report, rest
  <2>2. at[w] = 1 \/ pc[w] \in AtWork
    BY <1>2 DEF PurgeInv, Places, Press, Teardown, Report, TaskDies, AtWork
  <2>3. \A v \in Wipes : File(v)' = File(v)
    BY <2>1 DEF File
  <2>4. \A v \in Wipes : /\ pc[v] = "unlink" => pc'[v] \in {"unlink", "died"}
                         /\ pc[v] = "died" => pc'[v] = "died"
    BY <1>0, <2>1 DEF AtWork
  <2>5. \A v \in Wipes : pc'[v] \in AtWork \cup {"reported"} =>
          at[v] = 1 \/ pc[v] \in AtWork \cup {"reported"}
    BY <1>0, <2>1, <2>2
  <2>6. QED
    BY <2>1, <2>3, <2>4, <2>5 DEF BackIsAboutToGo
<1>3. CASE RecordCheck
  <2>1. /\ UNCHANGED << faults, pc, at >>
        /\ \/ disk' = disk
           \/ \E c \in {"small", "empty"} : disk' = [disk EXCEPT ![Stamp] = c]
    BY <1>3 DEF RecordCheck
  <2>2. \A i \in {1, 2, 4, 5} : disk'[Order[i]] = disk[Order[i]]
    <3>1. \A i \in {1, 2, 4, 5} : Order[i] \in Files /\ Order[i] # Stamp
      BY OrderFacts
    <3>2. QED
      BY <2>1, <3>1 DEF PurgeInv, TypeOK
  <2>3. QED
    BY <2>1, <2>2 DEF BackIsAboutToGo, File
<1>4. CASE ShowReport
  <2>1. UNCHANGED << faults, disk, pc, at >>
    BY <1>4 DEF ShowReport
  <2>2. QED
    BY <2>1 DEF BackIsAboutToGo, File
<1>5. CASE Restart
  <2>1. /\ faults' = faults
        /\ \A w \in Wipes : pc'[w] \in {"idle", "ended"}
    BY <1>5 DEF Restart
  <2>2. QED
    BY <2>1 DEF BackIsAboutToGo, AtWork
<1>6. CASE UNCHANGED vars
  BY <1>6 DEF vars, BackIsAboutToGo, File
<1>7. QED
  BY <1>1, <1>2, <1>3, <1>4, <1>5, <1>6 DEF Next, Task

\* When the last of any number of overlapping wipes has reported, and none has
\* met a fault or died, all but the check's stamp is gone, whatever ends of the
\* process have cut short before.
THEOREM GoneWhenQuietAlways == Spec => []GoneWhenQuiet
<1>1. Init => BackIsAboutToGo
  BY DEF Init, BackIsAboutToGo, AtWork
<1>2. PurgeInv /\ BackIsAboutToGo => GoneWhenQuiet
  <2> SUFFICES ASSUME PurgeInv, BackIsAboutToGo, ~faults, NEW w \in Wipes, Reported(w),
                      \A v \in Wipes : pc[v] \in {"idle", "report", "reported", "ended"},
                      NEW f \in Files \ {Stamp}
               PROVE  disk[f] = "absent"
    BY DEF GoneWhenQuiet
  <2>1. PICK i \in {1, 2, 4, 5} : f = Order[i]
    BY OrderFacts DEF Files
  <2>2. at[w] = 6 /\ pc[w] \in AtWork \cup {"reported"}
    BY OrderFacts DEF PurgeInv, Places, Reported, AtWork
  <2>3. QED
    BY <2>1, <2>2 DEF BackIsAboutToGo
<1>3. QED
  BY <1>1, <1>2, PurgeInvariant, SoundStep, PTL DEF Spec
=============================================================================
