---------------------------- MODULE ForensicWipe ----------------------------
(***************************************************************************)
(* rfc011::forensic_wipe and the handler that runs it (main.rs 953-991).   *)
(* A press runs one wipe on the blocking pool: teardown, then file after   *)
(* file a look, a measurement, a write of zeros and an unlink, each of     *)
(* which may fail.  Nothing keeps a second press, the update check or the  *)
(* end of the process from falling between two of those calls.             *)
(***************************************************************************)
EXTENDS Naturals, Sequences, FiniteSets

CONSTANTS Wipes,     \* the presses of the wipe button, over every launch
          Holds,     \* per file, what the state directory may hold at first
          Deaths,    \* may the blocking task end in a JoinError?
          Restarts,  \* how often the process may end and be launched again
          Blind      \* a bound: how many stats of path.exists() may fail

\* The marker goes first, the identity last (variant of Order).
OrderMarkerFirst == << "security.jsonl", "node_cache", "last_update_check",
                       "activation.json", "device_id" >>

\* The order of the purge (rfc011.rs 229-248).
Order == << "security.jsonl", "node_cache", "last_update_check",
            "device_id", "activation.json" >>
Stamp == "last_update_check"
Files == {Order[i] : i \in 1 .. Len(Order)}

\* "small" is up to 16 MiB of plain content, "large" more than that.
Contents == {"absent", "empty", "small", "large", "zeroed"}

ASSUME WipeAssumption ==
    /\ Holds \in [Files -> SUBSET (Contents \ {"zeroed"})]
    /\ Deaths \in BOOLEAN
    /\ Restarts \in Nat
    /\ Blind \in Nat

VARIABLES
    faults,    \* may calls on the file system fail? It never changes
    disk,      \* the app-owned files
    pc,        \* pc[w]: where wipe w is
    at,        \* at[w]: the file of Order it is at
    failed,    \* failed[w]: the files its report counts under steps_failed
    removed,   \* removed[w]: the files its report counts under files_removed
    posted,    \* closures the wipes have posted to the event loop
    status,    \* the status card, as far as wipes write it
    checking,  \* is an update check under way?
    left,      \* launches left
    unseen     \* history: unseen[w], the files that were there when w was told not

vars == << faults, disk, pc, at, failed, removed, posted, status, checking, left, unseen >>
report == << failed, removed >>

Init ==
    /\ faults \in BOOLEAN
    /\ disk \in {d \in [Files -> Contents] : \A f \in Files : d[f] \in Holds[f]}
    /\ pc = [w \in Wipes |-> "idle"]
    /\ at = [w \in Wipes |-> 1]
    /\ failed = [w \in Wipes |-> {}]
    /\ removed = [w \in Wipes |-> {}]
    /\ posted = << >>
    /\ status = "other"
    /\ checking \in BOOLEAN
    /\ left = Restarts
    /\ unseen = [w \in Wipes |-> {}]

File(w) == Order[at[w]]

\* The three app-owned files are looked at before secure_remove looks again.
Entry(i) == IF i <= 3 THEN "look" ELSE IF i <= Len(Order) THEN "check"
            ELSE "report"

Advance(w) ==
    /\ at' = [at EXCEPT ![w] = @ + 1]
    /\ pc' = [pc EXCEPT ![w] = Entry(at[w] + 1)]

\* What the loop does with an Ok of secure_remove: a removed device_id is
\* not counted, an activation.json that was never there is.
Succeed(w) ==
    /\ Advance(w)
    /\ removed' = [removed EXCEPT ![w] =
                     IF File(w) = "device_id" THEN @ ELSE @ \cup {File(w)}]
    /\ UNCHANGED failed

\* `?` on the failed removal: the purge stops there (variant of Fail).
FailStops(w) ==
    /\ pc' = [pc EXCEPT ![w] = "report"]
    /\ failed' = [failed EXCEPT ![w] = @ \cup {File(w)}]
    /\ UNCHANGED << at, removed >>

\* And with an Err: that of activation.json is dropped.
Fail(w) ==
    /\ Advance(w)
    /\ failed' = [failed EXCEPT ![w] =
                    IF File(w) = "activation.json" THEN @ ELSE @ \cup {File(w)}]
    /\ UNCHANGED removed

rest == << faults, posted, status, checking, left >>

Press(w) ==
    /\ pc[w] = "idle"
    /\ pc' = [pc EXCEPT ![w] = "teardown"]
    /\ status' = "WIPING..."
    /\ UNCHANGED << faults, disk, at, report, posted, checking, left, unseen >>

\* vpn.disconnect(): what it does to the tunnel is module Connection's.
Teardown(w) ==
    /\ pc[w] = "teardown"
    /\ pc' = [pc EXCEPT ![w] = Entry(1)]
    /\ UNCHANGED << disk, at, report, rest, unseen >>

\* Path::exists is false of a file that is there, too, when its stat fails.
Overlook(w) ==
    /\ faults
    /\ Cardinality({p \in Wipes \X Files : p[2] \in unseen[p[1]]}) < Blind
    /\ disk[File(w)] # "absent"
    /\ unseen' = [unseen EXCEPT ![w] = @ \cup {File(w)}]

Look(w) ==
    /\ pc[w] = "look"
    /\ \/ /\ disk[File(w)] = "absent" /\ UNCHANGED unseen
          /\ Advance(w)
       \/ Overlook(w) /\ Advance(w)
       \/ /\ disk[File(w)] # "absent"
          /\ pc' = [pc EXCEPT ![w] = "check"]
          /\ UNCHANGED << at, unseen >>
    /\ UNCHANGED << disk, report, rest >>

Check(w) ==
    /\ pc[w] = "check"
    /\ \/ /\ disk[File(w)] = "absent" /\ UNCHANGED unseen
          /\ Succeed(w)
       \/ Overlook(w) /\ Succeed(w)
       \/ /\ disk[File(w)] # "absent"
          /\ pc' = [pc EXCEPT ![w] = "measure"]
          /\ UNCHANGED << at, report, unseen >>
    /\ UNCHANGED << disk, rest >>

\* The comparison the other way round (variant of Measure).
MeasureTheOtherWay(w) ==
    /\ pc[w] = "measure"
    /\ \/ /\ disk[File(w)] \in {"empty", "large"}
          /\ pc' = [pc EXCEPT ![w] = "zero"]
          /\ UNCHANGED << at, report >>
       \/ /\ disk[File(w)] \in {"small", "zeroed"}
          /\ pc' = [pc EXCEPT ![w] = "unlink"]
          /\ UNCHANGED << at, report >>
       \/ /\ faults \/ disk[File(w)] = "absent"
          /\ Fail(w)
    /\ UNCHANGED << disk, rest, unseen >>

\* A file that is not overwritten is left alone (variant of Measure).
MeasureSmallOnly(w) ==
    /\ pc[w] = "measure"
    /\ \/ /\ disk[File(w)] \in {"small", "zeroed"}
          /\ pc' = [pc EXCEPT ![w] = "zero"]
          /\ UNCHANGED << at, report >>
       \/ /\ disk[File(w)] \in {"empty", "large"}
          /\ Succeed(w)
       \/ /\ faults \/ disk[File(w)] = "absent"
          /\ Fail(w)
    /\ UNCHANGED << disk, rest, unseen >>

\* std::fs::metadata: an empty or a large file is not overwritten.
Measure(w) ==
    /\ pc[w] = "measure"
    /\ \/ /\ disk[File(w)] \in {"small", "zeroed"}
          /\ pc' = [pc EXCEPT ![w] = "zero"]
          /\ UNCHANGED << at, report >>
       \/ /\ disk[File(w)] \in {"empty", "large"}
          /\ pc' = [pc EXCEPT ![w] = "unlink"]
          /\ UNCHANGED << at, report >>
       \/ /\ faults \/ disk[File(w)] = "absent"
          /\ Fail(w)
    /\ UNCHANGED << disk, rest, unseen >>

\* std::fs::write creates the file when another wipe has just removed it; a
\* write that fails leaves it as it was, or truncated.
Zero(w) ==
    /\ pc[w] = "zero"
    /\ \/ /\ disk' = [disk EXCEPT ![File(w)] = "zeroed"]
          /\ pc' = [pc EXCEPT ![w] = "unlink"]
          /\ UNCHANGED << at, report >>
       \/ /\ faults
          /\ disk' \in {disk, [disk EXCEPT ![File(w)] = "empty"]}
          /\ Fail(w)
    /\ UNCHANGED << rest, unseen >>

Unlink(w) ==
    /\ pc[w] = "unlink"
    /\ \/ /\ disk[File(w)] # "absent"
          /\ disk' = [disk EXCEPT ![File(w)] = "absent"]
          /\ Succeed(w)
       \/ /\ faults \/ disk[File(w)] = "absent"
          /\ Fail(w)
          /\ UNCHANGED disk
    /\ UNCHANGED << rest, unseen >>

Report(w) ==
    /\ pc[w] = "report"
    /\ pc' = [pc EXCEPT ![w] = "reported"]
    /\ posted' = Append(posted, w)
    /\ UNCHANGED << faults, disk, at, report, status, checking, left, unseen >>

AtWork == {"teardown", "look", "check", "measure", "zero", "unlink", "report"}

\* A panic in the task: `unwrap_or_default` makes an empty report of it.
TaskDies(w) ==
    /\ Deaths
    /\ pc[w] \in AtWork \ {"report"}
    /\ pc' = [pc EXCEPT ![w] = "died"]
    /\ failed' = [failed EXCEPT ![w] = {}]
    /\ removed' = [removed EXCEPT ![w] = {}]
    /\ posted' = Append(posted, w)
    /\ UNCHANGED << faults, disk, at, status, checking, left, unseen >>

ShowReport ==
    /\ posted # << >>
    /\ posted' = Tail(posted)
    /\ status' = IF failed[Head(posted)] = {} THEN "WIPED" ELSE "WIPED (FAILED)"
    /\ UNCHANGED << faults, disk, pc, at, report, checking, left, unseen >>

\* UpdateNotice::record_check, when the fetch of the update task comes back: a
\* write that fails leaves the stamp as it was, or truncated.
RecordCheck ==
    /\ checking
    /\ checking' = FALSE
    /\ \/ disk' = [disk EXCEPT ![Stamp] = "small"]
       \/ faults /\ disk' \in {disk, [disk EXCEPT ![Stamp] = "empty"]}
    /\ UNCHANGED << faults, pc, at, report, posted, status, left, unseen >>

\* The process ends between any two calls and is launched again, when an
\* unreadable stamp makes an update check due.
Restart ==
    /\ left > 0
    /\ left' = left - 1
    /\ pc' = [w \in Wipes |-> IF pc[w] = "idle" THEN "idle" ELSE "ended"]
    /\ posted' = << >>
    /\ status' = "other"
    /\ checking' \in IF disk[Stamp] = "small" THEN BOOLEAN ELSE {TRUE}
    /\ UNCHANGED << faults, disk, at, report, unseen >>

FileStep(w) == Look(w) \/ Check(w) \/ Measure(w) \/ Zero(w) \/ Unlink(w)
Task(w) == Teardown(w) \/ FileStep(w) \/ Report(w)

Next ==
    \/ \E w \in Wipes : Press(w) \/ Task(w) \/ TaskDies(w)
    \/ ShowReport \/ RecordCheck \/ Restart

\* The blocking pool runs what is spawned and the event loop what is posted.
Fairness == WF_vars(ShowReport) /\ \A w \in Wipes : WF_vars(Task(w))

Spec == Init /\ [][Next]_vars /\ Fairness
-----------------------------------------------------------------------------
TypeOK ==
    /\ faults \in BOOLEAN
    /\ disk \in [Files -> Contents]
    /\ pc \in [Wipes -> AtWork \cup {"idle", "reported", "died", "ended"}]
    /\ at \in [Wipes -> 1 .. Len(Order) + 1]
    /\ \A w \in Wipes : pc[w] \in AtWork \ {"teardown", "report"} =>
                          at[w] <= Len(Order)
    /\ failed \in [Wipes -> SUBSET Files]
    /\ removed \in [Wipes -> SUBSET Files]
    /\ posted \in Seq(Wipes)
    /\ status \in {"other", "WIPING...", "WIPED", "WIPED (FAILED)"}
    /\ checking \in BOOLEAN
    /\ left \in 0 .. Restarts
    /\ unseen \in [Wipes -> SUBSET Files]

Reported(w) == pc[w] \in {"report", "reported"}

\* Wipe v has made file f again, or may have, after another wipe removed it.
MadeAgain(v, f) ==
    \/ pc[v] = "unlink" /\ File(v) = f
    \/ f \in failed[v]
    \/ pc[v] = "died"

\* SAFETY.  No failure stops the purge (rfc011.rs 207-208), and what it could
\* not remove its report names: the log, the cache and the identity are gone
\* or reported, however many wipes overlap, but for a file whose stat failed,
\* which path.exists() passes over in silence (rfc011.rs 231, 258).
WhatIsLeftIsReported ==
    \A w \in Wipes, f \in {"security.jsonl", "node_cache", "device_id"} :
        (Reported(w) /\ disk[f] # "absent") =>
            \/ f \in failed[w] \cup unseen[w]
            \/ \E v \in Wipes \ {w} : MadeAgain(v, f)

\* SAFETY.  Overwrite, then unlink (rfc011.rs 255): no step removes a file of
\* up to 16 MiB that still holds its content.  Only the update check writes
\* a file again, and only its own stamp, which tells nothing.
NeverUnlinkedInTheClear ==
    [][\A f \in Files \ {Stamp} : disk[f] = "small" => disk'[f] # "absent"]_vars

\* SAFETY.  The order of the purge (rfc011.rs 10-12): the marker whose removal
\* makes the next launch a first run goes only when the identity and the log
\* have gone, or a wipe could not remove or could not see them or is making
\* them again.  So a process that ends half way never leaves a first run with
\* the old identity for that reason alone.
FirstRunHasNoIdentity ==
    [][(disk["activation.json"] # "absent" /\ disk'["activation.json"] = "absent")
         => \A f \in {"device_id", "security.jsonl"} :
                \/ disk[f] = "absent"
                \/ \E v \in Wipes : f \in unseen[v] \/ MadeAgain(v, f)]_vars

\* SAFETY.  Wipes that meet no fault leave nothing behind between them: when
\* the last of any number of overlapping wipes has reported, all is gone, also
\* what a process that ended half way through some of them had left.
GoneWhenQuiet ==
    (/\ ~faults
     /\ \E w \in Wipes : Reported(w)
     /\ \A w \in Wipes : pc[w] \in {"idle", "report", "reported", "ended"})
        => \A f \in Files \ {Stamp} : disk[f] = "absent"

\* SAFETY.  The report shows "exactly what succeeded" (rfc011.rs 207-208): a wipe
\* that reports no failed step leaves no file for want of seeing it.
ReportIsComplete ==
    \A w \in Wipes : pc[w] = "reported" /\ failed[w] = {} => unseen[w] = {}

\* SAFETY.  The card says WIPED only if the state is "uninstalled-like"
\* (rfc011.rs 245-246, main.slint 1198).
WipedMeansGone ==
    status = "WIPED" => \A f \in Files : disk[f] = "absent"

\* SAFETY.  The report counts a file as removed when it was there to remove
\* (rfc011.rs 207-208, "exactly what succeeded").
RemovedWasThere ==
    [][\A w \in Wipes : \A f \in removed'[w] \ removed[w] :
            disk[f] # "absent"]_vars

\* LIVENESS.  A wipe that is pressed ends on the card, whatever fails.
WipingEnds == status = "WIPING..." ~> status # "WIPING..."
-----------------------------------------------------------------------------
(* The inductive invariant behind the safety properties.                   *)

\* A wipe that has not begun is before the first file, one that has its
\* report is past the last.
Places == \A w \in Wipes :
    /\ pc[w] \in {"idle", "teardown"} => at[w] = 1
    /\ pc[w] \in {"report", "reported"} => at[w] = Len(Order) + 1

\* A wipe stands before an unlink only when the content has gone.
ClearedAtUnlink == \A w \in Wipes :
    (pc[w] = "unlink" /\ File(w) # Stamp) => disk[File(w)] # "small"

\* What a wipe has passed is gone, in its report, was not seen, or is being made
\* again.
PastIsPurged == \A w \in Wipes, i \in {1, 2, 4} :
    (pc[w] \in AtWork \cup {"reported"} /\ i < at[w]) =>
        \/ disk[Order[i]] = "absent"
        \/ Order[i] \in failed[w] \cup unseen[w]
        \/ \E v \in Wipes \ {w} : MadeAgain(v, Order[i])

PurgeInv == TypeOK /\ Places /\ ClearedAtUnlink /\ PastIsPurged

\* Without faults a file comes back behind a wipe only as the zeros another is
\* about to unlink, or has left there when its task died.
BackIsAboutToGo == ~faults => \A w \in Wipes, i \in {1, 2, 4, 5} :
    (pc[w] \in AtWork \cup {"reported"} /\ i < at[w]) =>
        \/ disk[Order[i]] = "absent"
        \/ \E v \in Wipes \ {w} : \/ pc[v] = "unlink" /\ File(v) = Order[i]
                                 \/ pc[v] = "died"
=============================================================================
