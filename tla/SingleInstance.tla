--------------------------- MODULE SingleInstance ---------------------------
(***************************************************************************)
(* The single-instance guard (single_instance.rs), between processes that  *)
(* are launched, run and end in any order.  On Unix a launch unlinks the   *)
(* socket at the lock path and binds its own; on Windows it creates the    *)
(* lock file, or opens the one that is there.  Nothing removes either when *)
(* a process ends.                                                         *)
(***************************************************************************)
EXTENDS Naturals, FiniteSets

CONSTANTS Processes,   \* launches of the program
          NoProcess

ASSUME InstanceAssumption == NoProcess \notin Processes

VARIABLES
    windows, \* is this the Windows build? It never changes
    pc,      \* pc[p]: how far the launch of p has come
    path,    \* whose socket or file is at the lock path
    rivals,  \* rivals[p]: history, the launches that overlap that of p
    faulted  \* history: has a call on the lock path failed?

guardVars == << windows, pc, path, rivals, faulted >>

Launching == {"try", "bind", "open"}

GuardInit ==
    /\ windows \in BOOLEAN
    /\ pc = [p \in Processes |-> "off"]
    /\ path = NoProcess
    /\ rivals = [p \in Processes |-> {}]
    /\ faulted = FALSE

\* A launch that starts now meets those that have not decided yet.
Enter(p) ==
    /\ pc[p] = "off"
    /\ pc' = [pc EXCEPT ![p] = "try"]
    /\ LET open == {q \in Processes : pc[q] \in Launching} IN
       rivals' = [q \in Processes |->
                    IF q = p THEN open
                    ELSE IF q \in open THEN rivals[q] \cup {p} ELSE rivals[q]]
    /\ UNCHANGED << windows, path, faulted >>

Decide(p, verdict) ==
    /\ pc' = [pc EXCEPT ![p] = verdict]
    /\ UNCHANGED << windows, rivals >>

NoFault == UNCHANGED faulted
Fault   == faulted' = TRUE

\* A launch that leaves the old socket where it is (variant of Unlink).
UnlinkNothing(p) ==
    /\ ~windows
    /\ pc[p] = "try"
    /\ Decide(p, "bind")
    /\ NoFault /\ UNCHANGED path

\* try_lock_unix 84: whatever is there, and whoever listens on it.
Unlink(p) ==
    /\ ~windows
    /\ pc[p] = "try"
    /\ Decide(p, "bind")
    /\ \/ path' = NoProcess /\ NoFault
       \/ Fault /\ UNCHANGED path

\* Any other error: fail-open.
BindFails(p) ==
    /\ ~windows
    /\ pc[p] = "bind"
    /\ Decide(p, "running")
    /\ Fault /\ UNCHANGED path

Bind(p) ==
    /\ ~windows
    /\ pc[p] = "bind"
    /\ path = NoProcess
    /\ path' = p
    /\ Decide(p, "running")
    /\ NoFault

\* EADDRINUSE is about the path, not about a listener.
BindInUse(p) ==
    /\ ~windows
    /\ pc[p] = "bind"
    /\ path # NoProcess
    /\ Decide(p, "refused")
    /\ NoFault /\ UNCHANGED path

\* A guard that refuses when it cannot create its file (variant of CreateNew).
CreateNewFailsClosed(p) ==
    /\ windows
    /\ pc[p] = "try"
    /\ \/ path = NoProcess /\ path' = p /\ Decide(p, "running") /\ NoFault
       \/ path # NoProcess /\ Decide(p, "open") /\ NoFault /\ UNCHANGED path
       \/ Decide(p, "refused") /\ Fault /\ UNCHANGED path

\* try_lock_windows: create_new, or any error but AlreadyExists.
CreateNew(p) ==
    /\ windows
    /\ pc[p] = "try"
    /\ \/ path = NoProcess /\ path' = p /\ Decide(p, "running") /\ NoFault
       \/ path # NoProcess /\ Decide(p, "open") /\ NoFault /\ UNCHANGED path
       \/ Decide(p, "running") /\ Fault /\ UNCHANGED path

\* std's OpenOptions shares reading, writing and deleting: an open of a file
\* that another process holds succeeds.
OpenExisting(p) ==
    /\ windows
    /\ pc[p] = "open"
    /\ \/ Decide(p, "running") /\ NoFault
       \/ Decide(p, "refused") /\ Fault
    /\ UNCHANGED path

\* The process ends, cleanly or not: the path keeps what it has.
Stop(p) ==
    /\ \/ pc[p] \in Launching /\ Decide(p, "killed")
       \/ pc[p] = "running" /\ Decide(p, "stopped")
    /\ NoFault /\ UNCHANGED path

TryLock(p) == \/ Unlink(p) \/ Bind(p) \/ BindInUse(p) \/ BindFails(p)
             \/ CreateNew(p) \/ OpenExisting(p)

GuardNext == \E p \in Processes : Enter(p) \/ TryLock(p) \/ Stop(p)

GuardSpec == GuardInit /\ [][GuardNext]_guardVars
-----------------------------------------------------------------------------
GuardTypeOK ==
    /\ windows \in BOOLEAN /\ faulted \in BOOLEAN
    /\ pc \in [Processes -> Launching \cup
                            {"off", "running", "refused", "stopped", "killed"}]
    /\ path \in Processes \cup {NoProcess}
    /\ rivals \in [Processes -> SUBSET Processes]

\* SAFETY.  Until a call on the lock path fails, a launch that overlaps no
\* other is never refused, whatever earlier launches, clean or killed, have
\* left at the path (single_instance.rs 81-84).
NeverRefusedAlone ==
    ~faulted => \A p \in Processes : pc[p] = "refused" => rivals[p] # {}

\* SAFETY.  Launches that race never refuse each other until none is left, and
\* no fault makes the guard refuse everybody ("the app never refuses to
\* start", single_instance.rs 53-57): who is refused is refused for a launch
\* that has got the guard, though it may have ended since.
RefusedForARival ==
    (\E p \in Processes : pc[p] = "refused") =>
        \E q \in Processes : pc[q] \in {"running", "stopped"}

\* SAFETY.  Two processes never run at once (single_instance.rs 9-12), as far
\* as no call fails, which is fail-open: on Unix, where "a second instance
\* fails the bind" (80-82), and on Windows, where it fails the open (125-127).
AtMostOneRunning == Cardinality({p \in Processes : pc[p] = "running"}) <= 1
AtMostOneOnUnix == (~windows /\ ~faulted) => AtMostOneRunning
AtMostOneOnWindows == (windows /\ ~faulted) => AtMostOneRunning

\* SAFETY.  A launch is refused only while another instance holds the guard
\* (single_instance.rs 49-50), never by what one that has ended left behind.
RefusedByALiveOne ==
    [][\A p \in Processes :
         (pc[p] # "refused" /\ pc'[p] = "refused")
            => \E q \in Processes : pc[q] = "running"]_guardVars
-----------------------------------------------------------------------------
(* The inductive invariants behind the two.                                *)

\* While a launch is about to bind, whatever is at the path has been put
\* there by a launch that overlaps its own.
PathIsARivals ==
    ~faulted =>
        /\ \A p \in Processes : pc[p] = "bind" =>
              path = NoProcess \/ path \in rivals[p]
        /\ \A p, q \in Processes : (p # q /\ {pc[p], pc[q]} \subseteq Launching)
              => q \in rivals[p]
        /\ NeverRefusedAlone

\* Only a launch that has got the guard leaves something at the path.
PathIsAHolders ==
    /\ path # NoProcess => pc[path] \in {"running", "stopped"}
    /\ (\E p \in Processes : pc[p] = "open") =>
          \E q \in Processes : pc[q] \in {"running", "stopped"}
    /\ RefusedForARival

GuardInv == GuardTypeOK /\ PathIsARivals /\ PathIsAHolders
=============================================================================
