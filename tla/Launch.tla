------------------------------- MODULE Launch -------------------------------
(***************************************************************************)
(* The first steps of main (main.rs 114-206) for every process launched:   *)
(* the posture against dumps (dumpability.rs 47-92), the guard as it is in *)
(* SingleInstance, then windows, tray and core, any of which may fail, and *)
(* the handlers, whose tasks resolve the daemon's credential.              *)
(*                                                                         *)
(* The kernels are external: a Linux that pipes its cores ignores the      *)
(* limit, and only the attribute closes the image to cores and to peers;   *)
(* macOS honours the limit (dumpability.rs 12-20, 38-40).                  *)
(***************************************************************************)
EXTENDS SingleInstance

VARIABLES
    host,        \* what the program was built for. It never changes
    stage,       \* stage[p]: how far main has come, the guard apart
    posture,     \* posture[p]: what apply() achieved
    credential   \* the processes in whose memory the credential is

launchVars == << guardVars, host, stage, posture, credential >>

LaunchInit ==
    /\ host \in {"linux", "macos", "windows"}
    /\ GuardInit
    /\ windows = (host = "windows")
    /\ stage = [p \in Processes |-> "off"]
    /\ posture = [p \in Processes |-> {}]
    /\ credential = {}

\* set_core_rlimit_zero: a refusal is printed, and that is all.
Limits == IF host = "windows" THEN {{}} ELSE {{"limit"}, {"printed"}}

\* A kernel's refusal that is printed like the limit's (variant of Apply).
ApplyBestEffort(p) ==
    /\ stage[p] = "off"
    /\ \E limit \in Limits, attribute \in {{}, {"attribute"}} :
         posture' = [posture EXCEPT ![p] = limit \cup attribute]
    /\ stage' = [stage EXCEPT ![p] = "applied"]
    /\ UNCHANGED << guardVars, host, credential >>

\* apply: on Linux the attribute comes first, and a refusal panics.
Apply(p) ==
    /\ stage[p] = "off"
    /\ \/ /\ host = "linux"
          /\ stage' = [stage EXCEPT ![p] = "panicked"]
          /\ UNCHANGED posture
       \/ /\ stage' = [stage EXCEPT ![p] = "applied"]
          /\ \E limit \in Limits :
               posture' = [posture EXCEPT ![p] =
                             limit \cup (IF host = "linux" THEN {"attribute"} ELSE {})]
    /\ UNCHANGED << guardVars, host, credential >>

\* acquire_lock, from its first call to its answer.
Guard(p) ==
    /\ stage[p] = "applied"
    /\ Enter(p) \/ TryLock(p)
    /\ UNCHANGED << host, stage, posture, credential >>

\* Windows, tray and core are there and the event loop runs.
BringUp(p) ==
    /\ stage[p] = "applied" /\ pc[p] = "running"
    /\ stage' = [stage EXCEPT ![p] = "up"]
    /\ UNCHANGED << guardVars, host, posture, credential >>

\* A press of connect, disconnect or GENERATE: DaemonClient::connect.
AskDaemon(p) ==
    /\ stage[p] = "up" /\ pc[p] = "running"
    /\ credential' = credential \cup {p}
    /\ UNCHANGED << guardVars, host, stage, posture >>

\* The process ends: killed, closed, crashed, or by a `?` of main when a
\* window, the tray or the core could not be made.
ProcessEnds(p) ==
    /\ Stop(p)
    /\ UNCHANGED << host, stage, posture, credential >>

LaunchNext ==
    \E p \in Processes : Apply(p) \/ Guard(p) \/ BringUp(p) \/ AskDaemon(p) \/ ProcessEnds(p)

LaunchSpec == LaunchInit /\ [][LaunchNext]_launchVars
-----------------------------------------------------------------------------
\* SAFETY.  The credential is never in memory the system would write out for
\* a crash or show to a peer (dumpability.rs 62-66): on Linux, whatever the
\* kernel answered, and on macOS unless the refusal has been printed.  On
\* Windows nothing is claimed.
CredentialIsClosed ==
    \A p \in credential :
        /\ host = "linux" => "attribute" \in posture[p]
        /\ host = "macos" => posture[p] # {}
-----------------------------------------------------------------------------
\* Behind it: no process comes past apply() open.
LaunchInv ==
    /\ stage \in [Processes -> {"off", "panicked", "applied", "up"}]
    /\ posture \in [Processes -> SUBSET {"limit", "printed", "attribute"}]
    /\ credential \subseteq {p \in Processes : stage[p] = "up"}
    /\ \A p \in Processes : stage[p] \in {"applied", "up"} =>
         /\ host = "linux" => "attribute" \in posture[p]
         /\ host = "macos" => posture[p] # {}
=============================================================================
