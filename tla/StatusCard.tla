----------------------------- MODULE StatusCard -----------------------------
(***************************************************************************)
(* What every handler that writes the status card promises of it           *)
(* (main.rs 259-989): work is begun under a label that says so, and ended  *)
(* by a closure that writes another.  Nothing orders the ends of different *)
(* pieces of work, and nothing keeps one from writing over another's       *)
(* label.  Desktop implements it for all of its writers, Window for its    *)
(* own.                                                                    *)
(***************************************************************************)
EXTENDS Naturals

CONSTANTS
  Work,      \* the pieces of work: one per press, and the update check
  Kind       \* Kind[w]: which handler's it is

Kinds == {"connect", "disconnect", "pair", "login", "wipe", "update"}

ASSUME CardAssumption == Kind \in [Work -> Kinds]

VARIABLES
  status,    \* the text of the card
  out        \* the work that has begun and whose last closure has not run

cardVars == <<status, out>>

Begun ==
  [connect |-> {"CONNECTING..."}, disconnect |-> {"DISCONNECTING..."},
   pair |-> {"PAIRING..."}, login |-> {"AUTHENTICATING..."}, wipe |-> {"WIPING..."},
   update |-> {}]

Ended ==
  [connect    |-> {"CONNECTED", "CONNECT FAILED", "DAEMON UNREACHABLE"},
   disconnect |-> {"DISCONNECTED", "DISCONNECT FAILED", "DISCONNECT REFUSED",
                   "DISCONNECTED (daemon offline)"},
   pair       |-> {"CONNECTED", "PAIRING EXPIRED", "PAIRING FAILED"},
   login      |-> {"AUTHENTICATED", "AUTHENTICATION FAILED"},
   wipe       |-> {"WIPED", "WIPED (FAILED)"},
   update     |-> {"UPDATE AVAILABLE"}]

AutostartLabels == {"AUTOSTART ON", "AUTOSTART OFF", "AUTOSTART FAILED"}

Working == {"CONNECTING...", "DISCONNECTING...", "PAIRING...", "AUTHENTICATING...", "WIPING..."}

\* The launch begins an update check without a word, if one is due.
CardInit ==
  /\ status = "IDLE"
  /\ out \in {{}} \cup {{w} : w \in {v \in Work : Kind[v] = "update"}}

Begin(w) ==
  /\ w \notin out
  /\ out' = out \cup {w}
  /\ status' \in Begun[Kind[w]]

\* An end that keeps to itself whatever the work was (variant of End).
EndSilently(w) ==
  /\ w \in out
  /\ out' = out \ {w}
  /\ status' \in Ended[Kind[w]] \cup {status}

\* Only a check that finds nothing new says nothing.
End(w) ==
  /\ w \in out
  /\ out' = out \ {w}
  /\ status' \in Ended[Kind[w]] \cup (IF Kind[w] = "update" THEN {status} ELSE {})

\* The autostart handler does its work and reports it in one go.
Report ==
  /\ status' \in AutostartLabels
  /\ UNCHANGED out

CardNext ==
  \/ \E w \in Work : Begin(w) \/ End(w)
  \/ Report

CardFairness == \A w \in Work : WF_cardVars(End(w))

CardSafety == CardInit /\ [][CardNext]_cardVars
CardSpec == CardSafety /\ CardFairness
-----------------------------------------------------------------------------
\* The kinds a label of work in progress may stand for.
Saying(label) == {k \in Kinds : label \in Begun[k]}

\* SAFETY.  A label that says work is going on is never the remains of work
\* that is over, whatever has overlapped.
WorkingIsOut == status \in Working => \E w \in out : Kind[w] \in Saying(status)

\* LIVENESS.  No label of work in progress stays for ever: the work it stands
\* for is ended by a closure that writes another.
WorkingEnds == status \in Working ~> status \notin Working

\* The typed form of WorkingIsOut, which is inductive.
CardInv ==
  /\ out \subseteq Work
  /\ WorkingIsOut
=============================================================================
