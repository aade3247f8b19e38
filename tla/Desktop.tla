------------------------------ MODULE Desktop -------------------------------
(***************************************************************************)
(* The handlers that write the status card, in one state space (main.rs    *)
(* 259-991): connecting and pairing as they are in their own modules, and  *)
(* the handlers of the window (login, wipe, update check, autostart) as    *)
(* Window has been shown to implement StatusCard.  They share the card,    *)
(* which is also what decides whether the primary button connects or       *)
(* disconnects, and nothing orders any two of them.                        *)
(***************************************************************************)
EXTENDS Naturals, Sequences

CONSTANTS
  Connects, Disconnects, MaxStops,             \* of Connection
  Generates, NoToken, MaxPolls, MaxCancels,    \* of Pairing
  Others, OtherKind                            \* the window's pieces of work

ASSUME DesktopAssumption ==
  /\ Connects \cap Disconnects = {} /\ MaxStops \in Nat
  /\ NoToken \notin Generates /\ MaxPolls \in Nat \ {0} /\ MaxCancels \in Nat
  /\ (Connects \cup Disconnects) \cap (Generates \cup Others) = {}
  /\ Generates \cap Others = {}
  /\ OtherKind \in [Others -> {"login", "wipe", "update"}]

VARIABLES
  status,    \* the card
  stage, outcome, core_ok, daemon, tunnel, left, stops, overlapped, moved_by,
  pairing_token, pairing_waiting, pairing_qr, task, polls, posted, session,
  scanned, cancels, dismissed,
  others     \* the window's work that is out

connectingVars == <<stage, outcome, core_ok, daemon, tunnel, left, stops, overlapped, moved_by>>
pairingVars == <<pairing_token, pairing_waiting, pairing_qr, task, polls, posted, session,
                 scanned, cancels, dismissed>>
vars == <<status, connectingVars, pairingVars, others>>

Connecting == INSTANCE Connection
Pairing == INSTANCE Pairing
Elsewhere == INSTANCE StatusCard WITH Work <- Others, Kind <- OtherKind, out <- others

Init == Connecting!Init /\ Pairing!Init /\ Elsewhere!CardInit

Next ==
  \/ Connecting!Next /\ UNCHANGED <<pairingVars, others>>
  \/ Pairing!Next /\ UNCHANGED <<connectingVars, others>>
  \/ Elsewhere!CardNext /\ UNCHANGED <<connectingVars, pairingVars>>

Fairness == Connecting!Fairness /\ Pairing!Fairness /\ Elsewhere!CardFairness

Spec == Init /\ [][Next]_vars /\ Fairness

-----------------------------------------------------------------------------
Approved == \E g \in Generates \cap scanned : session[g] = "activated"

\* SAFETY.  What lights the card is an answer: however presses of any kind
\* overlap and whatever has overwritten the card since, CONNECTED stands only
\* after the daemon has served a connect whose closure has run, or the phone
\* has approved a code it scanned here.
ConnectedIsWitnessed ==
  status = "CONNECTED" =>
    \/ \E c \in Connects : stage[c] = "done" /\ outcome[c] = "success"
    \/ Approved

\* SAFETY.  "The truth comes from the daemon round-trip" (main.rs 254-257) with
\* every writer of the card at work: if connects and disconnects were made one
\* at a time and are over, the card reads CONNECTED only where there is a tunnel
\* or a pairing has lit it, and DISCONNECTED only where there is none, unless
\* the daemon has moved the tunnel since: by stopping, or for a request that
\* had been given up.
CardIsTrueOneAtATime ==
  Connecting!Quiet /\ ~overlapped =>
    /\ status = "CONNECTED" => tunnel = "up" \/ moved_by \in {"left", "stop"} \/ Approved
    /\ status = "DISCONNECTED" => tunnel = "down" \/ moved_by = "left"

\* SAFETY.  A panel that waits is polled for, whoever else is at work (main.rs
\* 400-470).
PanelIsPolledFor == Pairing!WaitingIsPolled

\* All of the work, of whatever handler, and what of it is out.
Work == Connecting!Ops \cup Generates \cup Others
Kind == [w \in Work |-> CASE w \in Connects    -> "connect"
                         [] w \in Disconnects -> "disconnect"
                         [] w \in Generates   -> "pair"
                         [] w \in Others      -> OtherKind[w]]
WorkOut == {o \in Connecting!Ops : Connecting!InFlight(o)}
             \cup {g \in Generates : Pairing!InFlight(g)} \cup others

Card == INSTANCE StatusCard WITH out <- WorkOut

\* REFINEMENT.  Every writer of the card, in any interleaving with the rest,
\* writes it as StatusCard promises.
ImplementsCard == Card!CardSafety

\* LIVENESS.  The card does not stay at a label of work in progress, whoever
\* writes over whom (main.rs 264, 331, 400, 693, 962).
WorkingEnds == status \in Card!Working ~> status \notin Card!Working

-----------------------------------------------------------------------------
(* The inductive invariant (DesktopProofs): what Connection and Pairing rely *)
(* on apart from the card, and the card.                                     *)
ConnectingInv ==
  /\ stage \in [Connecting!Ops -> {"idle", "core", "asking", "served", "answered", "done"}]
  /\ outcome \in [Connecting!Ops -> {"none", "success", "refused", "unreachable"}]
  /\ core_ok \in [Disconnects -> BOOLEAN]
  /\ tunnel \in {"up", "down"}
  /\ Connecting!AnswersHaveOutcomes
  /\ Connecting!OneAtATime /\ Connecting!OutcomesAreTrue

PairingTypes ==
  /\ task \in [Generates -> {"idle", "generating", "polling", "done"}]
  /\ session \in [Generates -> {"none", "pending", "activated"}]
  /\ posted \in Seq(Pairing!Closure)

EndKinds == {"activated", "expired", "failed"}

\* A task posts one end, and is done then.
EndsAreOfTheDone ==
  \A k \in 1..Len(posted) : posted[k].kind \in EndKinds =>
    /\ task[posted[k].of] = "done"
    /\ \A j \in 1..Len(posted) :
         posted[j].kind \in EndKinds /\ posted[j].of = posted[k].of => j = k

PairingPartInv ==
  /\ PairingTypes
  /\ EndsAreOfTheDone
  /\ Pairing!SessionsAreMadeOnce /\ Pairing!ApprovalsAreReal

DesktopInv ==
  /\ ConnectingInv
  /\ PairingPartInv
  /\ others \subseteq Others
  /\ ConnectedIsWitnessed
  /\ CardIsTrueOneAtATime

-----------------------------------------------------------------------------
\* "Ordered ... tunnel teardown" comes first (rfc011.rs 10-11, main.rs 953):
\* when a wipe has reported and no operation is out, there is no tunnel.
WipedHasNoTunnel == status = "WIPED" /\ Connecting!Quiet => tunnel = "down"
=============================================================================
