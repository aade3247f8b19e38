------------------------------ MODULE Pairing ------------------------------
(***************************************************************************)
(* Device pairing (main.rs:380-486, the panel of main.slint:1209-1280).    *)
(* Each press of GENERATE starts a task of its own: it asks the daemon for *)
(* a session token, posts it to the panel, polls the daemon a bounded      *)
(* number of times and posts how it ended.  Nothing ends an earlier task   *)
(* when a later one starts, and CANCEL clears the panel only.              *)
(*                                                                         *)
(* What tasks and handlers post with invoke_from_event_loop is a FIFO the  *)
(* UI thread takes one closure at a time from.  The daemon and the phone   *)
(* are external: a session is pending from the answer to Generate and is   *)
(* activated when the phone, having scanned its code, approves it.         *)
(***************************************************************************)
EXTENDS Naturals, Sequences

CONSTANTS
  Generates,    \* the presses of GENERATE or REGENERATE; each names its token
  NoToken,      \* the panel's empty token, and its blank image
  MaxPolls,     \* how often a task polls (60 in the code, every five seconds)
  MaxCancels    \* bound: how often CANCEL is pressed

ASSUME PairingAssumption ==
  /\ NoToken \notin Generates
  /\ MaxPolls \in Nat \ {0}
  /\ MaxCancels \in Nat

VARIABLES
  status,           \* the status card
  pairing_token,    \* the token the panel holds
  pairing_waiting,  \* TRUE: the panel says it waits for an approval
  pairing_qr,       \* the token whose code the panel's image shows
  task,             \* per press: where its task is
  polls,            \* per press: the polls made
  posted,           \* the event loop's queue of closures
  session,          \* per token, in the daemon: "none", "pending", "activated"
  scanned           \* the tokens the phone has scanned

\* History: CANCEL presses; the tokens CANCEL took off the panel.
VARIABLES cancels, dismissed

panel == <<pairing_token, pairing_waiting, pairing_qr>>
world == <<session, scanned>>
vars  == <<status, panel, task, polls, posted, world, cancels, dismissed>>

Init ==
  /\ status = "IDLE"
  /\ pairing_token = NoToken
  /\ pairing_waiting = FALSE
  /\ pairing_qr = NoToken
  /\ task = [g \in Generates |-> "idle"]
  /\ polls = [g \in Generates |-> 0]
  /\ posted = <<>>
  /\ session = [g \in Generates |-> "none"]
  /\ scanned = {}
  /\ cancels = 0
  /\ dismissed = {}

Post(kind, g) == posted' = Append(posted, [kind |-> kind, of |-> g])

-----------------------------------------------------------------------------
\* GENERATE: the card says so and the task starts.
ClickGenerate(g) ==
  /\ task[g] = "idle"
  /\ status' = "PAIRING..."
  /\ task' = [task EXCEPT ![g] = "generating"]
  /\ UNCHANGED <<panel, polls, posted, world, cancels, dismissed>>

\* The daemon answers with a token: its closure is posted, the polls begin.
Generated(g) ==
  /\ task[g] = "generating"
  /\ session' = [session EXCEPT ![g] = "pending"]
  /\ Post("token", g)
  /\ task' = [task EXCEPT ![g] = "polling"]
  /\ UNCHANGED <<status, panel, polls, scanned, cancels, dismissed>>

\* A task that gives up without a word (variant of GenerateFails).
GenerateFailsSilently(g) ==
  /\ task[g] = "generating"
  /\ task' = [task EXCEPT ![g] = "done"]
  /\ UNCHANGED <<status, panel, polls, posted, world, cancels, dismissed>>

\* The daemon is not there, or what it answers is not a token (qr_token).
GenerateFails(g) ==
  /\ task[g] = "generating"
  /\ Post("failed", g)
  /\ task' = [task EXCEPT ![g] = "done"]
  /\ UNCHANGED <<status, panel, polls, world, cancels, dismissed>>

\* A poll that takes any answer of the daemon for an approval (variant of
\* PollActivated).
PollActivatedOnAnyAnswer(g) ==
  /\ task[g] = "polling"
  /\ polls[g] < MaxPolls
  /\ Post("activated", g)
  /\ task' = [task EXCEPT ![g] = "done"]
  /\ UNCHANGED <<status, panel, polls, world, cancels, dismissed>>

\* A poll finds the session activated: the task posts that and ends.
PollActivated(g) ==
  /\ task[g] = "polling"
  /\ polls[g] < MaxPolls
  /\ session[g] = "activated"
  /\ Post("activated", g)
  /\ task' = [task EXCEPT ![g] = "done"]
  /\ UNCHANGED <<status, panel, polls, world, cancels, dismissed>>

\* A poll finds nothing, or finds no daemon.
PollNothing(g) ==
  /\ task[g] = "polling"
  /\ polls[g] < MaxPolls
  /\ polls' = [polls EXCEPT ![g] = @ + 1]
  /\ UNCHANGED <<status, panel, task, posted, world, cancels, dismissed>>

\* A task whose last poll is followed by nothing (variant of PollsRunOut).
PollsRunOutSilently(g) ==
  /\ task[g] = "polling"
  /\ polls[g] = MaxPolls
  /\ task' = [task EXCEPT ![g] = "done"]
  /\ UNCHANGED <<status, panel, polls, posted, world, cancels, dismissed>>

\* After the last poll the task posts that the code has expired.
PollsRunOut(g) ==
  /\ task[g] = "polling"
  /\ polls[g] = MaxPolls
  /\ Post("expired", g)
  /\ task' = [task EXCEPT ![g] = "done"]
  /\ UNCHANGED <<status, panel, polls, world, cancels, dismissed>>

\* CANCEL, drawn when the panel holds a token, posts a closure.
ClickCancel ==
  /\ pairing_token # NoToken
  /\ cancels < MaxCancels
  /\ Post("cancel", NoToken)
  /\ cancels' = cancels + 1
  /\ UNCHANGED <<status, panel, task, polls, world, dismissed>>

-----------------------------------------------------------------------------
\* The closures, by kind.  An activation and an expiry set the panel and the
\* card whatever token the panel holds by then, and neither takes the token off.
\* A token no code can be drawn of leaves the image as it was.
ShowToken(g) ==
  /\ pairing_token' = g
  /\ pairing_waiting' = TRUE
  /\ pairing_qr' \in {g, pairing_qr}
  /\ UNCHANGED <<status, dismissed>>

ShowActivated ==
  /\ pairing_waiting' = FALSE
  /\ status' = "CONNECTED"
  /\ UNCHANGED <<pairing_token, pairing_qr, dismissed>>

ShowExpired ==
  /\ pairing_waiting' = FALSE
  /\ status' = "PAIRING EXPIRED"
  /\ UNCHANGED <<pairing_token, pairing_qr, dismissed>>

ShowFailed ==
  /\ status' = "PAIRING FAILED"
  /\ UNCHANGED <<panel, dismissed>>

ShowCancelled ==
  /\ pairing_token' = NoToken
  /\ pairing_qr' = NoToken
  /\ pairing_waiting' = FALSE
  /\ dismissed' = dismissed \cup ({pairing_token} \ {NoToken})
  /\ UNCHANGED status

RunClosure ==
  /\ posted # <<>>
  /\ posted' = Tail(posted)
  /\ \/ Head(posted).kind = "token" /\ ShowToken(Head(posted).of)
     \/ Head(posted).kind = "activated" /\ ShowActivated
     \/ Head(posted).kind = "expired" /\ ShowExpired
     \/ Head(posted).kind = "failed" /\ ShowFailed
     \/ Head(posted).kind = "cancel" /\ ShowCancelled
  /\ UNCHANGED <<task, polls, world, cancels>>

-----------------------------------------------------------------------------
\* The phone scans the code that is drawn, and may approve it from then on.
PhoneScans ==
  /\ pairing_token # NoToken
  /\ pairing_qr # NoToken
  /\ scanned' = scanned \cup {pairing_qr}
  /\ UNCHANGED <<status, panel, task, polls, posted, session, cancels, dismissed>>

PhoneApproves(g) ==
  /\ g \in scanned
  /\ session[g] = "pending"
  /\ session' = [session EXCEPT ![g] = "activated"]
  /\ UNCHANGED <<status, panel, task, polls, posted, scanned, cancels, dismissed>>

Task(g) ==
  Generated(g) \/ GenerateFails(g) \/ PollActivated(g) \/ PollNothing(g) \/ PollsRunOut(g)

Next ==
  \/ \E g \in Generates : ClickGenerate(g) \/ Task(g) \/ PhoneApproves(g)
  \/ ClickCancel
  \/ RunClosure
  \/ PhoneScans

\* The runtime runs the tasks and the loop runs what is posted to it; the user
\* and the phone owe nothing.
Fairness == WF_vars(RunClosure) /\ \A g \in Generates : WF_vars(Task(g))

Spec == Init /\ [][Next]_vars /\ Fairness

-----------------------------------------------------------------------------
Closure ==
  [kind : {"token", "activated", "expired", "failed"}, of : Generates]
    \cup {[kind |-> "cancel", of |-> NoToken]}

PanelTypes ==
  /\ pairing_token \in Generates \cup {NoToken}
  /\ pairing_waiting \in BOOLEAN
  /\ pairing_qr \in Generates \cup {NoToken}
  /\ task \in [Generates -> {"idle", "generating", "polling", "done"}]
  /\ polls \in [Generates -> 0..MaxPolls]
  /\ posted \in Seq(Closure)
  /\ session \in [Generates -> {"none", "pending", "activated"}]
  /\ scanned \subseteq Generates
  /\ cancels \in 0..MaxCancels
  /\ dismissed \subseteq Generates

TypeOK ==
  /\ status \in {"IDLE", "PAIRING...", "PAIRING FAILED", "PAIRING EXPIRED", "CONNECTED"}
  /\ PanelTypes

EndIsPosted(g) ==
  \E i \in 1..Len(posted) :
    posted[i].kind \in {"activated", "expired"} /\ posted[i].of = g

\* While the panel waits for an approval, somebody still asks for it: the task
\* of the very token on the panel polls, or how it ended is on its way.  This
\* holds however presses, ends and cancels overlap.
WaitingIsPolled ==
  pairing_waiting =>
    /\ pairing_token # NoToken
    /\ task[pairing_token] = "polling" \/ EndIsPosted(pairing_token)

\* The card says CONNECTED only after the phone has scanned a code this client
\* drew and has approved it.
ConnectedIsApproved ==
  status = "CONNECTED" => \E g \in scanned : session[g] = "activated"

\* The panel does not wait for ever: a code is approved, expires or is
\* cancelled.
WaitingEnds == pairing_waiting ~> ~pairing_waiting

\* PAIRING... does not stay on the card for ever.
PairingEnds == status = "PAIRING..." ~> status # "PAIRING..."

\* A press whose last closure has not run: its work is over when the closure
\* that ends it has run, not when its task is.
InFlight(g) ==
  \/ task[g] \in {"generating", "polling"}
  \/ \E k \in 1..Len(posted) :
       posted[k].kind \in {"activated", "expired", "failed"} /\ posted[k].of = g

-----------------------------------------------------------------------------
\* The inductive invariant (PairingProofs): behind a token still in the queue
\* its task polls, or how the task ended comes later in the queue ...
EndsFollowTokens ==
  \A i \in 1..Len(posted) : posted[i].kind = "token" =>
    LET g == posted[i].of IN
      /\ task[g] \in {"polling", "done"}
      /\ task[g] = "polling" \/ \E j \in (i + 1)..Len(posted) :
           posted[j].kind \in {"activated", "expired"} /\ posted[j].of = g

\* ... and no activation is posted that the phone did not make.
ApprovalsAreReal ==
  /\ \A g \in Generates : session[g] = "activated" => g \in scanned
  /\ \A i \in 1..Len(posted) :
       posted[i].kind = "activated" => session[posted[i].of] = "activated"

\* A session is made once, by the task of its press.
SessionsAreMadeOnce ==
  \A g \in Generates : task[g] \in {"idle", "generating"} => session[g] = "none"

\* All of it that does not depend on the card, which others write as well.
PanelInv ==
  /\ PanelTypes
  /\ SessionsAreMadeOnce
  /\ EndsFollowTokens
  /\ ApprovalsAreReal
  /\ WaitingIsPolled

PairingInv ==
  /\ TypeOK
  /\ PanelInv
  /\ ConnectedIsApproved

-----------------------------------------------------------------------------
\* main.slint:1209-1211 "status truth flows back through CheckStatus": the panel
\* reads APPROVED only over a token that has been approved.
ApprovedIsApproved ==
  pairing_token # NoToken /\ ~pairing_waiting => session[pairing_token] = "activated"

\* qr.rs:1-4 "renders the pairing payload as a scannable QR image": the image is
\* the code of the token the panel holds, so what the phone is asked to scan is
\* what the polls ask about.
ImageIsOfTheToken == pairing_qr = pairing_token

\* main.rs:380 "dismiss a pending pairing request": a request the user has
\* dismissed does not come back to the card.
DismissedStaysDismissed ==
  [][\A g \in dismissed :
       posted # <<>> /\ posted' = Tail(posted) /\ Head(posted).of = g
         => status' = status]_vars

\* The same comment and main.slint:1209-1211: an expiry of one code does not
\* unsay the approval of another.
ExpiryUnsaysNoApproval ==
  [][status = "CONNECTED" => status' # "PAIRING EXPIRED"]_vars
=============================================================================
