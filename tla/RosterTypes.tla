---------------------------- MODULE RosterTypes ----------------------------
(***************************************************************************)
(* The vocabulary of the roster, shared by its abstract and its detailed   *)
(* specification: what a fetch may answer, the state the line takes for    *)
(* each answer (rfc051.rs), and the selection a connect makes.             *)
(***************************************************************************)
EXTENDS CountryGroups

CONSTANTS
  Refreshes,    \* the refresh requests a user (and the launch timer) makes
  Launch,       \* the one the launch timer makes
  Connects,     \* the presses of the connect button
  PublicNodes,  \* the rows a listing may carry: id, country, region, is_online
  Manifests     \* what the manifest route may serve: nodes and projection

ASSUME RosterAssumption ==
  /\ Launch \in Refreshes
  /\ \A n \in PublicNodes : n.is_online \in BOOLEAN
  /\ \A m \in Manifests : m.nodes \in Seq(PublicNodes)

\* What a fetch returns: a manifest, or an error of one of two classes.  A
\* panicking fetch task is an "Other" error too (main.rs:521).
Served == {[result |-> "Ok", nodes |-> m.nodes, projection |-> m.projection] :
             m \in Manifests}
Failed == {[result |-> e, nodes |-> <<>>, projection |-> ""] :
             e \in {"JsonError", "Other"}}
Answers == Served \cup Failed

\* RosterState::from_projection -- the wire name, with a catch-all arm.
FromProjection(projection) ==
  CASE projection = "full"           -> "Full"
    [] projection = "anonymous"      -> "Reduced"
    [] projection = "local_fallback" -> "Local"
    [] OTHER                         -> "Unreadable"

\* RosterState::from_failure -- the class of the error and nothing else.
FromFailure(error) == IF error = "JsonError" THEN "Unreadable" ELSE "Unavailable"

\* The state a read that answered a leaves the line in, and the rows it leaves.
StateOf(a) == IF a.result = "Ok" THEN FromProjection(a.projection)
                                 ELSE FromFailure(a.result)
RowsOf(a)  == IF a.result = "Ok" THEN a.nodes ELSE <<>>

RosterStates == {"Full", "Reduced", "Local", "Unreadable", "Unavailable", "Pending"}

\* select_best_public_node: the first online row, in the server's order; the
\* word "best" asks the daemon to select when there is none.
SelectBest(listing) ==
  LET at == SelectInSeq(listing, LAMBDA n : n.is_online)
  IN  IF at = 0 THEN "best" ELSE listing[at].id

DialIds == {n.id : n \in PublicNodes} \cup {"best"}
=============================================================================
