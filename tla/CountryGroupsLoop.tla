------------------------- MODULE CountryGroupsLoop -------------------------
(***************************************************************************)
(* The loop of group_nodes_by_country (main.rs:74-87), one turn a step, on *)
(* any listing.  Its invariant says of the sections built so far what the  *)
(* doc comment promises of the result (main.rs:70-73).                     *)
(***************************************************************************)
EXTENDS CountryGroups

CONSTANTS
  PublicNodes,  \* the rows a listing may carry
  Listings      \* the listings the loop is run on

ASSUME ListingsAssumption == Listings \subseteq Seq(PublicNodes)

VARIABLES
  nodes,     \* the flat listing, in the router's order
  seen,      \* how many of its rows the loop has taken
  sections   \* the sections built from them

loopVars == <<nodes, seen, sections>>

LoopInit ==
  /\ nodes \in Listings
  /\ seen = 0
  /\ sections = <<>>

TakeRow ==
  /\ seen < Len(nodes)
  /\ sections' = AddNode(sections, nodes[seen + 1])
  /\ seen' = seen + 1
  /\ UNCHANGED nodes

LoopNext == TakeRow
LoopSpec == LoopInit /\ [][LoopNext]_loopVars /\ WF_loopVars(TakeRow)

-----------------------------------------------------------------------------
LoopTypeOK ==
  /\ nodes \in Seq(PublicNodes)
  /\ seen \in 0..Len(nodes)
  /\ sections \in Seq(Section(PublicNodes))

\* SAFETY.  After every turn no country has two sections: a row whose region is
\* the name of a country joins that country's.
LabelsAreDistinct == OneSectionEach(sections)

\* SAFETY.  After every turn the sections are the rows taken, by country: none
\* lost, doubled or moved.
SectionsAreTheListing == KeepsTheListing(sections, nodes, seen)

\* After every turn the headers are in the order of their first rows.
HeadersInFirstSeenOrder == FirstSeenOrder(sections, nodes, seen)

\* The inductive invariant (StandaloneProofs): what the loop has built so far is
\* what the roster's GroupByCountry is after as many rows.
GroupsInv ==
  /\ LoopTypeOK
  /\ sections = SectionsByTurn(nodes)[seen]
  /\ LabelsAreDistinct
  /\ SectionsAreTheListing
  /\ HeadersInFirstSeenOrder
=============================================================================
