--------------------------- MODULE CountryGroups ---------------------------
(***************************************************************************)
(* The grouping of the flat listing into the country sections the matrix   *)
(* draws (main.rs, group_nodes_by_country).  A node is a record with the   *)
(* four published fields; a section is a label and the nodes under it.     *)
(***************************************************************************)
EXTENDS Naturals, Sequences, SequencesExt

\* The header a node is drawn under: its country, or its region when the
\* country code is empty.
SectionLabel(node) == IF node.country = "" THEN node.region ELSE node.country

\* A grouping that always opens a section of its own (variant of AddNode).
AddNodeUnmerged(sections, node) ==
  Append(sections, [label |-> SectionLabel(node), nodes |-> <<node>>])

\* A grouping that loses the first node of every section (variant of AddNode).
AddNodeDroppingFirst(sections, node) ==
  LET at == SelectInSeq(sections, LAMBDA s : s.label = SectionLabel(node))
  IN  IF at = 0
      THEN Append(sections, [label |-> SectionLabel(node), nodes |-> <<>>])
      ELSE [sections EXCEPT ![at].nodes = Append(@, node)]

\* One turn of the loop: the node joins the section that has its label, or
\* opens a new one after those already seen.
AddNode(sections, node) ==
  LET at == SelectInSeq(sections, LAMBDA s : s.label = SectionLabel(node))
  IN  IF at = 0
      THEN Append(sections, [label |-> SectionLabel(node), nodes |-> <<node>>])
      ELSE [sections EXCEPT ![at].nodes = Append(@, node)]

\* The sections after each turn, and after the last.
SectionsByTurn(nodes) ==
  LET built[turn \in 0..Len(nodes)] ==
        IF turn = 0 THEN <<>> ELSE AddNode(built[turn - 1], nodes[turn])
  IN  built

GroupByCountry(nodes) == SectionsByTurn(nodes)[Len(nodes)]
-----------------------------------------------------------------------------
(* What the doc comment promises of the sections (main.rs:70-73), said of    *)
(* the sections built from the first m rows of a listing.                    *)

Section(Rows) == [label : {SectionLabel(n) : n \in Rows}, nodes : Seq(Rows)]

\* The places, among the first m, of the rows that belong under a header.
RowsUnder(label, listing, m) == {r \in 1..m : SectionLabel(listing[r]) = label}

\* No country is drawn twice.
OneSectionEach(sections) ==
  \A i, j \in 1..Len(sections) : sections[i].label = sections[j].label => i = j

\* The nodes are the rows of the listing at the given places, nothing lost,
\* doubled or moved: place[k] says where the k-th of them is.
DrawnInOrder(drawn, listing, places) ==
  \E place \in [1..Len(drawn) -> places] :
    /\ \A k \in 1..Len(drawn) : drawn[k] = listing[place[k]]
    /\ \A j, k \in 1..Len(drawn) : j < k => place[j] < place[k]
    /\ \A r \in places : \E k \in 1..Len(drawn) : place[k] = r

\* "Legacy nodes never disappear": every row has a header, and under each header
\* is the listing with the other countries left out.
KeepsTheListing(sections, listing, m) ==
  /\ \A r \in 1..m : \E i \in 1..Len(sections) :
       sections[i].label = SectionLabel(listing[r])
  /\ \A i \in 1..Len(sections) :
       DrawnInOrder(sections[i].nodes, listing, RowsUnder(sections[i].label, listing, m))

\* "First-seen order preserves the core router's preference ordering": before
\* any row of a country stands one of each country whose header comes earlier.
FirstSeenOrder(sections, listing, m) ==
  /\ \A i \in 1..Len(sections) : RowsUnder(sections[i].label, listing, m) # {}
  /\ \A i, j \in 1..Len(sections) : i < j =>
       \A q \in RowsUnder(sections[j].label, listing, m) :
         \E r \in RowsUnder(sections[i].label, listing, m) : r < q

Grouped(sections, listing, m) ==
  /\ OneSectionEach(sections)
  /\ KeepsTheListing(sections, listing, m)
  /\ FirstSeenOrder(sections, listing, m)
=============================================================================
