--------------------------- MODULE ListingLemmas ---------------------------
(***************************************************************************)
(* Facts that the proofs of several modules cite: about least places in a  *)
(* sequence, and about CountryGroups, the grouping of a listing.           *)
(***************************************************************************)
EXTENDS CountryGroups, FiniteSetTheorems, SequenceTheorems, TLAPS

\* Every non-empty set of naturals has a least element.  (The set of initial
\* segments 1..m has a least one by inclusion, which is well founded.)
LEMMA LeastElement ==
  ASSUME NEW I \in SUBSET Nat, I # {}
  PROVE  \E m \in I : \A n \in I : m =< n
<1> DEFINE Segments == {1..m : m \in I}
<1>1. Segments \subseteq FiniteSubsetsOf(Nat)
  BY FS_Interval DEF FiniteSubsetsOf
<1>2. Segments # {}
  OBVIOUS
<1> HIDE DEF Segments
<1>3. PICK x \in Segments : \A y \in Segments : <<y, x>> \notin StrictSubsetOrdering(Nat)
  BY <1>1, <1>2, FS_StrictSubsetOrderingWellFounded, WFMin
<1> USE DEF Segments
<1>4. PICK m \in I : x = 1..m
  OBVIOUS
<1>5. ASSUME NEW n \in I, n < m
      PROVE  FALSE
  <2>1. <<1..n, 1..m>> \notin StrictSubsetOrdering(Nat)
    BY <1>3, <1>4
  <2>2. 1..n \subseteq 1..m /\ 1..n # 1..m
    BY <1>5
  <2>3. QED
    BY <2>1, <2>2 DEF StrictSubsetOrdering
<1>6. QED
  BY <1>5

\* Min returns a member, and the least one.
LEMMA MinIsLeast ==
  ASSUME NEW I \in SUBSET Nat, I # {}
  PROVE  Min(I) \in I /\ \A n \in I : Min(I) =< n
BY LeastElement DEF Min
-----------------------------------------------------------------------------
\* A turn either opens a section for a country not seen before, at the end, or
\* puts the row at the end of a section of its country.
LEMMA AddNodeOpensOrJoins ==
  ASSUME NEW Rows, NEW S \in Seq(Section(Rows)), NEW row \in Rows
  PROVE  \/ /\ \A h \in 1..Len(S) : S[h].label # SectionLabel(row)
            /\ AddNode(S, row) = Append(S, [label |-> SectionLabel(row), nodes |-> <<row>>])
         \/ \E at \in 1..Len(S) :
              /\ S[at].label = SectionLabel(row)
              /\ AddNode(S, row) = [S EXCEPT ![at].nodes = Append(@, row)]
<1> DEFINE Same == {h \in 1..Len(S) : S[h].label = SectionLabel(row)}
<1>1. CASE Same = {}
  <2>1. SelectInSeq(S, LAMBDA s : s.label = SectionLabel(row)) = 0
    BY <1>1 DEF SelectInSeq
  <2>2. QED
    BY <1>1, <2>1 DEF AddNode
<1>2. CASE Same # {}
  <2>1. SelectInSeq(S, LAMBDA s : s.label = SectionLabel(row)) = Min(Same)
    BY <1>2 DEF SelectInSeq
  <2>2. Min(Same) \in Same
    <3>1. Same \in SUBSET Nat
      OBVIOUS
    <3> HIDE DEF Same
    <3>2. QED
      BY <1>2, <3>1, MinIsLeast
  <2>3. Min(Same) \in 1..Len(S) /\ Min(Same) # 0
    BY <2>2
  <2>4. AddNode(S, row) = [S EXCEPT ![Min(Same)].nodes = Append(@, row)]
    BY <2>1, <2>3 DEF AddNode
  <2>5. QED
    BY <2>2, <2>4
<1>3. QED
  BY <1>1, <1>2

\* One more row is under its own header, and under no other.
LEMMA OneMoreRow ==
  ASSUME NEW listing, NEW m \in Nat, NEW label
  PROVE  RowsUnder(label, listing, m + 1) =
           IF label = SectionLabel(listing[m + 1])
           THEN RowsUnder(label, listing, m) \cup {m + 1}
           ELSE RowsUnder(label, listing, m)
<1>1. \A r : r \in 1..(m + 1) <=> r \in 1..m \/ r = m + 1
  OBVIOUS
<1>2. CASE label = SectionLabel(listing[m + 1])
  BY <1>1, <1>2 DEF RowsUnder
<1>3. CASE label # SectionLabel(listing[m + 1])
  BY <1>1, <1>3 DEF RowsUnder
<1>4. QED
  BY <1>2, <1>3

\* A turn that opens a section.
LEMMA OpeningKeeps ==
  ASSUME NEW Rows, NEW listing, NEW m \in Nat, listing[m + 1] \in Rows,
         NEW S \in Seq(Section(Rows)), Grouped(S, listing, m),
         \A h \in 1..Len(S) : S[h].label # SectionLabel(listing[m + 1]),
         NEW T, T = Append(S, [label |-> SectionLabel(listing[m + 1]),
                               nodes |-> <<listing[m + 1]>>])
  PROVE  T \in Seq(Section(Rows)) /\ Grouped(T, listing, m + 1)
<1> DEFINE row == listing[m + 1]
           new == [label |-> SectionLabel(row), nodes |-> <<row>>]
           last == Len(S) + 1
           Under(label) == RowsUnder(label, listing, m)
           Under1(label) == RowsUnder(label, listing, m + 1)
<1>1. /\ Len(S) \in Nat
      /\ T \in Seq(Section(Rows))
      /\ Len(T) = last
      /\ T[last] = new
      /\ \A h \in 1..Len(S) : T[h] = S[h]
  <2>1. new \in Section(Rows)
    BY DEF Section
  <2>2. QED
    BY <2>1, AppendProperties, LenProperties
<1>2. T[last].label = SectionLabel(row) /\ T[last].nodes = <<row>>
  BY <1>1
<1>3. \A h : h \in 1..Len(T) <=> h \in 1..Len(S) \/ h = last
  BY <1>1
<1>4. \A h \in 1..Len(S) : Under1(T[h].label) = Under(S[h].label)
  <2> TAKE h \in 1..Len(S)
  <2>1. T[h] = S[h] /\ S[h].label # SectionLabel(listing[m + 1])
    BY <1>1
  <2>2. RowsUnder(S[h].label, listing, m + 1) = RowsUnder(S[h].label, listing, m)
    BY <2>1, OneMoreRow
  <2>3. QED
    BY ONLY <2>1, <2>2
<1>5. Under(SectionLabel(row)) = {}
  <2>1. \A r \in 1..m : \E h \in 1..Len(S) : S[h].label = SectionLabel(listing[r])
    BY DEF Grouped, KeepsTheListing
  <2>2. QED
    BY <2>1 DEF RowsUnder
<1>6. Under1(T[last].label) = {m + 1}
  BY <1>2, <1>5, OneMoreRow
<1>7. \A label : \A r \in Under(label) : r \in Nat /\ r < m + 1
  BY DEF RowsUnder
<1> HIDE DEF row, new, last, Under, Under1
<1>8. OneSectionEach(T)
  BY <1>1, <1>2, <1>3 DEF Grouped, OneSectionEach, row
<1>9. KeepsTheListing(T, listing, m + 1)
  <2>1. ASSUME NEW r \in 1..(m + 1)
        PROVE  \E i \in 1..Len(T) : T[i].label = SectionLabel(listing[r])
    <3>1. CASE r = m + 1
      BY <3>1, <1>2, <1>3 DEF row
    <3>2. CASE r \in 1..m
      <4>1. PICK i \in 1..Len(S) : S[i].label = SectionLabel(listing[r])
        BY <3>2 DEF Grouped, KeepsTheListing
      <4>2. QED
        BY <4>1, <1>1, <1>3
    <3>3. QED
      BY <3>1, <3>2
  <2>2. ASSUME NEW i \in 1..Len(T)
        PROVE  DrawnInOrder(T[i].nodes, listing, Under1(T[i].label))
    <3>1. CASE i \in 1..Len(S)
      <4>1. DrawnInOrder(S[i].nodes, listing, Under(S[i].label))
        BY <3>1 DEF Grouped, KeepsTheListing, Under
      <4>2. QED
        BY <4>1, <3>1, <1>1, <1>4
    <3>2. CASE i = last
      <4> DEFINE place == [k \in 1..1 |-> m + 1]
      <4>1. Len(T[i].nodes) = 1 /\ T[i].nodes[1] = row /\ Under1(T[i].label) = {m + 1}
        <5>1. T[i].nodes = <<row>> /\ Under1(T[i].label) = {m + 1}
          BY ONLY <3>2, <1>2, <1>6
        <5>2. QED
          BY ONLY <5>1
      <4>2. \A k : k \in 1..1 <=> k = 1
        OBVIOUS
      <4>3. place \in [1..1 -> {m + 1}] /\ place[1] = m + 1
        BY <4>2
      <4> HIDE DEF place
      <4>4. \A j, k \in 1..1 : ~(j < k)
        BY <4>2
      <4>5. \E at \in [1..1 -> {m + 1}] :
              /\ \A k \in 1..1 : T[i].nodes[k] = listing[at[k]]
              /\ \A j, k \in 1..1 : j < k => at[j] < at[k]
              /\ \A r \in {m + 1} : \E k \in 1..1 : at[k] = r
        <5> place \in [1..1 -> {m + 1}]
          BY <4>3
        <5> WITNESS place \in [1..1 -> {m + 1}]
        <5>1. QED
          BY <4>1, <4>2, <4>3, <4>4 DEF row
      <4>6. QED
        BY ONLY <4>1, <4>5 DEF DrawnInOrder
    <3>3. QED
      BY <1>3, <3>1, <3>2
  <2>3. QED
    BY ONLY <2>1, <2>2 DEF KeepsTheListing, Under1
<1>10. FirstSeenOrder(T, listing, m + 1)
  <2>1. ASSUME NEW i \in 1..Len(T)
        PROVE  Under1(T[i].label) # {}
    <3>1. CASE i \in 1..Len(S)
      BY <3>1, <1>4 DEF Grouped, FirstSeenOrder, Under
    <3>2. CASE i = last
      BY <3>2, <1>6
    <3>3. QED
      BY <1>3, <3>1, <3>2
  <2>2. ASSUME NEW i \in 1..Len(T), NEW j \in 1..Len(T), i < j,
               NEW q \in Under1(T[j].label)
        PROVE  \E r \in Under1(T[i].label) : r < q
    <3>1. i \in 1..Len(S)
      BY <2>2, <1>1, <1>3 DEF last
    <3>2. CASE j \in 1..Len(S)
      BY <2>2, <3>1, <3>2, <1>4 DEF Grouped, FirstSeenOrder, Under
    <3>3. CASE j = last
      <4>1. q = m + 1
        BY <3>3, <1>6
      <4>2. PICK r \in Under(S[i].label) : TRUE
        BY <3>1 DEF Grouped, FirstSeenOrder, Under
      <4>3. r \in Under1(T[i].label) /\ r < q
        BY <3>1, <4>1, <4>2, <1>4, <1>7
      <4>4. QED
        BY <4>3
    <3>4. QED
      BY <1>3, <3>2, <3>3
  <2>3. QED
    BY ONLY <2>1, <2>2 DEF FirstSeenOrder, Under1
<1>11. QED
  BY <1>1, <1>8, <1>9, <1>10 DEF Grouped

\* A turn that puts the row in the section of its country.
LEMMA JoiningKeeps ==
  ASSUME NEW Rows, NEW listing, NEW m \in Nat, listing[m + 1] \in Rows,
         NEW S \in Seq(Section(Rows)), Grouped(S, listing, m),
         NEW at \in 1..Len(S), S[at].label = SectionLabel(listing[m + 1]),
         NEW T, T = [S EXCEPT ![at].nodes = Append(@, listing[m + 1])]
  PROVE  T \in Seq(Section(Rows)) /\ Grouped(T, listing, m + 1)
<1> DEFINE row == listing[m + 1]
           old == Len(S[at].nodes)
           Under(label) == RowsUnder(label, listing, m)
           Under1(label) == RowsUnder(label, listing, m + 1)
<1>1. /\ Len(S) \in Nat
      /\ S[at] \in Section(Rows)
      /\ S[at].nodes \in Seq(Rows) /\ old \in Nat
  <2>1. Len(S) \in Nat /\ S[at] \in Section(Rows)
    OBVIOUS
  <2>2. S[at].nodes \in Seq(Rows)
    BY <2>1 DEF Section
  <2>3. QED
    BY <2>1, <2>2
<1>2. /\ Append(S[at].nodes, row) \in Seq(Rows)
      /\ Len(Append(S[at].nodes, row)) = old + 1
      /\ \A k \in 1..old : Append(S[at].nodes, row)[k] = S[at].nodes[k]
      /\ Append(S[at].nodes, row)[old + 1] = row
  BY <1>1, AppendProperties
<1>3. /\ Len(T) = Len(S)
      /\ \A h \in 1..Len(S) : T[h].label = S[h].label
      /\ \A h \in 1..Len(S) : h # at => T[h] = S[h]
      /\ T[at] = [S[at] EXCEPT !.nodes = Append(S[at].nodes, row)]
      /\ T[at].nodes = Append(S[at].nodes, row)
  <2>1. at \in DOMAIN S
    BY <1>1
  <2>2. T[at] = [S[at] EXCEPT !.nodes = Append(S[at].nodes, row)]
    BY <2>1, Zenon
  <2>3. Len(T) = Len(S) /\ \A h \in 1..Len(S) : h # at => T[h] = S[h]
    <3> DEFINE joined == [S[at] EXCEPT !.nodes = Append(S[at].nodes, row)]
    <3>1. T = [S EXCEPT ![at] = joined]
      OBVIOUS
    <3> HIDE DEF joined
    <3>2. QED
      BY ONLY <1>1, <3>1, S \in Seq(Section(Rows))
  <2>4. T[at].nodes = Append(S[at].nodes, row) /\ T[at].label = S[at].label
    BY ONLY <1>1, <2>2 DEF Section
  <2>5. QED
    BY <2>2, <2>3, <2>4
<1>4. T \in Seq(Section(Rows))
  <2>1. T[at] \in Section(Rows)
    BY ONLY <1>1, <1>2, <1>3 DEF Section
  <2>2. QED
    BY <1>1, <1>3, <2>1
<1>5. /\ Len(T[at].nodes) = old + 1
      /\ \A k \in 1..old : T[at].nodes[k] = S[at].nodes[k]
      /\ T[at].nodes[old + 1] = row
  BY <1>2, <1>3
<1>6. Under1(T[at].label) = Under(S[at].label) \cup {m + 1}
  <2>1. RowsUnder(S[at].label, listing, m + 1) = RowsUnder(S[at].label, listing, m) \cup {m + 1}
    BY OneMoreRow
  <2>2. QED
    BY <2>1, <1>3
<1>7. \A h \in 1..Len(S) : h # at => Under1(T[h].label) = Under(S[h].label)
  <2> SUFFICES ASSUME NEW h \in 1..Len(S), h # at
               PROVE  Under1(T[h].label) = Under(S[h].label)
    OBVIOUS
  <2>1. S[h].label # SectionLabel(listing[m + 1])
    BY DEF Grouped, OneSectionEach
  <2>2. RowsUnder(S[h].label, listing, m + 1) = RowsUnder(S[h].label, listing, m)
    BY <2>1, OneMoreRow
  <2>3. QED
    BY <2>2, <1>3
<1>8. \A label : \A r \in Under(label) : r \in Nat /\ r < m + 1
  BY DEF RowsUnder
<1> HIDE DEF row, old, Under, Under1
<1>9. OneSectionEach(T)
  BY <1>3 DEF Grouped, OneSectionEach
<1>10. KeepsTheListing(T, listing, m + 1)
  <2>1. ASSUME NEW r \in 1..(m + 1)
        PROVE  \E i \in 1..Len(T) : T[i].label = SectionLabel(listing[r])
    <3>1. CASE r = m + 1
      BY <3>1, <1>3
    <3>2. CASE r \in 1..m
      <4>1. PICK i \in 1..Len(S) : S[i].label = SectionLabel(listing[r])
        BY <3>2 DEF Grouped, KeepsTheListing
      <4>2. QED
        BY <4>1, <1>3
    <3>3. QED
      BY <3>1, <3>2
  <2>2. ASSUME NEW i \in 1..Len(T)
        PROVE  DrawnInOrder(T[i].nodes, listing, Under1(T[i].label))
    <3>1. DrawnInOrder(S[i].nodes, listing, Under(S[i].label))
      BY <1>3 DEF Grouped, KeepsTheListing, Under
    <3>2. CASE i # at
      BY <3>1, <3>2, <1>3, <1>7
    <3>3. CASE i = at
      <4>1. PICK place \in [1..old -> Under(S[at].label)] :
              /\ \A k \in 1..old : S[at].nodes[k] = listing[place[k]]
              /\ \A j, k \in 1..old : j < k => place[j] < place[k]
              /\ \A r \in Under(S[at].label) : \E k \in 1..old : place[k] = r
        <5>1. DrawnInOrder(S[at].nodes, listing, Under(S[at].label))
          BY <3>1, <3>3
        <5>2. QED
          BY ONLY <5>1 DEF DrawnInOrder, old
      <4> DEFINE further == [k \in 1..(old + 1) |-> IF k = old + 1 THEN m + 1 ELSE place[k]]
                 more == Under(S[at].label) \cup {m + 1}
      <4>2. /\ \A k : k \in 1..(old + 1) <=> k \in 1..old \/ k = old + 1
            /\ \A k \in 1..old : k # old + 1
        BY <1>1
      <4>3. /\ further[old + 1] = m + 1
            /\ \A k \in 1..old : further[k] = place[k]
            /\ further \in [1..(old + 1) -> more]
        BY <4>1, <4>2
      <4> HIDE DEF further, more
      <4>4. \A k \in 1..(old + 1) : T[at].nodes[k] = listing[further[k]]
        BY <4>1, <4>2, <4>3, <1>5 DEF row
      <4>5. ASSUME NEW j \in 1..(old + 1), NEW k \in 1..(old + 1), j < k
            PROVE  further[j] < further[k]
        <5>1. j \in 1..old
          BY <4>5, <4>2, <1>1
        <5>2. CASE k \in 1..old
          BY <4>5, <5>1, <5>2, <4>1, <4>3
        <5>3. CASE k = old + 1
          <6>1. further[j] \in Under(S[at].label) /\ further[k] = m + 1
            BY <5>1, <5>3, <4>1, <4>3
          <6>2. QED
            BY <6>1, <1>8
        <5>4. QED
          BY <4>2, <5>2, <5>3
      <4>6. ASSUME NEW r \in more
            PROVE  \E k \in 1..(old + 1) : further[k] = r
        <5>1. CASE r = m + 1
          BY <5>1, <4>2, <4>3
        <5>2. CASE r \in Under(S[at].label)
          <6>1. PICK k \in 1..old : place[k] = r
            BY <5>2, <4>1
          <6>2. QED
            BY <6>1, <4>2, <4>3
        <5>3. QED
          BY <5>1, <5>2 DEF more
      <4>7. \E there \in [1..(old + 1) -> more] :
              /\ \A k \in 1..(old + 1) : T[at].nodes[k] = listing[there[k]]
              /\ \A j, k \in 1..(old + 1) : j < k => there[j] < there[k]
              /\ \A r \in more : \E k \in 1..(old + 1) : there[k] = r
        <5> further \in [1..(old + 1) -> more]
          BY <4>3
        <5> WITNESS further \in [1..(old + 1) -> more]
        <5>1. QED
          BY ONLY <4>4, <4>5, <4>6
      <4>8. Len(T[i].nodes) = old + 1 /\ Under1(T[i].label) = more
        BY <3>3, <1>5, <1>6 DEF more
      <4>9. QED
        BY ONLY <3>3, <4>7, <4>8 DEF DrawnInOrder
    <3>4. QED
      BY <3>2, <3>3
  <2>3. QED
    BY ONLY <2>1, <2>2 DEF KeepsTheListing, Under1
<1>11. FirstSeenOrder(T, listing, m + 1)
  <2>1. ASSUME NEW i \in 1..Len(T)
        PROVE  Under(S[i].label) # {} /\ Under(S[i].label) \subseteq Under1(T[i].label)
    BY <1>3, <1>6, <1>7 DEF Grouped, FirstSeenOrder, Under
  <2>2. ASSUME NEW i \in 1..Len(T), NEW j \in 1..Len(T), i < j,
               NEW q \in Under1(T[j].label)
        PROVE  \E r \in Under1(T[i].label) : r < q
    <3>1. CASE q \in Under(S[j].label)
      <4>1. PICK r \in Under(S[i].label) : r < q
        BY <2>2, <3>1, <1>3 DEF Grouped, FirstSeenOrder, Under
      <4>2. QED
        BY <4>1, <2>1
    <3>2. CASE q = m + 1
      <4>1. PICK r \in Under(S[i].label) : TRUE
        BY <2>1
      <4>2. r \in Under1(T[i].label) /\ r < q
        BY <3>2, <4>1, <2>1, <1>8
      <4>3. QED
        BY <4>2
    <3>3. QED
      <4>1. q \in Under(S[j].label) \/ q = m + 1
        BY <1>3, <1>6, <1>7
      <4>2. QED
        BY <3>1, <3>2, <4>1
  <2>3. Under1(T[1].label) = Under1(T[1].label) /\ \A i \in 1..Len(T) : Under1(T[i].label) # {}
    BY <2>1
  <2>4. QED
    BY ONLY <2>2, <2>3 DEF FirstSeenOrder, Under1
<1>12. QED
  BY <1>4, <1>9, <1>10, <1>11 DEF Grouped

\* A turn of the loop keeps what the sections promise.
LEMMA AddNodeKeeps ==
  ASSUME NEW Rows, NEW listing, NEW m \in Nat, listing[m + 1] \in Rows,
         NEW S \in Seq(Section(Rows)), Grouped(S, listing, m)
  PROVE  /\ AddNode(S, listing[m + 1]) \in Seq(Section(Rows))
         /\ Grouped(AddNode(S, listing[m + 1]), listing, m + 1)
<1> DEFINE T == AddNode(S, listing[m + 1])
<1>1. CASE /\ \A h \in 1..Len(S) : S[h].label # SectionLabel(listing[m + 1])
           /\ T = Append(S, [label |-> SectionLabel(listing[m + 1]),
                             nodes |-> <<listing[m + 1]>>])
  BY <1>1, OpeningKeeps
<1>2. ASSUME NEW at \in 1..Len(S), S[at].label = SectionLabel(listing[m + 1]),
             T = [S EXCEPT ![at].nodes = Append(@, listing[m + 1])]
      PROVE  T \in Seq(Section(Rows)) /\ Grouped(T, listing, m + 1)
  <2> HIDE DEF T
  <2>1. QED
    BY <1>2, JoiningKeeps
<1>3. QED
  BY <1>1, <1>2, AddNodeOpensOrJoins

LEMMA NothingIsGrouped ==
  ASSUME NEW Rows, NEW listing
  PROVE  <<>> \in Seq(Section(Rows)) /\ Grouped(<<>>, listing, 0)
BY EmptySeq DEF Grouped, OneSectionEach, KeepsTheListing, FirstSeenOrder
-----------------------------------------------------------------------------
\* The recursion of SectionsByTurn is sound: it begins with no section, and each turn
\* adds a row to the sections of the turn before.
LEMMA TurnByTurn ==
  ASSUME NEW listing, Len(listing) \in Nat
  PROVE  /\ SectionsByTurn(listing)[0] = <<>>
         /\ \A t \in 1..Len(listing) :
              SectionsByTurn(listing)[t] = AddNode(SectionsByTurn(listing)[t - 1], listing[t])
<1> DEFINE n == Len(listing)
           IsByTurn(m, f) == f = [t \in 0..m |-> IF t = 0 THEN <<>>
                                                ELSE AddNode(f[t - 1], listing[t])]
           Missing == {m \in 0..n : ~ \E f : IsByTurn(m, f)}
<1>1. Missing = {}
  <2> SUFFICES ASSUME Missing # {}
               PROVE  FALSE
    OBVIOUS
  <2>1. PICK m \in Missing : \A k \in Missing : m =< k
    <3>1. Missing \in SUBSET Nat
      OBVIOUS
    <3> HIDE DEF Missing
    <3>2. QED
      BY <3>1, LeastElement
  <2>2. m \in 0..n /\ ~ \E f : IsByTurn(m, f)
    BY <2>1
  <2>3. CASE m = 0
    <3> DEFINE none == [t \in 0..0 |-> <<>>]
    <3>1. IsByTurn(0, none)
      OBVIOUS
    <3>2. QED
      BY ONLY <3>1, <2>2, <2>3
  <2>4. CASE m # 0
    <3>1. m - 1 \in 0..n /\ m \in Nat /\ m - 1 < m
      BY <2>2, <2>4
    <3>2. \E f : IsByTurn(m - 1, f)
      <4>1. m - 1 \notin Missing
        <5> HIDE DEF Missing
        <5>1. QED
          BY <2>1, <3>1
      <4> HIDE DEF IsByTurn
      <4>2. QED
        BY <3>1, <4>1
    <3>3. PICK f : IsByTurn(m - 1, f)
      BY <3>2
    <3> DEFINE g == [t \in 0..m |-> IF t = m THEN AddNode(f[m - 1], listing[m]) ELSE f[t]]
    <3>4. /\ \A t \in 0..m : t = m \/ t \in 0..(m - 1)
          /\ \A t \in 0..m : t # 0 => t - 1 \in 0..(m - 1) /\ t - 1 # m /\ t - 1 \in 0..m
          /\ m \in 0..m
      BY <3>1
    <3>5. \A t \in 0..m : g[t] = IF t = 0 THEN <<>> ELSE AddNode(g[t - 1], listing[t])
      <4> TAKE t \in 0..m
      <4>1. CASE t = 0
        BY <4>1, <2>4, <3>3, <3>4
      <4>2. CASE t # 0 /\ t = m
        BY <4>2, <3>4
      <4>3. CASE t # 0 /\ t # m
        <5>1. t \in 0..(m - 1) /\ g[t] = f[t] /\ g[t - 1] = f[t - 1]
          BY <4>3, <3>4
        <5>2. f[t] = AddNode(f[t - 1], listing[t])
          BY <4>3, <5>1, <3>3
        <5>3. QED
          BY <4>3, <5>1, <5>2
      <4>4. QED
        BY <4>1, <4>2, <4>3
    <3>6. IsByTurn(m, g)
      BY <3>5
    <3>7. QED
      BY <3>6, <2>2
  <2>5. QED
    BY <2>3, <2>4
<1>2. \E f : IsByTurn(n, f)
  BY <1>1
<1>3. IsByTurn(n, SectionsByTurn(listing))
  BY <1>2 DEF SectionsByTurn
<1>4. 0 \in 0..n /\ \A t \in 1..n : t \in 0..n /\ t # 0
  OBVIOUS
<1>5. QED
  BY <1>3, <1>4

\* After any number of turns, the sections are what they promise to be.
LEMMA EveryTurnIsGrouped ==
  ASSUME NEW Rows, NEW listing \in Seq(Rows)
  PROVE  \A t \in 0..Len(listing) : /\ SectionsByTurn(listing)[t] \in Seq(Section(Rows))
                                    /\ Grouped(SectionsByTurn(listing)[t], listing, t)
<1> DEFINE Good(t) == /\ SectionsByTurn(listing)[t] \in Seq(Section(Rows))
                      /\ Grouped(SectionsByTurn(listing)[t], listing, t)
           Bad == {t \in 0..Len(listing) : ~ Good(t)}
<1>0. Len(listing) \in Nat
  OBVIOUS
<1>1. SUFFICES Bad = {}
  OBVIOUS
<1>2. SUFFICES ASSUME Bad # {}
               PROVE  FALSE
  OBVIOUS
<1>3. PICK t \in Bad : \A k \in Bad : t =< k
  <2>1. Bad \in SUBSET Nat
    OBVIOUS
  <2> HIDE DEF Bad
  <2>2. QED
    BY <1>2, <2>1, LeastElement
<1>4. t \in 0..Len(listing) /\ ~ Good(t)
  BY <1>3
<1>5. t # 0
  BY <1>4, <1>0, NothingIsGrouped, TurnByTurn
<1>6. t - 1 \in Nat /\ t \in 1..Len(listing) /\ t - 1 \in 0..Len(listing) /\ (t - 1) + 1 = t
      /\ t - 1 < t /\ t \in Nat
  BY <1>4, <1>5, <1>0
<1>7. Good(t - 1)
  BY <1>3, <1>6
<1>8. listing[t] \in Rows
  BY <1>6
<1>9. Good(t)
  <2> DEFINE before == SectionsByTurn(listing)[t - 1]
  <2>1. SectionsByTurn(listing)[t] = AddNode(before, listing[t])
    BY <1>0, <1>6, TurnByTurn
  <2>2. before \in Seq(Section(Rows)) /\ Grouped(before, listing, t - 1)
    BY <1>7
  <2> HIDE DEF before
  <2>3. /\ AddNode(before, listing[(t - 1) + 1]) \in Seq(Section(Rows))
        /\ Grouped(AddNode(before, listing[(t - 1) + 1]), listing, (t - 1) + 1)
    BY <1>6, <1>8, <2>2, AddNodeKeeps
  <2>4. QED
    BY <1>6, <2>1, <2>3
<1>10. QED
  BY <1>4, <1>9

\* The grouping of any listing keeps its promises (main.rs 70-73): no country
\* has two sections, the sections are the listing and nothing else, and their
\* headers keep the router's order.
THEOREM GroupingKeepsItsPromises ==
  ASSUME NEW Rows, NEW listing \in Seq(Rows)
  PROVE  /\ GroupByCountry(listing) \in Seq(Section(Rows))
         /\ Grouped(GroupByCountry(listing), listing, Len(listing))
<1>1. Len(listing) \in 0..Len(listing)
  OBVIOUS
<1>2. QED
  BY <1>1, EveryTurnIsGrouped DEF GroupByCountry
=============================================================================
