--------------------------- MODULE HorspoolSearch ---------------------------
(***************************************************************************)
(* bmh_find (attribution.rs 251-280): the table of skips is filled byte by *)
(* byte of the needle, then a window moves over the haystack by the skip   *)
(* of the byte under its end.  Offsets count from 0, as in the code.       *)
(***************************************************************************)
EXTENDS Naturals, Sequences

CONSTANTS Byte,        \* the bytes of an alphabet, 256 in the code
          Haystacks, Needles

ASSUME SearchAssumption ==
    /\ Byte \subseteq Nat
    /\ Haystacks \subseteq Seq(Byte)
    /\ Needles \subseteq Seq(Byte)

VARIABLES
    haystack, needle,
    skip,     \* skip[b]: how far a window that ends in b may move
    filled,   \* the bytes of the needle the table has taken
    offset,   \* where the window is
    answer    \* "filling", "searching", then "found" or "nowhere"

searchVars == << haystack, needle, skip, filled, offset, answer >>

m == Len(needle)

SearchInit ==
    /\ haystack \in Haystacks /\ needle \in Needles
    /\ skip = [b \in Byte |-> m]
    /\ filled = 0
    /\ offset = 0
    /\ answer = CASE m = 0 -> "found"
                  [] m > Len(haystack) -> "nowhere"
                  [] OTHER -> "filling"

\* A table that keeps the first place of a byte (variant of Fill).
FillOnce ==
    /\ answer = "filling"
    /\ \/ /\ filled < m - 1
          /\ filled' = filled + 1
          /\ skip' = [skip EXCEPT ![needle[filled + 1]] =
                        IF @ = m THEN m - (filled + 1) ELSE @]
          /\ UNCHANGED answer
       \/ /\ filled = m - 1
          /\ answer' = "searching"
          /\ UNCHANGED << skip, filled >>
    /\ UNCHANGED << haystack, needle, offset >>

\* The last place a byte has before the end of the needle is the one that
\* stays.
Fill ==
    /\ answer = "filling"
    /\ \/ /\ filled < m - 1
          /\ filled' = filled + 1
          /\ skip' = [skip EXCEPT ![needle[filled + 1]] = m - (filled + 1)]
          /\ UNCHANGED answer
       \/ /\ filled = m - 1
          /\ answer' = "searching"
          /\ UNCHANGED << skip, filled >>
    /\ UNCHANGED << haystack, needle, offset >>

OccursAt(o) ==
    /\ o + m <= Len(haystack)
    /\ \A j \in 1 .. m : haystack[o + j] = needle[j]

Match ==
    /\ answer = "searching"
    /\ OccursAt(offset)
    /\ answer' = "found"
    /\ UNCHANGED << haystack, needle, skip, filled, offset >>

Move ==
    /\ answer = "searching"
    /\ offset + m <= Len(haystack)
    /\ ~OccursAt(offset)
    /\ offset' = offset + skip[haystack[offset + m]]
    /\ UNCHANGED << haystack, needle, skip, filled, answer >>

GiveUp ==
    /\ answer = "searching"
    /\ offset + m > Len(haystack)
    /\ answer' = "nowhere"
    /\ UNCHANGED << haystack, needle, skip, filled, offset >>

SearchNext == Fill \/ Match \/ Move \/ GiveUp

\* A loop that is left to run.
SearchFairness == WF_searchVars(SearchNext)

SearchSpec == SearchInit /\ [][SearchNext]_searchVars /\ SearchFairness
-----------------------------------------------------------------------------
\* SAFETY.  The search answers the offset of the first occurrence, or that
\* there is none ("Returns the offset of the first occurrence", 250).
AnswerIsTheFirst ==
    /\ answer = "found" => OccursAt(offset) /\ \A o \in 0 .. offset - 1 : ~OccursAt(o)
    /\ answer = "nowhere" => \A o \in 0 .. Len(haystack) : ~OccursAt(o)

\* LIVENESS.  "Every entry is therefore >= 1, so the window always advances"
\* (263-264): a search never stands still over a place, and ends.
SearchEnds == <>(answer \in {"found", "nowhere"})

\* The inductive invariant: the table never lets a window jump over a place
\* where the byte under its end stands in the needle, so no occurrence lies
\* behind the window.
SearchInv ==
    /\ haystack \in Seq(Byte) /\ needle \in Seq(Byte)
    /\ skip \in [Byte -> 0 .. m] /\ (m > 0 => \A c \in Byte : skip[c] > 0)
    /\ filled \in Nat /\ offset \in Nat
    /\ answer \in {"filling", "searching", "found", "nowhere"}
    /\ answer = "filling" => filled <= m - 1 /\ m > 0
    /\ \A k \in 1 .. filled : skip[needle[k]] <= m - k
    /\ answer = "searching" => filled = m - 1 /\ m > 0
    /\ \A o \in 0 .. offset - 1 : ~OccursAt(o)
    /\ AnswerIsTheFirst
=============================================================================
