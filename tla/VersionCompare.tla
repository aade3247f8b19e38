--------------------------- MODULE VersionCompare ---------------------------
(***************************************************************************)
(* rfc011::is_newer as the loop it is, beside the order it stands for.  A  *)
(* version is what `parse` makes of its text: the runs of digits, in their *)
(* order.                                                                  *)
(***************************************************************************)
EXTENDS Integers, Sequences

CONSTANTS Texts,   \* versions as the sequences of their digit runs
          Limit    \* 2^64: a longer run of digits does not parse

ASSUME VersionAssumption == Limit \in Nat \ {0} /\ Texts \subseteq Seq(Nat)

VARIABLES
    a, b,      \* the candidate and the current version
    i,         \* the loop
    result     \* "none" until it returns, then "newer" or "not newer"

compareVars == << a, b, i, result >>

\* `parse::<u64>().unwrap_or(0)`.
Number(t) == IF t < Limit THEN t ELSE 0
Parse(text) == [k \in 1 .. Len(text) |-> Number(text[k])]

CompareInit ==
    /\ a \in {Parse(t) : t \in Texts} /\ b \in {Parse(t) : t \in Texts}
    /\ i = 1
    /\ result = "none"

\* `get(i).copied().unwrap_or(0)`.
Get(v, k) == IF k <= Len(v) THEN v[k] ELSE 0

n == IF Len(a) >= Len(b) THEN Len(a) ELSE Len(b)

\* An unreadable version on either side is never newer.
Start ==
    /\ i = 1 /\ result = "none"
    /\ Len(a) = 0 \/ Len(b) = 0
    /\ result' = "not newer"
    /\ UNCHANGED << a, b, i >>

\* A loop that looks for any larger number (variant of Turn).
TurnOverAll ==
    /\ Len(a) > 0 /\ Len(b) > 0 /\ result = "none"
    /\ \/ /\ i <= n /\ Get(a, i) > Get(b, i)
          /\ result' = "newer" /\ i' = i
       \/ /\ i <= n /\ Get(a, i) <= Get(b, i)
          /\ i' = i + 1 /\ UNCHANGED result
       \/ /\ i > n
          /\ result' = "not newer" /\ i' = i
    /\ UNCHANGED << a, b >>

Turn ==
    /\ Len(a) > 0 /\ Len(b) > 0 /\ result = "none"
    /\ \/ /\ i <= n /\ Get(a, i) # Get(b, i)
          /\ result' = IF Get(a, i) > Get(b, i) THEN "newer" ELSE "not newer"
          /\ i' = i
       \/ /\ i <= n /\ Get(a, i) = Get(b, i)
          /\ i' = i + 1 /\ UNCHANGED result
       \/ /\ i > n
          /\ result' = "not newer" /\ i' = i
    /\ UNCHANGED << a, b >>

CompareNext == Start \/ Turn

CompareSpec == CompareInit /\ [][CompareNext]_compareVars
-----------------------------------------------------------------------------
\* The order on versions: at the first number in which they differ, and with
\* zeros after the last, the newer one has the larger.
Newer(v, w) ==
    \E k \in 1 .. Len(v) + Len(w) :
        /\ Get(v, k) > Get(w, k)
        /\ \A j \in 1 .. k - 1 : Get(v, j) = Get(w, j)

\* SAFETY.  is_newer answers that order for what both versions parse to, and
\* no version without a number is newer or older than any (rfc011.rs 100-102).
ResultIsTheOrder ==
    result # "none" =>
        (result = "newer" <=> Len(a) > 0 /\ Len(b) > 0 /\ Newer(a, b))

\* The inductive invariant: all numbers before the current one are equal.
CompareInv ==
    /\ a \in Seq(Nat) /\ b \in Seq(Nat)
    /\ i \in 1 .. n + 1
    /\ \A j \in 1 .. i - 1 : Get(a, j) = Get(b, j)
    /\ result \in {"none", "newer", "not newer"}
    /\ ResultIsTheOrder
=============================================================================
