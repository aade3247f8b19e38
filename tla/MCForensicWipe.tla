--------------------------- MODULE MCForensicWipe ---------------------------
(* ForensicWipe on two presses of one launch or of two.                     *)
EXTENDS ForensicWipe, TLC

CONSTANTS w1, w2

Presses == {w1, w2}
Symmetric == Permutations(Presses)

\* What a launch leaves, before the first update check: a long log, an identity
\* and a marker.
SomeState ==
    [f \in Files |-> CASE f = "security.jsonl" -> {"large"}
                      [] f \in {"device_id", "activation.json"} -> {"small"}
                      [] OTHER -> {"absent"}]
=============================================================================
