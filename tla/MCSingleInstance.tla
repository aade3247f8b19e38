-------------------------- MODULE MCSingleInstance --------------------------
(* SingleInstance with a few launches. *)
EXTENDS SingleInstance, TLC

CONSTANTS p1, p2, p3, p4
Four == {p1, p2, p3, p4}
Symmetric == Permutations(Four)
=============================================================================
