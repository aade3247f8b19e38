----------------------------- MODULE MCPairing -----------------------------
(* Three presses of GENERATE, for TLC.                                     *)
EXTENDS Pairing
=============================================================================
