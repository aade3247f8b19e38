----------------------------- MODULE MCDesktop ------------------------------
(* A connect, a disconnect, a pairing and a wipe, for TLC.                 *)
EXTENDS Desktop

OneWipe == {"wipe"}
KindOf == [w \in OneWipe |-> w]
=============================================================================
