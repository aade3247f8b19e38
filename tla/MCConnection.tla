---------------------------- MODULE MCConnection ----------------------------
(* Three connects and two disconnects of one daemon, for TLC.              *)
EXTENDS Connection
=============================================================================
