------------------------------ MODULE MCWindow ------------------------------
(* Window with a login, a wipe and the update check of the launch.          *)
EXTENDS Window

CONSTANTS l1, w1, icon, tooltip
=============================================================================
