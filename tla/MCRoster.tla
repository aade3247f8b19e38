------------------------------ MODULE MCRoster ------------------------------
(***************************************************************************)
(* A small roster for TLC.  The manifests cover the branches of the code:  *)
(* an empty listing, one whose first row is offline, two countries with a  *)
(* row that has none, and a projection the client does not read, with a    *)
(* row that is offline.                                                    *)
(***************************************************************************)
EXTENDS Roster

Node(id, country, online) ==
  [id |-> id, country |-> country, region |-> "eu", is_online |-> online]

N1 == Node("n1", "SG", TRUE)
N1Down == Node("n1", "SG", FALSE)
N2 == Node("n2", "", TRUE)
N3 == Node("n3", "SG", TRUE)

MCPublicNodes == {N1, N1Down, N2, N3}

MCManifests ==
  { [nodes |-> <<>>, projection |-> "local_fallback"],
    [nodes |-> <<N1Down, N2, N3>>, projection |-> "full"],
    [nodes |-> <<N1>>, projection |-> "anonymous"],
    [nodes |-> <<N1Down>>, projection |-> "partial"] }
=============================================================================
