------------------------ MODULE MCRealmControlServer ------------------------
(* The instance of RealmControlServer for TLC: its clients are alike. *)
EXTENDS RealmControlServer, TLC

ClientSymmetry == Permutations(Clients)
=============================================================================
