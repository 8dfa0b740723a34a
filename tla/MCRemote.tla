------------------------------ MODULE MCRemote ------------------------------
(***************************************************************************)
(* Two publishers and a replica.                                           *)
(***************************************************************************)
EXTENDS Remote

CONSTANTS a, b, r, i0, i1

TwoPublishers == {a, b}
OneReplica == {r}
TwoImages == {i0, i1}
=============================================================================
