------------------------------ MODULE MCSqlStore ------------------------------
(***************************************************************************)
(* Clients of one adapter over one database, racing on one instance.       *)
(***************************************************************************)
EXTENDS SqlStore, TLC

Symmetric == Permutations(Clients)
=============================================================================
