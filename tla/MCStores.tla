------------------------------- MODULE MCStores -------------------------------
(* The adapters under the clients of the configuration. *)
EXTENDS Stores, TLC

Symmetric == Permutations(Clients)
=============================================================================
