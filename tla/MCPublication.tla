---------------------------- MODULE MCPublication ----------------------------
(***************************************************************************)
(* Two callers and two plans, one of which needs a kind more.              *)
(***************************************************************************)
EXTENDS Publication, TLC

MCKinds == {"approval", "condition"}
MCPlans == {<<"approval">>, <<"approval", "condition">>}

Symmetric == Permutations(Clients)
=============================================================================
