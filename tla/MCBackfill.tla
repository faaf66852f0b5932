-------------------------------- MODULE MCBackfill --------------------------------
(* Instances of Backfill for TLC: instances are interchangeable, and so are *)
(* the transactions that save.                                              *)
EXTENDS Backfill, TLC

Symmetry == Permutations(Instances) \union Permutations(Savers)
=============================================================================
