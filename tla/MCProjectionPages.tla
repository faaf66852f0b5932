-------------------------- MODULE MCProjectionPages --------------------------
(* Instances of ProjectionPages for TLC. *)
EXTENDS ProjectionPages

TwoInstances == 1 .. 2

TwoTasks == 1 .. 2
TwoTimes == 0 .. 1
=============================================================================
