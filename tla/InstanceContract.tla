--------------------------- MODULE InstanceContract ---------------------------
(***************************************************************************)
(* What the engine promises of one durable instance, whatever handlers and *)
(* policies a host supplies and however many commands race: it is created  *)
(* once, settled, at version one; from then on every change is one command *)
(* that was accepted while the instance was running, moves the version by  *)
(* one, names its cause in the audit, rewrites nothing of the history, and *)
(* leaves the instance settled again.                                      *)
(***************************************************************************)
EXTENDS Aggregate

VARIABLE inst     \* the durable instance, or NoInstance

Init == inst = NoInstance

Create ==
  /\ inst = NoInstance
  /\ inst' \in Instance
  /\ inst'.version = 1
  /\ inst'.audit # << >>
  /\ inst'.audit[1].action = InstanceStarted
  /\ Settled(inst')

Accept ==
  /\ inst # NoInstance
  /\ inst.status = "running"
  /\ inst' \in Instance
  /\ inst'.version = inst.version + 1
  /\ OneCause(inst.audit, inst'.audit)
  /\ TasksForward(inst.tasks, inst'.tasks)
  /\ Settled(inst')

Next == Create \/ Accept

Spec == Init /\ [][Next]_inst
=============================================================================
