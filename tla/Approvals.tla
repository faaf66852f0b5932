------------------------------- MODULE Approvals -------------------------------
(***************************************************************************)
(* Workflows with approval nodes: the engine's calls where the handler of  *)
(* some nodes is approval.go's.  The others may have any handler.          *)
(***************************************************************************)
EXTENDS Engine, Approval

CONSTANT Configs      \* the approval configuration of every approval node

ApprovalNodes == DOMAIN Configs
OrSigns == {node \in ApprovalNodes : Configs[node].mode = ModeAny}

\* At these nodes a command is given to approval.go's Handle.
ApprovalsDecide ==
  \A node \in ApprovalNodes : \A tasks, id, name :
    HandleResults(node, tasks, id, name) = HandleConfig(Configs[node], tasks, id, name)

IsDecision(record) == record.action \in {TaskAction(CommandApprove), TaskAction(CommandReject)}
Decisions(audit, id) == {k \in DOMAIN audit : audit[k].task = id /\ IsDecision(audit[k])}
DecisionsAt(audit, node) == {k \in DOMAIN audit : audit[k].node = node /\ IsDecision(audit[k])}
Entries(audit, node) ==
  {k \in DOMAIN audit : audit[k].node = node /\ audit[k].action = NodeEntered}

ApprovalIds(inst) == {id \in DOMAIN inst.tasks : inst.tasks[id].node \in ApprovalNodes}

-----------------------------------------------------------------------------

(***************************************************************************)
(* Who decided what: a completed task carries the one decision its audit   *)
(* record names - same task, node, owner and outcome - and a decision is   *)
(* recorded for completed tasks only.  A task decided twice, by a retry    *)
(* or by two racing calls, would break it (engine.go Handle).              *)
(***************************************************************************)
Says(record, task) ==
  /\ record.node = task.node
  /\ record.actor = task.assignee
  /\ \/ record.action = TaskAction(CommandApprove) /\ task.outcome = OutcomeApproved
     \/ record.action = TaskAction(CommandReject) /\ task.outcome = OutcomeRejected
Recorded(inst) ==
  \A id \in ApprovalIds(inst) :
    IF inst.tasks[id].status = "completed"
    THEN \E k \in DOMAIN inst.audit : /\ Decisions(inst.audit, id) = {k}
                                      /\ Says(inst.audit[k], inst.tasks[id])
    ELSE Decisions(inst.audit, id) = {}
DecisionsAreOnRecord == store # NoInstance => Recorded(store)

(***************************************************************************)
(* Work is taken from a person only for a recorded reason: a closed task   *)
(* was transferred, or its node was rejected, returned from or withdrawn,  *)
(* or - at an or-sign only - a sibling approved.  At a countersign an      *)
(* approval never closes anything (approval.go handleConfig).              *)
(***************************************************************************)
Explains(record, id, task) ==
  /\ record.node = task.node
  /\ \/ record.action = TaskTransferred /\ record.task = id
     \/ record.action \in {InstanceWithdrawn, InstanceReturned, TaskAction(CommandReject)}
     \/ record.action = TaskAction(CommandApprove) /\ task.node \in OrSigns
Explained(inst) ==
  \A id \in ApprovalIds(inst) :
    inst.tasks[id].status = "closed" =>
      \E k \in DOMAIN inst.audit : Explains(inst.audit[k], id, inst.tasks[id])
ClosedForAReason == store # NoInstance => Explained(store)

(***************************************************************************)
(* An or-sign takes one decision per round: an or-sign node has never more *)
(* decisions than entries, however many owners decide at the same moment   *)
(* and however often it is returned to (approval.go ModeAny).              *)
(***************************************************************************)
OrSignDecidesOnce ==
  store # NoInstance =>
    \A node \in OrSigns :
      Cardinality(DecisionsAt(store.audit, node)) <= Cardinality(Entries(store.audit, node))

(***************************************************************************)
(* "one person must never contribute multiple decisions to a frozen round" *)
(* (approval.go validateAssignees): between two entries of a node no actor *)
(* decides two of its tasks.                                               *)
(***************************************************************************)
OneDecisionPerPerson ==
  store # NoInstance =>
    LET audit == store.audit IN
    \A node \in ApprovalNodes : \A j, k \in DecisionsAt(audit, node) :
      j < k /\ audit[j].actor = audit[k].actor =>
        \E m \in j+1 .. k-1 : audit[m].action = NodeEntered
=============================================================================
