------------------------------ MODULE Aggregate ------------------------------
(***************************************************************************)
(* The workflow instance aggregate and the operations that change it: the  *)
(* fact boundary of instance_facts.go, and the validation of handler       *)
(* proposals in node_result_application.go.  Everything here is a constant *)
(* operator on one instance value; Engine.tla gives the operations their   *)
(* callers, and the store its interleavings.                               *)
(*                                                                         *)
(* Abstractions.  A task identity (128 random bits in the code) is the     *)
(* task's position in the aggregate: tasks are only ever appended, so the  *)
(* position is as unique and as stable as the identity.  Node state is an  *)
(* opaque value.  Business data, the frozen Definition, the initiator and  *)
(* reasons never change after creation and no operation depends on them;   *)
(* timestamps are left out.  A missing string is the empty string, as in   *)
(* the code.                                                               *)
(***************************************************************************)
EXTENDS Integers, Sequences, FiniteSets, SequencesExt

CONSTANTS
  Nodes,          \* node identities of the frozen Definition
  StartNode,      \* its single start node
  EndNodes,       \* its end nodes
  Outcomes,       \* non-empty outcome selectors
  Route,          \* compiled routes: <<source, outcome>> :> target
  Actors,         \* host identities
  States,         \* opaque node states, each a valid JSON document
  CommandNames,   \* names a caller may put in a command
  MaxVersion,     \* the largest CAS token (2^64 - 1 in the code)
  NoInstance      \* the nil instance pointer

Empty == ""
NotJSON == "not json"     \* stands for every malformed node state

Selectors == (Nodes \ EndNodes) \X (Outcomes \union {Empty})
BusinessNodes == Nodes \ (EndNodes \union {StartNode})

(***************************************************************************)
(* What compileDefinition guarantees of a plan and the operations rely on. *)
(* No route enters the start node: it would close a cycle, because every   *)
(* node is reachable from the start (Compiler.tla checks this).            *)
(***************************************************************************)
ASSUME PlanAssumption ==
  /\ StartNode \in Nodes
  /\ EndNodes \subseteq Nodes \ {StartNode}
  /\ DOMAIN Route \subseteq Selectors
  /\ \A s \in DOMAIN Route : Route[s] \in Nodes \ {StartNode}

ASSUME ValueAssumption ==
  /\ Empty \notin Nodes \union Outcomes \union Actors \union States
  /\ NotJSON \notin States
  /\ MaxVersion \in Nat \ {0}

-----------------------------------------------------------------------------
(* Tasks, audit records and instances. *)

TaskStatuses == {"active", "completed", "closed"}
InstanceStatuses == {"running", "completed", "rejected", "withdrawn"}

Task == [node : BusinessNodes, assignee : Actors, status : TaskStatuses,
         outcome : Outcomes \union {Empty}]

\* What a handler's Task value may hold before the engine has validated it.
ProposedTask == [node : Nodes, assignee : Actors \union {Empty},
                 status : TaskStatuses \union {Empty},
                 outcome : Outcomes \union {Empty}]

(* An audit action is its scope and its verb: "task.approve" in the code.  *)
NodeEntered == <<"node", "entered">>
NodeRejected == <<"node", "rejected">>
InstanceStarted == <<"instance", "started">>
InstanceCompleted == <<"instance", "completed">>
InstanceRejected == <<"instance", "rejected">>
InstanceWithdrawn == <<"instance", "withdrawn">>
InstanceReturned == <<"instance", "returned">>
ReservedCommand == "transferred"
TaskAction(name) == <<"task", name>>
TaskTransferred == TaskAction(ReservedCommand)

Actions == {NodeEntered, NodeRejected, InstanceStarted, InstanceCompleted,
            InstanceRejected, InstanceWithdrawn, InstanceReturned, TaskTransferred}
             \union {TaskAction(name) : name \in CommandNames}

\* The record that names who caused a version and why; the others describe
\* what the engine did in consequence.
IsCausal(record) ==
  record.action[1] = "task" \/ record.action \in {InstanceWithdrawn, InstanceReturned}

AuditRecord == [action : Actions, node : Nodes, target : Nodes \union {Empty},
                task : Nat, actor : Actors \union {Empty},
                assignee : Actors \union {Empty}, state : States \union {Empty}]

Record(action, node) ==
  [action |-> action, node |-> node, target |-> Empty, task |-> 0,
   actor |-> Empty, assignee |-> Empty, state |-> Empty]

Instance == [status : InstanceStatuses, node : Nodes, state : States \union {Empty},
             tasks : Seq(Task), audit : Seq(AuditRecord), version : 1..MaxVersion]

ActiveIds(tasks) == {k \in DOMAIN tasks : tasks[k].status = "active"}
NodeIds(tasks, node) == {k \in DOMAIN tasks : tasks[k].node = node}

\* nodeTasks: the view of its own tasks, of every round, a handler is given.
NodeTasks(tasks, node) == [k \in NodeIds(tasks, node) |-> tasks[k]]

HasEnteredNode(audit, node) ==
  \E k \in DOMAIN audit : audit[k].action = NodeEntered /\ audit[k].node = node

ASSUME NilAssumption == NoInstance \notin Instance

-----------------------------------------------------------------------------
(* instance_facts.go: each operator is the candidate after the method. *)

AppendAudit(inst, record) == [inst EXCEPT !.audit = Append(@, record)]

Started(initiator) ==
  [status |-> "running", node |-> StartNode, state |-> Empty, tasks |-> << >>,
   audit |-> <<[Record(InstanceStarted, StartNode) EXCEPT !.actor = initiator]>>,
   version |-> 1]

RecordTaskCommand(inst, name, id, actor) ==
  AppendAudit(inst, [Record(TaskAction(name), inst.node) EXCEPT
                       !.task = id, !.actor = actor])

RecordWithdrawal(inst, actor) ==
  AppendAudit(inst, [Record(InstanceWithdrawn, inst.node) EXCEPT !.actor = actor])

\* RecordReturn, mutated: the state that is discarded is not kept.
RecordReturnStateless(inst, target, actor) ==
  AppendAudit(inst, [Record(InstanceReturned, inst.node) EXCEPT
                       !.target = target, !.actor = actor])

RecordReturn(inst, target, actor) ==
  AppendAudit(inst, [Record(InstanceReturned, inst.node) EXCEPT
                       !.target = target, !.actor = actor, !.state = inst.state])

RecordTransfer(inst, id, actor, newAssignee) ==
  AppendAudit(inst, [Record(TaskTransferred, inst.tasks[id].node) EXCEPT
                       !.task = id, !.actor = actor, !.assignee = newAssignee])

EnterNode(inst, node) ==
  [inst EXCEPT !.node = node, !.state = Empty,
               !.audit = Append(@, Record(NodeEntered, node))]

Complete(inst) ==
  AppendAudit([inst EXCEPT !.status = "completed"], Record(InstanceCompleted, inst.node))

RejectNode(inst) == AppendAudit(inst, Record(NodeRejected, inst.node))

RejectInstance(inst) ==
  AppendAudit([inst EXCEPT !.status = "rejected"], Record(InstanceRejected, inst.node))

CloseTasks(tasks, ids) ==
  [k \in DOMAIN tasks |->
     IF k \in ids THEN [tasks[k] EXCEPT !.status = "closed"] ELSE tasks[k]]

\* Withdrawn, mutated: active tasks stay open.
WithdrawnOpen(inst) == [inst EXCEPT !.status = "withdrawn"]

Withdrawn(inst) ==
  [inst EXCEPT !.status = "withdrawn", !.tasks = CloseTasks(@, ActiveIds(@))]

ActivateTasks(tasks, node, drafts) ==
  tasks \o [k \in 1..Len(drafts) |-> [drafts[k] EXCEPT !.node = node]]

\* ReturnTo, mutated: the source round stays open.
ReturnToOpen(inst, target, result) ==
  [EnterNode(inst, target) EXCEPT
     !.state = result.state, !.tasks = ActivateTasks(@, target, result.tasks)]

ReturnTo(inst, target, result) ==
  LET source == ActiveIds(inst.tasks) \intersect NodeIds(inst.tasks, inst.node)
      closed == CloseTasks(inst.tasks, source)
  IN  [EnterNode(inst, target) EXCEPT
         !.state = result.state,
         !.tasks = ActivateTasks(closed, target, result.tasks)]

Transferred(inst, id, newAssignee) ==
  [inst EXCEPT !.tasks = Append(CloseTasks(@, {id}),
                                [node |-> @[id].node, assignee |-> newAssignee,
                                 status |-> "active", outcome |-> Empty])]

\* applyNodeTaskReplacements and setNodeState of an accepted command result.
ReplaceTasks(inst, result) ==
  [inst EXCEPT !.state = result.state,
               !.tasks = [k \in DOMAIN @ |->
                            IF k \in DOMAIN result.tasks THEN result.tasks[k] ELSE @[k]]]

CanAdvanceVersion(inst) == inst.version # MaxVersion
\* AdvanceVersion, mutated: the version stands still.
SameVersion(inst) == inst
AdvanceVersion(inst) == [inst EXCEPT !.version = @ + 1]

-----------------------------------------------------------------------------
(* node_result_application.go: the proposals the engine accepts. *)

Dispositions == {"waiting", "continue", "reject"}

(* The static type of NodeResult.  The tasks of a command result are keyed *)
(* by identity (the code indexes the proposed slice the same way, a later  *)
(* duplicate replacing an earlier one); the drafts of an activation are a  *)
(* sequence.                                                               *)
IsNodeResult(result) ==
  /\ result.disposition \in Dispositions \union {Empty}
  /\ result.outcome \in Outcomes \union {Empty}
  /\ result.state \in States \union {Empty, NotJSON}
  /\ \A k \in DOMAIN result.tasks : result.tasks[k] \in ProposedTask

ValidResultFields(result) ==
  /\ result.state # NotJSON
  /\ result.disposition \in Dispositions
  /\ result.disposition = "waiting" => result.outcome = Empty

ValidDrafts(drafts) ==
  /\ drafts \in Seq(ProposedTask)
  /\ \A k \in DOMAIN drafts : /\ drafts[k].assignee # Empty
                              /\ drafts[k].status = "active"
                              /\ drafts[k].outcome = Empty

PreparedActivation(result) ==
  /\ ValidResultFields(result)
  /\ result.disposition = "waiting" <=> result.tasks # << >>
  /\ ValidDrafts(result.tasks)

PreparedReturn(result) ==
  /\ ValidResultFields(result)
  /\ result.disposition = "waiting"
  /\ result.tasks # << >>
  /\ ValidDrafts(result.tasks)

ValidReplacement(current, updated) ==
  /\ updated.node = current.node
  /\ updated.assignee = current.assignee
  /\ IF current.status # "active"
     THEN updated = current
     ELSE \/ updated.status \in {"active", "closed"} /\ updated.outcome = current.outcome
          \/ updated.status = "completed" /\ updated.outcome # Empty

\* Every task of the node appears, no other identity does.
ValidReplacements(inst, tasks) ==
  /\ DOMAIN tasks = NodeIds(inst.tasks, inst.node)
  /\ \A k \in DOMAIN tasks : ValidReplacement(inst.tasks[k], tasks[k])

\* ValidTaskDisposition, mutated: one may wait for nobody.
MayWaitForNobody(disposition, tasks) == ActiveIds(tasks) # {} => disposition = "waiting"

ValidTaskDisposition(disposition, tasks) ==
  disposition = "waiting" <=> ActiveIds(tasks) # {}

PreparedCommand(inst, result) ==
  /\ ValidResultFields(result)
  /\ ValidReplacements(inst, result.tasks)
  /\ ValidTaskDisposition(result.disposition, result.tasks)

\* apply's closing switch: the facts of a rejection.
Dispose(inst, result) ==
  IF result.disposition # "reject" THEN inst
  ELSE IF result.outcome # Empty THEN RejectNode(inst) ELSE RejectInstance(inst)

ApplyCommand(inst, result) == Dispose(ReplaceTasks(inst, result), result)

ApplyActivation(inst, result) ==
  Dispose([inst EXCEPT !.tasks = ActivateTasks(@, inst.node, result.tasks),
                       !.state = result.state], result)

\* navigation: whether the engine follows a route after applying the result.
Advances(result) ==
  \/ result.disposition = "continue"
  \/ result.disposition = "reject" /\ result.outcome # Empty

-----------------------------------------------------------------------------
(* What a committed instance looks like, and how one follows another. *)

(***************************************************************************)
(* A settled instance is one an actor can act on, or a finished one: it    *)
(* runs exactly when some task is active, every active task belongs to the *)
(* current node, and it is completed exactly at an end node.               *)
(***************************************************************************)
Settled(inst) ==
  /\ inst.status = "running" <=> ActiveIds(inst.tasks) # {}
  /\ \A k \in ActiveIds(inst.tasks) : inst.tasks[k].node = inst.node
  /\ inst.status = "completed" <=> inst.node \in EndNodes
  /\ inst.node # StartNode

\* Task history: no task disappears, changes owner, is reopened, or has a
\* recorded decision rewritten.
TasksForward(old, new) ==
  /\ Len(old) <= Len(new)
  /\ \A k \in DOMAIN old : ValidReplacement(old[k], new[k])

\* The audit grows by one causal record followed only by consequences of it.
OneCause(old, new) ==
  /\ IsPrefix(old, new)
  /\ Len(old) < Len(new)
  /\ \A k \in Len(old)+1 .. Len(new) : IsCausal(new[k]) <=> k = Len(old) + 1
=============================================================================
