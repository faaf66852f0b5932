-------------------------------- MODULE Engine --------------------------------
(***************************************************************************)
(* engine.go: concurrent engine calls on one instance.  Each client is one *)
(* call in progress.  A call loads one snapshot, changes a private         *)
(* candidate - one step of the advance loop at a time - and ends in a      *)
(* single Create or compare-and-swap Save, or anywhere with an error.      *)
(*                                                                         *)
(* Handlers are parameters.  ActivateResults(node) holds the results the   *)
(* node's handler may return on activation, HandleResults(node, tasks, id, *)
(* name) those for a command; policies may deny any request (Fail).        *)
(***************************************************************************)
EXTENDS Aggregate

CONSTANTS
  Clients,                    \* concurrent engine calls
  Initiators,                 \* actors that start instances
  Operators,                  \* actors the host's policies let withdraw, return, transfer
  ActivateResults(_),
  HandleResults(_, _, _, _)

ASSUME ActorAssumption == Initiators \union Operators \subseteq Actors

VARIABLES
  store,      \* the durable instance, or NoInstance
  client      \* the private state of each call

vars == <<store, client>>

(* What a call holds: base is the snapshot it loaded, whose version is the *)
(* expectedVersion of its Save; cand is its private candidate; outcome is  *)
(* the selector of the next route.                                         *)
Call == [pc : {"idle", "loaded", "advance", "save"},
         base : Instance \union {NoInstance},
         cand : Instance \union {NoInstance},
         outcome : Outcomes \union {Empty}]

Idle == [pc |-> "idle", base |-> NoInstance, cand |-> NoInstance, outcome |-> Empty]

Loaded(base) == [pc |-> "loaded", base |-> base, cand |-> NoInstance, outcome |-> Empty]
Advancing(base, cand, outcome) ==
  [pc |-> "advance", base |-> base, cand |-> cand, outcome |-> outcome]
Saving(base, cand) == [pc |-> "save", base |-> base, cand |-> cand, outcome |-> Empty]

\* Where a call goes with the result its candidate has just taken over.
AfterResult(base, cand, result) ==
  IF Advances(result) THEN Advancing(base, cand, result.outcome) ELSE Saving(base, cand)

TypeOK ==
  /\ store \in Instance \union {NoInstance}
  /\ client \in [Clients -> Call]

Init ==
  /\ store = NoInstance
  /\ client = [c \in Clients |-> Idle]

-----------------------------------------------------------------------------
(* The beginning of a call. *)

\* Start: the candidate exists only in the call until Create.
Start(c, initiator) ==
  /\ client[c].pc = "idle"
  /\ client' = [client EXCEPT ![c] = Advancing(NoInstance, Started(initiator), Empty)]
  /\ UNCHANGED store

\* executeInstanceCommand's Load; a missing or finished instance ends the call.
Load(c) ==
  /\ client[c].pc = "idle"
  /\ store # NoInstance
  /\ store.status = "running"
  /\ client' = [client EXCEPT ![c] = Loaded(store)]
  /\ UNCHANGED store

-----------------------------------------------------------------------------
(* The operations, each on the loaded snapshot. *)

\* CommandAllowed, mutated: the command need not come from the task's owner.
CommandFromAnyone(inst, id, actor, name) ==
  /\ name # ReservedCommand
  /\ id \in NodeIds(inst.tasks, inst.node)
  /\ inst.tasks[id].status = "active"

\* CommandAllowed, mutated: a command may take the name of a transfer's record.
CommandUnreserved(inst, id, actor, name) ==
  /\ id \in NodeIds(inst.tasks, inst.node)
  /\ inst.tasks[id].status = "active"
  /\ inst.tasks[id].assignee = actor

\* validateCommand and validateCommandTask.
CommandAllowed(inst, id, actor, name) ==
  /\ name # ReservedCommand
  /\ id \in NodeIds(inst.tasks, inst.node)
  /\ inst.tasks[id].status = "active"
  /\ inst.tasks[id].assignee = actor

Handle(c, id, actor, name, result) ==
  LET base == client[c].base IN
  /\ client[c].pc = "loaded"
  /\ CommandAllowed(base, id, actor, name)
  /\ IsNodeResult(result)
  /\ PreparedCommand(base, result)
  /\ client' = [client EXCEPT ![c] =
       AfterResult(base, ApplyCommand(RecordTaskCommand(base, name, id, actor), result), result)]
  /\ UNCHANGED store

Withdraw(c, actor) ==
  LET base == client[c].base IN
  /\ client[c].pc = "loaded"
  /\ client' = [client EXCEPT ![c] =
       Saving(base, Withdrawn(RecordWithdrawal(base, actor)))]
  /\ UNCHANGED store

\* ReturnAllowed, mutated: a node never entered is a target too.
ReturnAnywhere(inst, target) == target \in BusinessNodes /\ target # inst.node

ReturnAllowed(inst, target) ==
  /\ target \in BusinessNodes
  /\ target # inst.node
  /\ HasEnteredNode(inst.audit, target)

Return(c, actor, target, result) ==
  LET base == client[c].base IN
  /\ client[c].pc = "loaded"
  /\ ReturnAllowed(base, target)
  /\ IsNodeResult(result)
  /\ PreparedReturn(result)
  /\ client' = [client EXCEPT ![c] =
       Saving(base, ReturnTo(RecordReturn(base, target, actor), target, result))]
  /\ UNCHANGED store

TransferAllowed(inst, id) ==
  /\ id \in NodeIds(inst.tasks, inst.node)
  /\ inst.tasks[id].status = "active"

Transfer(c, actor, id, newAssignee) ==
  LET base == client[c].base IN
  /\ client[c].pc = "loaded"
  /\ TransferAllowed(base, id)
  /\ client' = [client EXCEPT ![c] =
       Saving(base, Transferred(RecordTransfer(base, id, actor, newAssignee), id, newAssignee))]
  /\ UNCHANGED store

-----------------------------------------------------------------------------
(* advance: one iteration of its loop. *)

NextNode(inst, outcome) == Route[<<inst.node, outcome>>]
HasRoute(inst, outcome) == <<inst.node, outcome>> \in DOMAIN Route

ReachEnd(c) ==
  LET cand == client[c].cand
      outcome == client[c].outcome
  IN
  /\ client[c].pc = "advance"
  /\ HasRoute(cand, outcome)
  /\ NextNode(cand, outcome) \in EndNodes
  /\ client' = [client EXCEPT ![c] =
       Saving(client[c].base, Complete(EnterNode(cand, NextNode(cand, outcome))))]
  /\ UNCHANGED store

EnterBusinessNode(c, result) ==
  LET cand == client[c].cand
      outcome == client[c].outcome
  IN
  /\ client[c].pc = "advance"
  /\ HasRoute(cand, outcome)
  /\ NextNode(cand, outcome) \in BusinessNodes
  /\ IsNodeResult(result)
  /\ PreparedActivation(result)
  /\ client' = [client EXCEPT ![c] =
       AfterResult(client[c].base,
                   ApplyActivation(EnterNode(cand, NextNode(cand, outcome)), result),
                   result)]
  /\ UNCHANGED store

-----------------------------------------------------------------------------
(* The end of a call. *)

\* Store.Create: insert only.
Create(c) ==
  /\ client[c].pc = "save"
  /\ client[c].base = NoInstance
  /\ store' = IF store = NoInstance THEN client[c].cand ELSE store
  /\ client' = [client EXCEPT ![c] = Idle]

\* SaveAccepts, mutated: a plain update.
SaveUnconditionally(stored, candidate, expectedVersion) == stored # NoInstance

\* Store.Save: the compare-and-swap and its audit-prefix check.
SaveAccepts(stored, candidate, expectedVersion) ==
  /\ stored # NoInstance
  /\ stored.version = expectedVersion
  /\ IsPrefix(stored.audit, candidate.audit)

\* Commit, mutated: a refused command is tried again on a fresh snapshot.
CommitRetrying(c) ==
  LET base == client[c].base
      cand == client[c].cand
      accepted == CanAdvanceVersion(cand) /\ SaveAccepts(store, AdvanceVersion(cand), base.version)
  IN
  /\ client[c].pc = "save"
  /\ base # NoInstance
  /\ store' = IF accepted THEN AdvanceVersion(cand) ELSE store
  /\ client' = [client EXCEPT ![c] =
       IF accepted \/ store.status # "running" THEN Idle ELSE Loaded(store)]

\* advanceVersion and Save; both may refuse, and the call then changes nothing.
Commit(c) ==
  LET base == client[c].base
      cand == client[c].cand
  IN
  /\ client[c].pc = "save"
  /\ base # NoInstance
  /\ store' = IF CanAdvanceVersion(cand) /\ SaveAccepts(store, AdvanceVersion(cand), base.version)
              THEN AdvanceVersion(cand) ELSE store
  /\ client' = [client EXCEPT ![c] = Idle]

(* Any error of a call: cancellation, a policy's denial, a handler's       *)
(* error or invalid proposal, an unroutable outcome, failed entropy, or    *)
(* the crash of the process.  The candidate is lost with the call.  After  *)
(* a commit whose acknowledgement is lost the caller is where Fail leaves  *)
(* it: it knows nothing, and may repeat the whole request.                 *)
Fail(c) ==
  /\ client[c].pc # "idle"
  /\ client' = [client EXCEPT ![c] = Idle]
  /\ UNCHANGED store

-----------------------------------------------------------------------------

Operate(c) ==
  LET base == client[c].base IN
  /\ client[c].pc = "loaded"
  /\ \/ \E actor \in Actors, id \in DOMAIN base.tasks, name \in CommandNames :
          /\ CommandAllowed(base, id, actor, name)
          /\ \E result \in HandleResults(base.node, NodeTasks(base.tasks, base.node), id, name) :
               Handle(c, id, actor, name, result)
     \/ \E actor \in Operators :
          \/ Withdraw(c, actor)
          \/ \E id \in DOMAIN base.tasks, newAssignee \in Actors :
               Transfer(c, actor, id, newAssignee)
          \/ \E target \in BusinessNodes : \E result \in ActivateResults(target) :
               Return(c, actor, target, result)

Advance(c) ==
  \/ ReachEnd(c)
  \/ /\ client[c].pc = "advance"
     /\ HasRoute(client[c].cand, client[c].outcome)
     /\ \E result \in ActivateResults(NextNode(client[c].cand, client[c].outcome)) :
          EnterBusinessNode(c, result)

Finish(c) == Create(c) \/ Commit(c) \/ Fail(c)

Next ==
  \E c \in Clients :
    \/ \E initiator \in Initiators : Start(c, initiator)
    \/ Load(c)
    \/ Operate(c)
    \/ Advance(c)
    \/ Finish(c)

Spec == Init /\ [][Next]_vars

-----------------------------------------------------------------------------
(* Safety. *)

(***************************************************************************)
(* No command leaves the durable instance stranded or dangling: it runs    *)
(* exactly when an active task exists for somebody to act on, every active *)
(* task belongs to the current node, and a finished instance has none.     *)
(* Transitions, returns, transfers and host handlers all move tasks and    *)
(* node separately (engine.go executeInstanceCommand and advance).         *)
(***************************************************************************)
NoStrandedWork == store # NoInstance => Settled(store)

(***************************************************************************)
(* The durable instance moves only as InstanceContract allows, whichever   *)
(* calls interleave between a Load and a Save.                             *)
(***************************************************************************)
Contract == INSTANCE InstanceContract WITH inst <- store
ImplementsContract == Contract!Spec

(***************************************************************************)
(* A call that still can commit started from what is durable now: equal    *)
(* versions mean equal instances, so an accepted Save overwrites nothing   *)
(* another call wrote (the uint64 token is never reused).                  *)
(***************************************************************************)
SnapshotIsCurrent ==
  \A c \in Clients :
    LET base == client[c].base IN
    base # NoInstance =>
      /\ store # NoInstance
      /\ base.version <= store.version
      /\ base.version = store.version => base = store

(* What makes the three above inductive: a loaded snapshot is running and  *)
(* settled, a candidate is a legal successor of its snapshot, it holds no  *)
(* active task while it is being routed, and it is settled once it is not. *)
Derived(base, cand) ==
  IF base = NoInstance
  THEN /\ cand.version = 1
       /\ cand.audit # << >>
       /\ cand.audit[1].action = InstanceStarted
  ELSE /\ cand.version = base.version
       /\ OneCause(base.audit, cand.audit)
       /\ TasksForward(base.tasks, cand.tasks)
Routing(cand) == cand.status = "running" /\ ActiveIds(cand.tasks) = {}
Runs(inst) == inst.status = "running" /\ Settled(inst)

CallInv(call) ==
  /\ call.pc = "loaded" => call.base # NoInstance
  /\ call.base # NoInstance => Runs(call.base)
  /\ call.pc \in {"advance", "save"} => call.cand # NoInstance /\ Derived(call.base, call.cand)
  /\ call.pc = "advance" => Routing(call.cand)
  /\ call.pc = "save" => Settled(call.cand)

(***************************************************************************)
(* The inductive invariant of EngineProofs: every call's private state and *)
(* the durable instance, taken together (engine.go executeInstanceCommand).*)
(***************************************************************************)
IInv ==
  /\ TypeOK
  /\ NoStrandedWork
  /\ SnapshotIsCurrent
  /\ \A c \in Clients : CallInv(client[c])

(***************************************************************************)
(* The audit tells the path of the instance: every node entry follows a    *)
(* declared route from the node entered before it, or directly follows the *)
(* record of a return that names it as target and comes from that node.    *)
(***************************************************************************)
IsArrival(record) == record.action \in {NodeEntered, InstanceStarted}
LastArrival(audit, k) ==
  audit[CHOOSE j \in 1..k-1 : /\ IsArrival(audit[j])
                              /\ \A m \in j+1 .. k-1 : ~IsArrival(audit[m])].node
AuditTellsThePath ==
  store # NoInstance =>
    LET audit == store.audit IN
    \A k \in 2..Len(audit) :
      audit[k].action = NodeEntered =>
        LET from == LastArrival(audit, k)
            cause == audit[k - 1]
        IN IF cause.action = InstanceReturned
           THEN /\ cause.target = audit[k].node
                /\ cause.node = from
                /\ HasEnteredNode(SubSeq(audit, 1, k - 1), audit[k].node)
           ELSE \E o \in Outcomes \union {Empty} :
                  <<from, o>> \in DOMAIN Route /\ Route[<<from, o>>] = audit[k].node

(***************************************************************************)
(* A return's audit record keeps the node state it discards: the record    *)
(* holds the state, and the node, of the instance it was committed over.   *)
(***************************************************************************)
ReturnKeepsState ==
  [][store # NoInstance =>
       \A k \in Len(store.audit)+1 .. Len(store'.audit) :
         store'.audit[k].action = InstanceReturned =>
           /\ store'.audit[k].state = store.state
           /\ store'.audit[k].node = store.node]_store

(***************************************************************************)
(* Every record of a transfer is a transfer: its task is closed, undecided *)
(* and has a later successor at the same node for the named assignee.  A   *)
(* handler's own command can not forge one.                                *)
(***************************************************************************)
TransfersHappened ==
  store # NoInstance =>
    \A k \in DOMAIN store.audit :
      LET r == store.audit[k] IN
      r.action = TaskTransferred =>
        /\ store.tasks[r.task].status = "closed"
        /\ store.tasks[r.task].outcome = Empty
        /\ \E s \in r.task+1 .. Len(store.tasks) :
             store.tasks[s].node = r.node /\ store.tasks[s].assignee = r.assignee
=============================================================================
