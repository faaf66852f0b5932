----------------------------- MODULE EngineProofs -----------------------------
(***************************************************************************)
(* Proofs about Engine.tla for every plan, handler, policy and number of   *)
(* concurrent calls; and, in the second part, about Approvals: what is     *)
(* recorded of decisions, for every configuration of its approval nodes,   *)
(* whatever the handlers of its other nodes.                               *)
(***************************************************************************)
EXTENDS Approvals, FiniteSetTheorems, SequenceTheorems, TLAPS

-----------------------------------------------------------------------------
(* Sequences. *)

\* A function on 1..n is a sequence of length n: what a rewrite of all tasks
\* in place (CloseTasks, ReplaceTasks) produces.
LEMMA FunctionIsSeq ==
  ASSUME NEW S, NEW n \in Nat, NEW f \in [1..n -> S]
  PROVE  f \in Seq(S) /\ Len(f) = n /\ DOMAIN f = 1..n
<1>1. f \in Seq(S)
  BY SeqDef
<1>2. DOMAIN f = 1..n
  OBVIOUS
<1>3. Len(f) \in Nat /\ DOMAIN f = 1..Len(f)
  BY <1>1, LenProperties
<1> QED
  BY <1>1, <1>2, <1>3

\* The community modules' prefix relation, pointwise.
LEMMA PrefixPointwise ==
  ASSUME NEW S, NEW s \in Seq(S), NEW t \in Seq(S)
  PROVE  IsPrefix(s, t) <=> /\ Len(s) <= Len(t)
                            /\ \A i \in 1..Len(s) : t[i] = s[i]
<1>1. SubSeq(s, 1, Len(s)) = s
  BY SubSeqFull
<1>2. CASE Len(s) <= Len(t)
  <2>1. /\ SubSeq(t, 1, Len(s)) \in Seq(S)
        /\ Len(SubSeq(t, 1, Len(s))) = Len(s)
        /\ \A i \in 1..Len(s) : SubSeq(t, 1, Len(s))[i] = t[i]
    BY <1>2
  <2>2. (\A i \in 1..Len(s) : t[i] = s[i]) => SubSeq(t, 1, Len(s)) = s
    BY <2>1, SeqEqual
  <2> QED
    BY <1>1, <1>2, <2>1, <2>2 DEF IsPrefix
<1>3. CASE ~(Len(s) <= Len(t))
  BY <1>3 DEF IsPrefix
<1> QED
  BY <1>2, <1>3

-----------------------------------------------------------------------------
(* The audit: a cause, then its consequences. *)

\* A causal record appended to an audit is the one cause of what is appended next
\* (instance_facts.go recordTaskCommand, recordWithdrawal, recordReturn).
LEMMA CauseStarts ==
  ASSUME NEW S, NEW s \in Seq(S), NEW r \in S, IsCausal(r)
  PROVE  OneCause(s, Append(s, r))
<1>1. /\ Append(s, r) \in Seq(S)
      /\ Len(Append(s, r)) = Len(s) + 1
      /\ \A i \in 1..Len(s) : Append(s, r)[i] = s[i]
      /\ Append(s, r)[Len(s) + 1] = r
  BY AppendProperties
<1>2. IsPrefix(s, Append(s, r))
  <2>1. Len(s) \in Nat /\ Len(s) <= Len(Append(s, r))
    BY <1>1
  <2>2. IsPrefix(s, Append(s, r)) <=>
          /\ Len(s) <= Len(Append(s, r))
          /\ \A i \in 1..Len(s) : Append(s, r)[i] = s[i]
    BY <1>1, PrefixPointwise
  <2> QED
    BY <1>1, <2>1, <2>2
<1> QED
  BY <1>1, <1>2 DEF OneCause

\* A record that is no cause may follow a cause: it keeps the audit one of one cause
\* (instance_facts.go enterNode, complete, rejectNode, rejectInstance).
LEMMA ConsequenceFollows ==
  ASSUME NEW S, NEW s \in Seq(S), NEW t \in Seq(S), NEW r \in S,
         OneCause(s, t), ~IsCausal(r)
  PROVE  OneCause(s, Append(t, r))
<1>1. /\ Append(t, r) \in Seq(S)
      /\ Len(Append(t, r)) = Len(t) + 1
      /\ \A i \in 1..Len(t) : Append(t, r)[i] = t[i]
      /\ Append(t, r)[Len(t) + 1] = r
  BY AppendProperties
<1>2. Len(s) \in Nat /\ Len(t) \in Nat /\ Len(s) < Len(t)
  BY DEF OneCause
<1>3. IsPrefix(s, Append(t, r))
  <2>1. \A i \in 1..Len(s) : t[i] = s[i]
    BY PrefixPointwise DEF OneCause
  <2>2. \A i \in 1..Len(s) : Append(t, r)[i] = s[i]
    BY <1>1, <1>2, <2>1
  <2>3. IsPrefix(s, Append(t, r)) <=>
          /\ Len(s) <= Len(Append(t, r))
          /\ \A i \in 1..Len(s) : Append(t, r)[i] = s[i]
    BY <1>1, PrefixPointwise
  <2> QED
    BY <1>1, <1>2, <2>2, <2>3
<1>4. ASSUME NEW k \in Len(s)+1 .. Len(t)+1
      PROVE  IsCausal(Append(t, r)[k]) <=> k = Len(s) + 1
  <2>1. CASE k = Len(t) + 1
    BY <1>1, <1>2, <2>1
  <2>2. CASE k # Len(t) + 1
    BY <1>1, <1>2, <2>2 DEF OneCause
  <2> QED
    BY <2>1, <2>2
<1> QED
  BY <1>1, <1>2, <1>3, <1>4 DEF OneCause

\* Audit records of the engine's own actions are well typed and keep the fields given.
LEMMA RecordTyped ==
  ASSUME NEW action \in Actions, NEW node \in Nodes
  PROVE  Record(action, node) \in AuditRecord /\ Record(action, node).action = action
BY DEF Record, AuditRecord

\* appendAudit leaves an instance an instance and changes nothing but its audit.
LEMMA AppendAuditTyped ==
  ASSUME NEW inst \in Instance, NEW r \in AuditRecord
  PROVE  /\ AppendAudit(inst, r) \in Instance
         /\ AppendAudit(inst, r).audit = Append(inst.audit, r)
         /\ AppendAudit(inst, r).status = inst.status
         /\ AppendAudit(inst, r).node = inst.node
         /\ AppendAudit(inst, r).tasks = inst.tasks
         /\ AppendAudit(inst, r).version = inst.version
<1>1. Append(inst.audit, r) \in Seq(AuditRecord)
  BY AppendProperties DEF Instance
<1> QED
  BY <1>1 DEF AppendAudit, Instance

-----------------------------------------------------------------------------
(* The task history. *)

\* The engine extends the history in two moves: a legal update in place, then
\* new tasks at the end.
LEMMA ForwardExtends ==
  ASSUME NEW old \in Seq(Task), NEW mid \in Seq(Task), NEW new \in Seq(Task),
         TasksForward(old, mid), Len(mid) <= Len(new),
         \A k \in 1..Len(mid) : new[k] = mid[k]
  PROVE  TasksForward(old, new)
<1>1. /\ Len(old) \in Nat /\ Len(mid) \in Nat /\ Len(new) \in Nat
      /\ DOMAIN old = 1..Len(old)
      /\ Len(old) <= Len(mid)
  BY LenProperties DEF TasksForward
<1>2. \A k \in DOMAIN old : k \in 1..Len(mid)
  BY <1>1
<1> QED
  BY <1>1, <1>2 DEF TasksForward

\* A history that nothing touched moves forward legally.
LEMMA ForwardReflexive ==
  ASSUME NEW tasks \in Seq(Task)
  PROVE  TasksForward(tasks, tasks)
<1>1. \A k \in DOMAIN tasks : tasks[k] \in Task
  BY LenProperties
<1> QED
  BY <1>1, LenProperties DEF TasksForward, ValidReplacement, Task, TaskStatuses

\* Closing active tasks is a legal update and removes exactly them.
LEMMA CloseTasksForward ==
  ASSUME NEW tasks \in Seq(Task), NEW ids \in SUBSET ActiveIds(tasks)
  PROVE  /\ CloseTasks(tasks, ids) \in Seq(Task)
         /\ Len(CloseTasks(tasks, ids)) = Len(tasks)
         /\ TasksForward(tasks, CloseTasks(tasks, ids))
         /\ ActiveIds(CloseTasks(tasks, ids)) = ActiveIds(tasks) \ ids
         /\ \A k \in DOMAIN tasks : CloseTasks(tasks, ids)[k].node = tasks[k].node
<1> DEFINE closed == CloseTasks(tasks, ids)
<1>1. Len(tasks) \in Nat /\ DOMAIN tasks = 1..Len(tasks)
  BY LenProperties
<1>2. \A k \in 1..Len(tasks) : tasks[k] \in Task
  BY <1>1
<1>3. \A k \in 1..Len(tasks) :
        closed[k] = IF k \in ids THEN [tasks[k] EXCEPT !.status = "closed"] ELSE tasks[k]
  BY <1>1 DEF CloseTasks
<1>4. \A k \in 1..Len(tasks) : [tasks[k] EXCEPT !.status = "closed"] \in Task
  BY <1>2 DEF Task, TaskStatuses
<1>5. closed \in [1..Len(tasks) -> Task]
  BY <1>1, <1>2, <1>4 DEF CloseTasks
<1>6. closed \in Seq(Task) /\ Len(closed) = Len(tasks) /\ DOMAIN closed = 1..Len(tasks)
  BY <1>1, <1>5, FunctionIsSeq
<1>7. ASSUME NEW k \in 1..Len(tasks)
      PROVE  /\ ValidReplacement(tasks[k], closed[k])
             /\ closed[k].node = tasks[k].node
             /\ closed[k].status = "active" <=> tasks[k].status = "active" /\ k \notin ids
  <2>1. CASE k \in ids
    <3>1. tasks[k].status = "active" /\ closed[k] = [tasks[k] EXCEPT !.status = "closed"]
      BY <1>3, <2>1 DEF ActiveIds
    <3> QED
      BY <1>2, <2>1, <3>1 DEF ValidReplacement, Task
  <2>2. CASE k \notin ids
    BY <1>2, <1>3, <2>2 DEF ValidReplacement, Task, TaskStatuses
  <2> QED
    BY <2>1, <2>2
<1>8. ActiveIds(closed) = ActiveIds(tasks) \ ids
  BY <1>1, <1>6, <1>7 DEF ActiveIds
<1> HIDE DEF closed
<1>9. TasksForward(tasks, closed)
  BY <1>1, <1>6, <1>7 DEF TasksForward
<1> QED
  BY <1>1, <1>6, <1>7, <1>8, <1>9 DEF closed

\* A new round is appended whole, active, and at the node that opened it.
LEMMA ActivateTasksExtends ==
  ASSUME NEW tasks \in Seq(Task), NEW node \in BusinessNodes,
         NEW drafts, ValidDrafts(drafts)
  PROVE  LET new == ActivateTasks(tasks, node, drafts) IN
         /\ new \in Seq(Task)
         /\ Len(new) = Len(tasks) + Len(drafts)
         /\ Len(drafts) \in Nat
         /\ \A k \in 1..Len(tasks) : new[k] = tasks[k]
         /\ \A k \in Len(tasks)+1 .. Len(new) : new[k].status = "active" /\ new[k].node = node
<1> DEFINE round == [k \in 1..Len(drafts) |-> [drafts[k] EXCEPT !.node = node]]
<1>1. /\ Len(tasks) \in Nat /\ Len(drafts) \in Nat
      /\ DOMAIN drafts = 1..Len(drafts)
      /\ drafts \in Seq(ProposedTask)
  BY LenProperties DEF ValidDrafts
<1>2. \A k \in 1..Len(drafts) : drafts[k] \in ProposedTask
  BY <1>1
<1>3. ASSUME NEW k \in 1..Len(drafts)
      PROVE  /\ round[k] \in Task
             /\ round[k].status = "active"
             /\ round[k].node = node
  <2>1. /\ drafts[k].assignee \in Actors
        /\ drafts[k].status = "active"
        /\ drafts[k].outcome = Empty
    BY <1>1, <1>2 DEF ValidDrafts, ProposedTask
  <2> QED
    BY <1>2, <2>1 DEF Task, TaskStatuses, ProposedTask
<1>4. round \in [1..Len(drafts) -> Task]
  BY <1>3
<1>5. round \in Seq(Task) /\ Len(round) = Len(drafts)
  BY <1>1, <1>4, FunctionIsSeq
<1> HIDE DEF round
<1>6. /\ tasks \o round \in Seq(Task)
      /\ Len(tasks \o round) = Len(tasks) + Len(round)
      /\ \A k \in 1..Len(tasks) + Len(round) :
           (tasks \o round)[k] = IF k <= Len(tasks) THEN tasks[k] ELSE round[k - Len(tasks)]
  BY <1>5, ConcatProperties
<1>7. ActivateTasks(tasks, node, drafts) = tasks \o round
  BY DEF ActivateTasks, round
<1>8. \A k \in 1..Len(tasks) : (tasks \o round)[k] = tasks[k]
  BY <1>1, <1>5, <1>6
<1>9. ASSUME NEW k \in Len(tasks)+1 .. Len(tasks) + Len(drafts)
      PROVE  (tasks \o round)[k].status = "active" /\ (tasks \o round)[k].node = node
  <2>1. k - Len(tasks) \in 1..Len(drafts) /\ k \in 1..Len(tasks) + Len(round) /\ ~(k <= Len(tasks))
    BY <1>1, <1>5
  <2>2. (tasks \o round)[k] = round[k - Len(tasks)]
    BY <1>6, <2>1
  <2> QED
    BY <1>3, <2>1, <2>2
<1> QED
  BY <1>1, <1>5, <1>6, <1>7, <1>8, <1>9

\* An accepted command result only moves tasks of the current node forward, and
\* it leaves active tasks exactly when it asks the engine to wait.
LEMMA ReplaceTasksForward ==
  ASSUME NEW inst \in Instance, NEW result, IsNodeResult(result),
         PreparedCommand(inst, result), Settled(inst)
  PROVE  LET new == ReplaceTasks(inst, result) IN
         /\ new \in Instance
         /\ new.audit = inst.audit /\ new.status = inst.status
         /\ new.node = inst.node /\ new.version = inst.version
         /\ TasksForward(inst.tasks, new.tasks)
         /\ \A k \in ActiveIds(new.tasks) : new.tasks[k].node = new.node
         /\ ActiveIds(new.tasks) # {} <=> result.disposition = "waiting"
<1> DEFINE tasks == inst.tasks
           after == [k \in DOMAIN tasks |->
                       IF k \in DOMAIN result.tasks THEN result.tasks[k] ELSE tasks[k]]
<1>1. /\ tasks \in Seq(Task) /\ Len(tasks) \in Nat /\ DOMAIN tasks = 1..Len(tasks)
      /\ \A k \in 1..Len(tasks) : tasks[k] \in Task
  BY LenProperties DEF Instance
<1>2. DOMAIN result.tasks = NodeIds(tasks, inst.node)
  BY DEF PreparedCommand, ValidReplacements
<1>3. result.state \in States \union {Empty}
  BY DEF PreparedCommand, ValidResultFields, IsNodeResult
<1>4. ASSUME NEW k \in DOMAIN result.tasks
      PROVE  /\ result.tasks[k] \in Task
             /\ ValidReplacement(tasks[k], result.tasks[k])
             /\ result.tasks[k].node = inst.node
  <2>1. /\ ValidReplacement(tasks[k], result.tasks[k])
        /\ k \in DOMAIN tasks /\ tasks[k].node = inst.node
        /\ result.tasks[k] \in ProposedTask
    BY <1>2 DEF PreparedCommand, ValidReplacements, NodeIds, IsNodeResult
  <2>2. tasks[k] \in Task
    BY <1>1, <2>1
  <2>3. /\ result.tasks[k].node = tasks[k].node
        /\ result.tasks[k].assignee = tasks[k].assignee
        /\ result.tasks[k].status \in TaskStatuses
    BY <2>1, <2>2 DEF ValidReplacement, Task, TaskStatuses
  <2> QED
    BY <2>1, <2>2, <2>3 DEF Task, ProposedTask
<1>5. after \in [1..Len(tasks) -> Task]
  BY <1>1, <1>4
<1>6. after \in Seq(Task) /\ Len(after) = Len(tasks) /\ DOMAIN after = 1..Len(tasks)
  BY <1>1, <1>5, FunctionIsSeq
<1>7. \A k \in 1..Len(tasks) :
        after[k] = IF k \in DOMAIN result.tasks THEN result.tasks[k] ELSE tasks[k]
  BY <1>1
<1> DEFINE new == ReplaceTasks(inst, result)
<1>8. /\ new.tasks = after /\ new.state = result.state /\ new.audit = inst.audit
      /\ new.status = inst.status /\ new.node = inst.node /\ new.version = inst.version
      /\ new = [inst EXCEPT !.state = result.state, !.tasks = after]
  BY DEF ReplaceTasks, Instance
<1> HIDE DEF after, new
<1>9. new \in Instance
  BY <1>3, <1>6, <1>8 DEF Instance
<1>10. TasksForward(tasks, after)
  <2>1. \A k \in 1..Len(tasks) : ValidReplacement(tasks[k], after[k])
    BY <1>1, <1>4, <1>7 DEF ValidReplacement, Task, TaskStatuses
  <2> QED
    BY <1>1, <1>6, <2>1 DEF TasksForward
<1>11. ActiveIds(after) = ActiveIds(result.tasks)
  <2>1. \A k \in 1..Len(tasks) :
          k \notin DOMAIN result.tasks => after[k].status # "active"
    BY <1>1, <1>2, <1>7 DEF Settled, ActiveIds, NodeIds
  <2>2. DOMAIN result.tasks \subseteq 1..Len(tasks)
    BY <1>1, <1>2 DEF NodeIds
  <2> QED
    BY <1>6, <1>7, <2>1, <2>2 DEF ActiveIds
<1>12. \A k \in ActiveIds(after) : after[k].node = inst.node
  <2>1. \A k \in ActiveIds(after) : k \in DOMAIN result.tasks /\ k \in 1..Len(tasks)
    BY <1>6, <1>11 DEF ActiveIds
  <2> QED
    BY <1>4, <1>7, <2>1
<1>13. ActiveIds(after) # {} <=> result.disposition = "waiting"
  BY <1>11 DEF PreparedCommand, ValidTaskDisposition
<1> QED
  BY <1>8, <1>9, <1>10, <1>12, <1>13 DEF new

-----------------------------------------------------------------------------
(* The audit of a candidate, one engine fact at a time. *)

\* A candidate keeps being a successor of its snapshot while consequences are
\* appended to its audit and tasks to its history.
LEMMA DerivedContinues ==
  ASSUME NEW base \in Instance \union {NoInstance},
         NEW cand \in Instance, Derived(base, cand),
         NEW new \in Instance, new.version = cand.version,
         NEW r \in AuditRecord, ~IsCausal(r), new.audit = Append(cand.audit, r),
         Len(cand.tasks) <= Len(new.tasks),
         \A k \in 1..Len(cand.tasks) : new.tasks[k] = cand.tasks[k]
  PROVE  Derived(base, new)
<1>1. /\ cand.audit \in Seq(AuditRecord) /\ cand.tasks \in Seq(Task) /\ new.tasks \in Seq(Task)
  BY DEF Instance
<1>2. CASE base = NoInstance
  <2>1. cand.audit # << >> /\ cand.audit[1].action = InstanceStarted
    BY <1>2 DEF Derived
  <2>2. Len(cand.audit) \in Nat /\ Len(cand.audit) >= 1
    BY <1>1, <2>1, EmptySeq
  <2>3. new.audit # << >> /\ new.audit[1] = cand.audit[1]
    BY <1>1, <2>2, AppendProperties
  <2> QED
    BY <1>2, <2>1, <2>3 DEF Derived
<1>3. CASE base # NoInstance
  <2>1. base.audit \in Seq(AuditRecord) /\ base.tasks \in Seq(Task)
    BY <1>3 DEF Instance
  <2>2. OneCause(base.audit, new.audit)
    BY <1>1, <1>3, <2>1, ConsequenceFollows DEF Derived
  <2>3. TasksForward(base.tasks, new.tasks)
    BY <1>1, <1>3, <2>1, ForwardExtends DEF Derived
  <2> QED
    BY <1>3, <2>2, <2>3 DEF Derived
<1> QED
  BY <1>2, <1>3

-----------------------------------------------------------------------------
(* Every operation hands its call a legal candidate. *)

\* A call that saves, and one that advances, from a legal candidate.
LEMMA SavingIsLegal ==
  ASSUME NEW base \in Instance \union {NoInstance}, base # NoInstance => Runs(base),
         NEW cand \in Instance, Derived(base, cand), Settled(cand)
  PROVE  Saving(base, cand) \in Call /\ CallInv(Saving(base, cand))
BY NilAssumption DEF Saving, Call, CallInv

\* A call that has loaded a running, settled snapshot (executeInstanceCommand).
LEMMA LoadedIsLegal ==
  ASSUME NEW base \in Instance, Runs(base)
  PROVE  Loaded(base) \in Call /\ CallInv(Loaded(base)) /\ Loaded(base).base = base
BY NilAssumption DEF Loaded, Call, CallInv

\* A call whose candidate the advance loop still has to route.
LEMMA AdvancingIsLegal ==
  ASSUME NEW base \in Instance \union {NoInstance}, base # NoInstance => Runs(base),
         NEW cand \in Instance, Derived(base, cand), Routing(cand),
         NEW outcome \in Outcomes \union {Empty}
  PROVE  Advancing(base, cand, outcome) \in Call /\ CallInv(Advancing(base, cand, outcome))
BY NilAssumption DEF Advancing, Call, CallInv

\* The common end of commands and activations: disposing of a result whose
\* tasks the candidate has taken over (nodeResultApplication.apply).
LEMMA DisposeIsLegal ==
  ASSUME NEW base \in Instance \union {NoInstance}, base # NoInstance => Runs(base),
         NEW cand \in Instance, Derived(base, cand),
         cand.status = "running", cand.node \in BusinessNodes,
         \A k \in ActiveIds(cand.tasks) : cand.tasks[k].node = cand.node,
         NEW result, IsNodeResult(result), ValidResultFields(result),
         ActiveIds(cand.tasks) # {} <=> result.disposition = "waiting"
  PROVE  LET call == AfterResult(base, Dispose(cand, result), result)
         IN  call \in Call /\ CallInv(call)
<1>1. /\ result.outcome \in Outcomes \union {Empty}
      /\ result.disposition \in Dispositions
  BY DEF IsNodeResult, ValidResultFields
<1>2. cand.node \notin EndNodes /\ cand.node # StartNode /\ cand.node \in Nodes
  BY DEF BusinessNodes
<1>3. CASE result.disposition = "waiting"
  <2>1. Settled(cand)
    BY <1>2, <1>3 DEF Settled
  <2>2. AfterResult(base, Dispose(cand, result), result) = Saving(base, cand)
    BY <1>3 DEF AfterResult, Advances, Dispose
  <2> QED
    BY <2>1, <2>2, SavingIsLegal
<1>4. CASE result.disposition = "continue"
  <2>1. Routing(cand)
    BY <1>4 DEF Routing
  <2>2. AfterResult(base, Dispose(cand, result), result) = Advancing(base, cand, result.outcome)
    BY <1>4 DEF AfterResult, Advances, Dispose
  <2> QED
    BY <1>1, <2>1, <2>2, AdvancingIsLegal
<1>5. CASE result.disposition = "reject" /\ result.outcome # Empty
  <2> DEFINE r == Record(NodeRejected, cand.node)
             new == RejectNode(cand)
  <2>1. r \in AuditRecord /\ ~IsCausal(r)
    BY <1>2, RecordTyped DEF Actions, IsCausal, NodeRejected, InstanceWithdrawn, InstanceReturned
  <2>2. new = AppendAudit(cand, r)
    BY DEF RejectNode
  <2> HIDE DEF r, new
  <2>3. /\ new \in Instance /\ new.audit = Append(cand.audit, r) /\ new.status = cand.status
        /\ new.tasks = cand.tasks /\ new.version = cand.version
    BY <2>1, <2>2, AppendAuditTyped
  <2>4. Len(cand.tasks) <= Len(new.tasks)
    BY <2>3 DEF Instance
  <2>5. Derived(base, new)
    BY <2>1, <2>3, <2>4, DerivedContinues
  <2>6. Routing(new)
    BY <1>5, <2>3 DEF Routing
  <2>7. AfterResult(base, Dispose(cand, result), result) = Advancing(base, new, result.outcome)
    BY <1>5 DEF AfterResult, Advances, Dispose, new
  <2> QED
    BY <1>1, <2>3, <2>5, <2>6, <2>7, AdvancingIsLegal
<1>6. CASE result.disposition = "reject" /\ result.outcome = Empty
  <2> DEFINE r == Record(InstanceRejected, cand.node)
             rejected == [cand EXCEPT !.status = "rejected"]
             new == RejectInstance(cand)
  <2>1. r \in AuditRecord /\ ~IsCausal(r)
    BY <1>2, RecordTyped DEF Actions, IsCausal, InstanceRejected, InstanceWithdrawn, InstanceReturned
  <2>2. /\ rejected \in Instance /\ rejected.status = "rejected" /\ rejected.node = cand.node
        /\ rejected.tasks = cand.tasks /\ rejected.audit = cand.audit
        /\ rejected.version = cand.version
    BY DEF Instance, InstanceStatuses
  <2>3. new = AppendAudit(rejected, r)
    BY DEF RejectInstance
  <2> HIDE DEF r, rejected, new
  <2>4. /\ new \in Instance /\ new.audit = Append(cand.audit, r) /\ new.status = "rejected"
        /\ new.node = cand.node /\ new.tasks = cand.tasks /\ new.version = cand.version
    BY <2>1, <2>2, <2>3, AppendAuditTyped
  <2>5. Len(cand.tasks) <= Len(new.tasks)
    BY <2>4 DEF Instance
  <2>6. Derived(base, new)
    BY <2>1, <2>4, <2>5, DerivedContinues
  <2>7. Settled(new)
    BY <1>2, <1>6, <2>4 DEF Settled
  <2>8. AfterResult(base, Dispose(cand, result), result) = Saving(base, new)
    BY <1>6 DEF AfterResult, Advances, Dispose, new
  <2> QED
    BY <2>4, <2>6, <2>7, <2>8, SavingIsLegal
<1> QED
  BY <1>1, <1>3, <1>4, <1>5, <1>6 DEF Dispositions

-----------------------------------------------------------------------------
(* The operations. *)

\* Recording the cause of a command is what makes its candidate a successor of
\* the snapshot.
LEMMA CauseRecorded ==
  ASSUME NEW base \in Instance, NEW r \in AuditRecord, IsCausal(r)
  PROVE  /\ AppendAudit(base, r) \in Instance
         /\ OneCause(base.audit, AppendAudit(base, r).audit)
<1>1. base.audit \in Seq(AuditRecord)
  BY DEF Instance
<1>2. AppendAudit(base, r) \in Instance /\ AppendAudit(base, r).audit = Append(base.audit, r)
  BY AppendAuditTyped
<1>3. OneCause(base.audit, Append(base.audit, r))
  BY <1>1, CauseStarts
<1> QED
  BY <1>2, <1>3

\* Handle: whatever an accepted proposal contains, the call it leaves is legal
\* (engine.go Handle, node_result_application.go prepareCommandResult).
LEMMA HandleIsLegal ==
  ASSUME NEW base \in Instance, base # NoInstance, Runs(base),
         NEW name \in CommandNames, NEW actor \in Actors, NEW id,
         CommandAllowed(base, id, actor, name),
         NEW result, IsNodeResult(result), PreparedCommand(base, result)
  PROVE  LET rec == RecordTaskCommand(base, name, id, actor)
             call == AfterResult(base, ApplyCommand(rec, result), result)
         IN  call \in Call /\ CallInv(call)
<1> DEFINE r == [Record(TaskAction(name), base.node) EXCEPT !.task = id, !.actor = actor]
           rec == RecordTaskCommand(base, name, id, actor)
           cand == ReplaceTasks(rec, result)
<1>1. /\ base.tasks \in Seq(Task) /\ base.node \in Nodes /\ base.audit \in Seq(AuditRecord)
      /\ DOMAIN base.tasks = 1..Len(base.tasks) /\ Len(base.tasks) \in Nat
  BY LenProperties DEF Instance
<1>2. id \in 1..Len(base.tasks) /\ base.tasks[id].node = base.node
  BY <1>1 DEF CommandAllowed, NodeIds
<1>3. r \in AuditRecord /\ IsCausal(r)
  <2>1. TaskAction(name) \in Actions /\ TaskAction(name)[1] = "task"
    BY DEF Actions, TaskAction
  <2>2. id \in Nat
    BY <1>1, <1>2
  <2> QED
    BY <1>1, <2>1, <2>2, RecordTyped DEF AuditRecord, Record, IsCausal
<1>4. rec = AppendAudit(base, r)
  BY DEF RecordTaskCommand
<1> HIDE DEF r, rec
<1>5. /\ rec \in Instance
      /\ OneCause(base.audit, rec.audit)
      /\ rec.status = base.status /\ rec.node = base.node
      /\ rec.tasks = base.tasks /\ rec.version = base.version
  BY <1>3, <1>4, CauseRecorded, AppendAuditTyped
<1>6. Settled(rec) /\ PreparedCommand(rec, result)
  BY <1>5 DEF Runs, Settled, PreparedCommand, ValidReplacements
<1>7. /\ cand \in Instance
      /\ cand.audit = rec.audit /\ cand.status = rec.status
      /\ cand.node = rec.node /\ cand.version = rec.version
      /\ TasksForward(rec.tasks, cand.tasks)
      /\ \A k \in ActiveIds(cand.tasks) : cand.tasks[k].node = cand.node
      /\ ActiveIds(cand.tasks) # {} <=> result.disposition = "waiting"
  BY <1>5, <1>6, ReplaceTasksForward
<1>8. ApplyCommand(rec, result) = Dispose(cand, result)
  BY DEF ApplyCommand
<1> HIDE DEF cand
<1>9. Derived(base, cand)
  BY <1>5, <1>7 DEF Derived
<1>10. cand.status = "running" /\ cand.node \in BusinessNodes
  <2>1. base.tasks[id] \in Task
    BY <1>1, <1>2
  <2>2. base.node \in BusinessNodes
    BY <1>2, <2>1 DEF Task
  <2> QED
    BY <1>5, <1>7, <2>2 DEF Runs
<1>11. ValidResultFields(result)
  BY DEF PreparedCommand
<1> QED
  BY <1>7, <1>8, <1>9, <1>10, <1>11, DisposeIsLegal DEF rec

\* Withdraw: every active task is closed, so the candidate is settled (engine.go Withdraw).
LEMMA WithdrawIsLegal ==
  ASSUME NEW base \in Instance, base # NoInstance, Runs(base), NEW actor \in Actors
  PROVE  LET call == Saving(base, Withdrawn(RecordWithdrawal(base, actor)))
         IN  call \in Call /\ CallInv(call)
<1> DEFINE r == [Record(InstanceWithdrawn, base.node) EXCEPT !.actor = actor]
           rec == RecordWithdrawal(base, actor)
           cand == Withdrawn(rec)
           closed == CloseTasks(base.tasks, ActiveIds(base.tasks))
<1>1. base.tasks \in Seq(Task) /\ base.node \in Nodes
  BY DEF Instance
<1>2. r \in AuditRecord /\ IsCausal(r)
  <2>1. InstanceWithdrawn \in Actions
    BY DEF Actions
  <2> QED
    BY <1>1, <2>1, RecordTyped DEF AuditRecord, Record, IsCausal
<1>3. rec = AppendAudit(base, r)
  BY DEF RecordWithdrawal
<1> HIDE DEF r, rec
<1>4. /\ rec \in Instance
      /\ OneCause(base.audit, rec.audit)
      /\ rec.node = base.node /\ rec.tasks = base.tasks /\ rec.version = base.version
  BY <1>2, <1>3, CauseRecorded, AppendAuditTyped
<1>5. /\ closed \in Seq(Task)
      /\ TasksForward(base.tasks, closed)
      /\ ActiveIds(closed) = {}
  BY <1>1, CloseTasksForward
<1>6. cand = [rec EXCEPT !.status = "withdrawn", !.tasks = closed]
  BY <1>4 DEF Withdrawn
<1> HIDE DEF closed, cand
<1>7. /\ cand \in Instance /\ cand.tasks = closed /\ cand.status = "withdrawn"
      /\ cand.audit = rec.audit /\ cand.node = rec.node /\ cand.version = rec.version
  BY <1>4, <1>5, <1>6 DEF Instance, InstanceStatuses
<1>8. Derived(base, cand)
  BY <1>4, <1>5, <1>7 DEF Derived
<1>9. Settled(cand)
  <2>1. base.node \notin EndNodes /\ base.node # StartNode
    BY DEF Runs, Settled
  <2> QED
    BY <1>4, <1>5, <1>7, <2>1 DEF Settled
<1> QED
  BY <1>7, <1>8, <1>9, SavingIsLegal DEF cand, rec

\* enterNode moves the node and the audit, and keeps tasks, status and version.
LEMMA EnterNodeFacts ==
  ASSUME NEW inst \in Instance, NEW node \in Nodes
  PROVE  LET entered == EnterNode(inst, node) IN
         /\ entered \in Instance
         /\ entered.node = node /\ entered.status = inst.status
         /\ entered.tasks = inst.tasks /\ entered.version = inst.version
         /\ entered.audit = Append(inst.audit, Record(NodeEntered, node))
         /\ Record(NodeEntered, node) \in AuditRecord
         /\ ~IsCausal(Record(NodeEntered, node))
<1> DEFINE r == Record(NodeEntered, node)
           entered == EnterNode(inst, node)
<1>1. r \in AuditRecord /\ ~IsCausal(r)
  BY RecordTyped DEF Actions, IsCausal, NodeEntered, InstanceWithdrawn, InstanceReturned
<1>2. Append(inst.audit, r) \in Seq(AuditRecord)
  <2>1. inst.audit \in Seq(AuditRecord)
    BY DEF Instance
  <2> QED
    BY <1>1, <2>1, AppendProperties
<1>3. entered = [inst EXCEPT !.node = node, !.state = Empty, !.audit = Append(inst.audit, r)]
  BY DEF EnterNode
<1> HIDE DEF r, entered
<1> QED
  <2>1. /\ entered \in Instance
        /\ entered.node = node /\ entered.status = inst.status
        /\ entered.tasks = inst.tasks /\ entered.version = inst.version
        /\ entered.audit = Append(inst.audit, r)
    BY <1>2, <1>3 DEF Instance
  <2> QED
    BY <1>1, <2>1 DEF r, entered

\* An accepted round of drafts opens active work at the node it is for.
LEMMA RoundOpens ==
  ASSUME NEW tasks \in Seq(Task), ActiveIds(tasks) = {},
         NEW node \in BusinessNodes, NEW drafts, ValidDrafts(drafts)
  PROVE  LET new == ActivateTasks(tasks, node, drafts) IN
         /\ \A k \in ActiveIds(new) : new[k].node = node
         /\ ActiveIds(new) # {} <=> drafts # << >>
<1> DEFINE new == ActivateTasks(tasks, node, drafts)
<1>1. /\ new \in Seq(Task) /\ Len(new) = Len(tasks) + Len(drafts) /\ Len(drafts) \in Nat
      /\ \A k \in 1..Len(tasks) : new[k] = tasks[k]
      /\ \A k \in Len(tasks)+1 .. Len(new) : new[k].status = "active" /\ new[k].node = node
  BY ActivateTasksExtends
<1> HIDE DEF new
<1>2. /\ Len(tasks) \in Nat /\ DOMAIN tasks = 1..Len(tasks) /\ DOMAIN new = 1..Len(new)
  BY <1>1, LenProperties
<1>3. ActiveIds(new) = Len(tasks)+1 .. Len(new)
  <2>1. \A k \in 1..Len(tasks) : tasks[k].status # "active"
    BY <1>2 DEF ActiveIds
  <2> QED
    BY <1>1, <1>2, <2>1 DEF ActiveIds
<1>4. drafts # << >> <=> Len(drafts) > 0
  BY <1>1, EmptySeq DEF ValidDrafts
<1> QED
  BY <1>1, <1>2, <1>3, <1>4 DEF new

\* Return: the source round is closed and a new one is open at the target (engine.go Return).
LEMMA ReturnIsLegal ==
  ASSUME NEW base \in Instance, base # NoInstance, Runs(base),
         NEW actor \in Actors, NEW target, ReturnAllowed(base, target),
         NEW result, IsNodeResult(result), PreparedReturn(result)
  PROVE  LET call == Saving(base, ReturnTo(RecordReturn(base, target, actor), target, result))
         IN  call \in Call /\ CallInv(call)
<1> DEFINE r == [Record(InstanceReturned, base.node) EXCEPT
                   !.target = target, !.actor = actor, !.state = base.state]
           rec == RecordReturn(base, target, actor)
           source == ActiveIds(base.tasks) \intersect NodeIds(base.tasks, base.node)
           closed == CloseTasks(base.tasks, source)
           entered == EnterNode(rec, target)
           after == ActivateTasks(closed, target, result.tasks)
           cand == ReturnTo(rec, target, result)
<1>1. /\ base.tasks \in Seq(Task) /\ base.node \in Nodes /\ base.state \in States \union {Empty}
      /\ base.audit \in Seq(AuditRecord)
  BY DEF Instance
<1>2. target \in BusinessNodes /\ target \in Nodes
  BY DEF ReturnAllowed, BusinessNodes
<1>3. r \in AuditRecord /\ IsCausal(r)
  <2>1. InstanceReturned \in Actions
    BY DEF Actions
  <2> QED
    BY <1>1, <1>2, <2>1, RecordTyped DEF AuditRecord, Record, IsCausal
<1>4. rec = AppendAudit(base, r)
  BY DEF RecordReturn
<1> HIDE DEF r, rec
<1>5. /\ rec \in Instance
      /\ OneCause(base.audit, rec.audit)
      /\ rec.status = base.status /\ rec.node = base.node
      /\ rec.tasks = base.tasks /\ rec.version = base.version
  BY <1>3, <1>4, CauseRecorded, AppendAuditTyped
<1>6. /\ entered \in Instance
      /\ entered.node = target /\ entered.status = rec.status
      /\ entered.tasks = rec.tasks /\ entered.version = rec.version
      /\ OneCause(base.audit, entered.audit)
  <2>1. rec.audit \in Seq(AuditRecord)
    BY <1>5 DEF Instance
  <2>2. /\ entered \in Instance
        /\ entered.node = target /\ entered.status = rec.status
        /\ entered.tasks = rec.tasks /\ entered.version = rec.version
        /\ entered.audit = Append(rec.audit, Record(NodeEntered, target))
        /\ Record(NodeEntered, target) \in AuditRecord
        /\ ~IsCausal(Record(NodeEntered, target))
    BY <1>2, <1>5, EnterNodeFacts
  <2>3. OneCause(base.audit, entered.audit)
    BY <1>1, <1>5, <2>1, <2>2, ConsequenceFollows
  <2> QED
    BY <2>2, <2>3
<1>7. source = ActiveIds(base.tasks)
  BY DEF Runs, Settled, ActiveIds, NodeIds
<1> HIDE DEF source
<1>8. /\ closed \in Seq(Task) /\ Len(closed) = Len(base.tasks)
      /\ TasksForward(base.tasks, closed)
      /\ ActiveIds(closed) = {}
  BY <1>1, <1>7, CloseTasksForward
<1>9. ValidDrafts(result.tasks) /\ result.tasks # << >>
      /\ result.state \in States \union {Empty}
  BY DEF PreparedReturn, ValidResultFields, IsNodeResult
<1>10. cand = [entered EXCEPT !.state = result.state, !.tasks = after]
  BY <1>5 DEF ReturnTo, source
<1> HIDE DEF closed, entered, cand
<1>11. /\ after \in Seq(Task)
       /\ Len(closed) <= Len(after)
       /\ \A k \in 1..Len(closed) : after[k] = closed[k]
       /\ \A k \in ActiveIds(after) : after[k].node = target
       /\ ActiveIds(after) # {}
  <2>1. Len(closed) \in Nat
    BY <1>8, LenProperties
  <2> HIDE DEF after
  <2>2. /\ after \in Seq(Task) /\ Len(after) = Len(closed) + Len(result.tasks)
        /\ Len(result.tasks) \in Nat
        /\ \A k \in 1..Len(closed) : after[k] = closed[k]
    <3> DEFINE drafts == result.tasks
    <3>1. ValidDrafts(drafts) /\ closed \in Seq(Task)
      BY <1>8, <1>9
    <3> HIDE DEF drafts
    <3>2. LET new == ActivateTasks(closed, target, drafts) IN
          /\ new \in Seq(Task)
          /\ Len(new) = Len(closed) + Len(drafts)
          /\ Len(drafts) \in Nat
          /\ \A k \in 1..Len(closed) : new[k] = closed[k]
      BY <1>2, <3>1, ActivateTasksExtends
    <3> QED
      BY <3>2 DEF after, drafts
  <2>3. /\ \A k \in ActiveIds(after) : after[k].node = target
        /\ ActiveIds(after) # {}
    <3>1. LET new == ActivateTasks(closed, target, result.tasks) IN
          /\ \A k \in ActiveIds(new) : new[k].node = target
          /\ ActiveIds(new) # {} <=> result.tasks # << >>
      BY <1>2, <1>8, <1>9, RoundOpens
    <3> QED
      BY <1>9, <3>1 DEF after
  <2> QED
    BY <2>1, <2>2, <2>3
<1> HIDE DEF after
<1>12. TasksForward(base.tasks, after)
  BY <1>1, <1>8, <1>11, ForwardExtends
<1>13. /\ cand \in Instance /\ cand.tasks = after /\ cand.status = base.status
       /\ cand.node = target /\ cand.version = base.version
       /\ OneCause(base.audit, cand.audit)
  BY <1>5, <1>6, <1>9, <1>10, <1>11 DEF Instance
<1>14. Derived(base, cand)
  BY <1>12, <1>13 DEF Derived
<1>15. Settled(cand)
  <2>1. base.status = "running" /\ target \notin EndNodes /\ target # StartNode
    BY <1>2 DEF Runs, BusinessNodes
  <2> QED
    BY <1>11, <1>13, <2>1 DEF Settled
<1> QED
  BY <1>13, <1>14, <1>15, SavingIsLegal DEF cand, rec

\* Transfer: one active task is exchanged for another at the same node (engine.go Transfer).
LEMMA TransferIsLegal ==
  ASSUME NEW base \in Instance, base # NoInstance, Runs(base),
         NEW actor \in Actors, NEW newAssignee \in Actors,
         NEW id, TransferAllowed(base, id)
  PROVE  LET rec == RecordTransfer(base, id, actor, newAssignee)
             call == Saving(base, Transferred(rec, id, newAssignee))
         IN  call \in Call /\ CallInv(call)
<1> DEFINE r == [Record(TaskTransferred, base.tasks[id].node) EXCEPT
                   !.task = id, !.actor = actor, !.assignee = newAssignee]
           rec == RecordTransfer(base, id, actor, newAssignee)
           closed == CloseTasks(base.tasks, {id})
           task == [node |-> base.tasks[id].node, assignee |-> newAssignee,
                    status |-> "active", outcome |-> Empty]
           after == Append(closed, task)
           cand == Transferred(rec, id, newAssignee)
<1>1. /\ base.tasks \in Seq(Task) /\ base.node \in Nodes
      /\ Len(base.tasks) \in Nat /\ DOMAIN base.tasks = 1..Len(base.tasks)
  BY LenProperties DEF Instance
<1>2. /\ id \in 1..Len(base.tasks) /\ id \in ActiveIds(base.tasks)
      /\ base.tasks[id].node = base.node
  BY <1>1 DEF TransferAllowed, NodeIds, ActiveIds
<1>3. base.tasks[id] \in Task /\ base.node \in BusinessNodes
  <2>1. base.tasks[id] \in Task
    BY <1>1, <1>2
  <2> QED
    BY <1>2, <2>1 DEF Task
<1>4. r \in AuditRecord /\ IsCausal(r)
  <2>1. TaskTransferred \in Actions /\ TaskTransferred[1] = "task"
    BY DEF Actions, TaskTransferred, TaskAction
  <2>2. id \in Nat /\ base.tasks[id].node \in Nodes
    BY <1>1, <1>2
  <2> QED
    BY <1>1, <2>1, <2>2, RecordTyped DEF AuditRecord, Record, IsCausal
<1>5. rec = AppendAudit(base, r)
  BY DEF RecordTransfer
<1>6. task \in Task /\ task.status = "active" /\ task.node = base.node
  BY <1>2, <1>3 DEF Task, TaskStatuses
<1> HIDE DEF r, rec, task
<1>7. /\ rec \in Instance
      /\ OneCause(base.audit, rec.audit)
      /\ rec.status = base.status /\ rec.node = base.node
      /\ rec.tasks = base.tasks /\ rec.version = base.version
  BY <1>4, <1>5, CauseRecorded, AppendAuditTyped
<1>8. /\ closed \in Seq(Task) /\ Len(closed) = Len(base.tasks)
      /\ TasksForward(base.tasks, closed)
      /\ ActiveIds(closed) = ActiveIds(base.tasks) \ {id}
      /\ \A k \in DOMAIN base.tasks : closed[k].node = base.tasks[k].node
  <2>1. {id} \in SUBSET ActiveIds(base.tasks)
    BY <1>2
  <2> QED
    BY <1>1, <2>1, CloseTasksForward
<1> HIDE DEF closed
<1>9. /\ after \in Seq(Task) /\ Len(after) = Len(closed) + 1
      /\ DOMAIN after = 1..Len(closed) + 1
      /\ \A k \in 1..Len(closed) : after[k] = closed[k]
      /\ after[Len(closed) + 1] = task
  <2>1. /\ after \in Seq(Task) /\ Len(after) = Len(closed) + 1
        /\ \A k \in 1..Len(closed) : after[k] = closed[k]
        /\ after[Len(closed) + 1] = task
    BY <1>6, <1>8, AppendProperties
  <2> QED
    BY <2>1, LenProperties
<1> HIDE DEF after
<1>10. ActiveIds(after) # {} /\ \A k \in ActiveIds(after) : after[k].node = base.node
  <2>1. Len(closed) + 1 \in ActiveIds(after)
    BY <1>1, <1>6, <1>8, <1>9 DEF ActiveIds
  <2>2. ASSUME NEW k \in ActiveIds(after), k # Len(closed) + 1
        PROVE  after[k].node = base.node
    <3>1. k \in 1..Len(closed) /\ closed[k].status = "active"
      BY <1>1, <1>8, <1>9, <2>2 DEF ActiveIds
    <3>2. k \in ActiveIds(closed) /\ k \in DOMAIN base.tasks
      BY <1>1, <1>8, <3>1, LenProperties DEF ActiveIds
    <3>3. base.tasks[k].node = base.node
      BY <1>8, <3>2 DEF Runs, Settled
    <3> QED
      BY <1>8, <1>9, <3>1, <3>2, <3>3
  <2> QED
    BY <1>6, <1>9, <2>1, <2>2
<1>11. TasksForward(base.tasks, after)
  <2>1. Len(closed) <= Len(after)
    BY <1>1, <1>8, <1>9
  <2> QED
    BY <1>1, <1>8, <1>9, <2>1, ForwardExtends
<1>12. cand = [rec EXCEPT !.tasks = after]
  BY <1>7 DEF Transferred, after, closed, task
<1> HIDE DEF cand
<1>13. /\ cand \in Instance /\ cand.tasks = after /\ cand.status = base.status
       /\ cand.node = base.node /\ cand.audit = rec.audit /\ cand.version = base.version
  BY <1>7, <1>9, <1>12 DEF Instance
<1>14. Derived(base, cand)
  BY <1>7, <1>11, <1>13 DEF Derived
<1>15. Settled(cand)
  BY <1>10, <1>13 DEF Settled, Runs
<1> QED
  BY <1>13, <1>14, <1>15, SavingIsLegal DEF cand, rec

\* Start: the first candidate is a routable one without a snapshot (engine.go Start).
LEMMA StartIsLegal ==
  ASSUME NEW initiator \in Actors
  PROVE  LET call == Advancing(NoInstance, Started(initiator), Empty)
         IN  call \in Call /\ CallInv(call)
<1> DEFINE r == [Record(InstanceStarted, StartNode) EXCEPT !.actor = initiator]
           cand == Started(initiator)
<1>1. r \in AuditRecord /\ r.action = InstanceStarted
  <2>1. InstanceStarted \in Actions /\ StartNode \in Nodes
    BY PlanAssumption DEF Actions
  <2> QED
    BY <2>1, RecordTyped DEF AuditRecord, Record
<1>2. cand = [status |-> "running", node |-> StartNode, state |-> Empty,
              tasks |-> << >>, audit |-> <<r>>, version |-> 1]
  BY DEF Started
<1> HIDE DEF r, cand
<1>3. <<r>> \in Seq(AuditRecord) /\ <<r>> # << >> /\ <<r>>[1] = r
  BY <1>1
<1>4. cand \in Instance
  BY <1>2, <1>3, PlanAssumption, ValueAssumption DEF Instance, InstanceStatuses
<1>5. Derived(NoInstance, cand)
  BY <1>1, <1>2, <1>3 DEF Derived
<1>6. Routing(cand)
  BY <1>2 DEF Routing, ActiveIds
<1> QED
  BY <1>4, <1>5, <1>6, AdvancingIsLegal DEF cand

\* Entering a node keeps a candidate a routable successor of its snapshot.
LEMMA EnteredIsLegal ==
  ASSUME NEW base \in Instance \union {NoInstance},
         NEW cand \in Instance, Derived(base, cand), Routing(cand), NEW node \in Nodes
  PROVE  LET entered == EnterNode(cand, node) IN
         /\ entered \in Instance /\ entered.node = node
         /\ Derived(base, entered) /\ Routing(entered)
<1> DEFINE entered == EnterNode(cand, node)
           r == Record(NodeEntered, node)
<1>1. /\ entered \in Instance
      /\ entered.node = node /\ entered.status = cand.status
      /\ entered.tasks = cand.tasks /\ entered.version = cand.version
      /\ entered.audit = Append(cand.audit, r)
      /\ r \in AuditRecord /\ ~IsCausal(r)
  BY EnterNodeFacts
<1> HIDE DEF entered, r
<1>2. Len(cand.tasks) <= Len(entered.tasks)
  BY <1>1 DEF Instance
<1>3. Derived(base, entered)
  BY <1>1, <1>2, DerivedContinues
<1> QED
  BY <1>1, <1>3 DEF Routing, entered

\* Reaching an end completes the candidate, with no task left (engine.go advance).
LEMMA ReachEndIsLegal ==
  ASSUME NEW base \in Instance \union {NoInstance}, base # NoInstance => Runs(base),
         NEW cand \in Instance, Derived(base, cand), Routing(cand),
         NEW node \in EndNodes
  PROVE  LET call == Saving(base, Complete(EnterNode(cand, node)))
         IN  call \in Call /\ CallInv(call)
<1> DEFINE entered == EnterNode(cand, node)
           done == [entered EXCEPT !.status = "completed"]
           r == Record(InstanceCompleted, entered.node)
           new == Complete(entered)
<1>1. node \in Nodes /\ node # StartNode
  BY PlanAssumption
<1>2. /\ entered \in Instance /\ entered.node = node
      /\ Derived(base, entered) /\ Routing(entered)
  BY <1>1, EnteredIsLegal
<1> HIDE DEF entered
<1>3. r \in AuditRecord /\ ~IsCausal(r)
  BY <1>1, <1>2, RecordTyped
     DEF Actions, IsCausal, InstanceCompleted, InstanceWithdrawn, InstanceReturned
<1>4. /\ done \in Instance /\ done.status = "completed" /\ done.node = node
      /\ done.tasks = entered.tasks /\ done.audit = entered.audit
      /\ done.version = entered.version
  BY <1>2 DEF Instance, InstanceStatuses
<1>5. new = AppendAudit(done, r)
  BY DEF Complete
<1> HIDE DEF done, r, new
<1>6. /\ new \in Instance /\ new.audit = Append(entered.audit, r) /\ new.status = "completed"
      /\ new.node = node /\ new.tasks = entered.tasks /\ new.version = entered.version
  BY <1>3, <1>4, <1>5, AppendAuditTyped
<1>7. Len(entered.tasks) <= Len(new.tasks)
  BY <1>6 DEF Instance
<1>8. Derived(base, new)
  BY <1>2, <1>3, <1>6, <1>7, DerivedContinues
<1>9. Settled(new)
  BY <1>1, <1>2, <1>6 DEF Settled, Routing
<1> QED
  BY <1>6, <1>8, <1>9, SavingIsLegal DEF new, entered

\* Entering a business node with an accepted activation leaves a legal call, waiting or
\* routed on (engine.go advance, prepareActivationResult).
LEMMA EnterBusinessNodeIsLegal ==
  ASSUME NEW base \in Instance \union {NoInstance}, base # NoInstance => Runs(base),
         NEW cand \in Instance, Derived(base, cand), Routing(cand),
         NEW node \in BusinessNodes,
         NEW result, IsNodeResult(result), PreparedActivation(result)
  PROVE  LET call == AfterResult(base, ApplyActivation(EnterNode(cand, node), result), result)
         IN  call \in Call /\ CallInv(call)
<1> DEFINE entered == EnterNode(cand, node)
           drafts == result.tasks
           after == ActivateTasks(entered.tasks, node, drafts)
           new == [entered EXCEPT !.tasks = after, !.state = result.state]
<1>1. /\ ValidDrafts(drafts)
      /\ ValidResultFields(result)
      /\ result.disposition = "waiting" <=> drafts # << >>
      /\ result.state \in States \union {Empty}
  BY DEF PreparedActivation, ValidResultFields, IsNodeResult
<1> HIDE DEF drafts
<1>2. /\ entered \in Instance /\ entered.node = node
      /\ Derived(base, entered) /\ Routing(entered)
  BY EnteredIsLegal DEF BusinessNodes
<1>3. ApplyActivation(entered, result) = Dispose(new, result)
  BY <1>2 DEF ApplyActivation, drafts
<1> HIDE DEF entered
<1>4. entered.tasks \in Seq(Task) /\ Len(entered.tasks) \in Nat
  BY <1>2, LenProperties DEF Instance
<1>5. /\ after \in Seq(Task) /\ Len(after) = Len(entered.tasks) + Len(drafts)
      /\ Len(drafts) \in Nat
      /\ \A k \in 1..Len(entered.tasks) : after[k] = entered.tasks[k]
  <2>1. LET round == ActivateTasks(entered.tasks, node, drafts) IN
        /\ round \in Seq(Task) /\ Len(round) = Len(entered.tasks) + Len(drafts)
        /\ Len(drafts) \in Nat
        /\ \A k \in 1..Len(entered.tasks) : round[k] = entered.tasks[k]
    BY <1>1, <1>4, ActivateTasksExtends
  <2> QED
    BY <2>1
<1>6. /\ \A k \in ActiveIds(after) : after[k].node = node
      /\ ActiveIds(after) # {} <=> drafts # << >>
  <2>1. ActiveIds(entered.tasks) = {}
    BY <1>2 DEF Routing
  <2> QED
    BY <1>1, <1>4, <2>1, RoundOpens
<1> HIDE DEF after
<1>7. /\ new \in Instance /\ new.tasks = after /\ new.node = node /\ new.status = "running"
      /\ new.audit = entered.audit /\ new.version = entered.version
  BY <1>1, <1>2, <1>5 DEF Instance, Routing
<1> HIDE DEF new
<1>8. Derived(base, new)
  <2>1. CASE base = NoInstance
    BY <1>2, <1>7, <2>1 DEF Derived
  <2>2. CASE base # NoInstance
    <3>1. Len(entered.tasks) <= Len(after)
      BY <1>4, <1>5
    <3>2. base.tasks \in Seq(Task) /\ TasksForward(base.tasks, entered.tasks)
      BY <1>2, <2>2 DEF Derived, Instance
    <3>3. TasksForward(base.tasks, after)
      BY <1>4, <1>5, <3>1, <3>2, ForwardExtends
    <3> QED
      BY <1>2, <1>7, <2>2, <3>3 DEF Derived
  <2> QED
    BY <2>1, <2>2
<1>9. ActiveIds(new.tasks) # {} <=> result.disposition = "waiting"
  BY <1>1, <1>6, <1>7
<1>10. \A k \in ActiveIds(new.tasks) : new.tasks[k].node = new.node
  BY <1>6, <1>7
<1>11. LET call == AfterResult(base, Dispose(new, result), result)
       IN  call \in Call /\ CallInv(call)
  BY <1>1, <1>7, <1>8, <1>9, <1>10, DisposeIsLegal
<1> QED
  BY <1>3, <1>11 DEF entered

-----------------------------------------------------------------------------
(* The invariant of the whole system. *)

\* A step of one call that leaves the durable instance alone.
LEMMA PrivateStep ==
  ASSUME IInv, NEW c \in Clients, NEW call \in Call, CallInv(call),
         call.base \in {NoInstance, store, client[c].base},
         client' = [client EXCEPT ![c] = call], UNCHANGED store
  PROVE  IInv'
<1>1. client \in [Clients -> Call] /\ store \in Instance \union {NoInstance}
  BY DEF IInv, TypeOK
<1>2. \A d \in Clients : client'[d] = IF d = c THEN call ELSE client[d]
  BY <1>1
<1>3. TypeOK'
  BY <1>1 DEF TypeOK
<1>4. NoStrandedWork'
  BY DEF IInv, NoStrandedWork
<1>5. SnapshotIsCurrent'
  <2> SUFFICES ASSUME NEW d \in Clients, client'[d].base # NoInstance
               PROVE  /\ store # NoInstance
                      /\ client'[d].base.version <= store.version
                      /\ client'[d].base.version = store.version => client'[d].base = store
    BY DEF SnapshotIsCurrent
  <2>1. CASE client'[d].base = store
    BY <1>1, <2>1 DEF Instance
  <2>2. CASE client'[d].base # store
    <3>1. \E e \in Clients : client'[d].base = client[e].base
      BY <1>2, <2>2
    <3> QED
      BY <3>1 DEF IInv, SnapshotIsCurrent
  <2> QED
    BY <2>1, <2>2
<1>6. \A d \in Clients : CallInv(client'[d])
  BY <1>2 DEF IInv
<1> QED
  BY <1>3, <1>4, <1>5, <1>6 DEF IInv

\* A call that returns.
LEMMA IdleIsLegal == Idle \in Call /\ CallInv(Idle) /\ Idle.base = NoInstance
BY DEF Idle, Call, CallInv

\* A call that fails takes only its own private state with it.
LEMMA FailPreserves ==
  ASSUME IInv, NEW c \in Clients, client' = [client EXCEPT ![c] = Idle], UNCHANGED store
  PROVE  IInv'
BY IdleIsLegal, PrivateStep

\* The version a commit writes is new: no snapshot holds it.
LEMMA CommittedFacts ==
  ASSUME NEW cand \in Instance, CanAdvanceVersion(cand)
  PROVE  LET new == AdvanceVersion(cand) IN
         /\ new \in Instance /\ new.version = cand.version + 1
         /\ new.status = cand.status /\ new.node = cand.node
         /\ new.tasks = cand.tasks /\ new.audit = cand.audit
<1>1. cand.version \in 1..MaxVersion /\ cand.version # MaxVersion
  BY DEF Instance, CanAdvanceVersion
<1>2. cand.version + 1 \in 1..MaxVersion
  BY <1>1, ValueAssumption
<1>3. AdvanceVersion(cand) = [cand EXCEPT !.version = cand.version + 1]
  BY DEF AdvanceVersion
<1> QED
  BY <1>2, <1>3 DEF Instance

\* What a call's final step does to the durable instance.
LEMMA CreateStores ==
  ASSUME IInv, NEW c \in Clients, Create(c), store' # store
  PROVE  /\ store = NoInstance
         /\ store' = client[c].cand /\ store' \in Instance
         /\ Derived(NoInstance, store') /\ Settled(store')
<1>1. client[c] \in Call /\ CallInv(client[c]) /\ client[c].pc = "save" /\ client[c].base = NoInstance
  BY DEF IInv, TypeOK, Create
<1>2. store = NoInstance /\ store' = client[c].cand
  BY DEF Create
<1> QED
  BY <1>1, <1>2 DEF Call, CallInv

\* What Save makes durable: the candidate under the next version, or nothing.
LEMMA CommitStores ==
  ASSUME IInv, NEW c \in Clients, Commit(c), store' # store
  PROVE  /\ store \in Instance /\ store # NoInstance /\ Runs(store)
         /\ store' \in Instance
         /\ store'.version = store.version + 1
         /\ OneCause(store.audit, store'.audit)
         /\ TasksForward(store.tasks, store'.tasks)
         /\ Settled(store')
<1> DEFINE base == client[c].base
           cand == client[c].cand
<1>1. /\ client[c] \in Call /\ CallInv(client[c]) /\ client[c].pc = "save"
      /\ base # NoInstance
  BY DEF IInv, TypeOK, Commit
<1>2. /\ base \in Instance /\ Runs(base)
      /\ cand \in Instance /\ Derived(base, cand) /\ Settled(cand)
  BY <1>1 DEF Call, CallInv
<1>3. /\ CanAdvanceVersion(cand)
      /\ store' = AdvanceVersion(cand)
      /\ store # NoInstance /\ store.version = base.version
  BY DEF Commit, SaveAccepts
<1> HIDE DEF base, cand
<1>4. store = base
  BY <1>1, <1>3 DEF IInv, SnapshotIsCurrent, base
<1>5. /\ store' \in Instance /\ store'.version = cand.version + 1
      /\ store'.status = cand.status /\ store'.node = cand.node
      /\ store'.tasks = cand.tasks /\ store'.audit = cand.audit
  BY <1>2, <1>3, CommittedFacts
<1>6. /\ cand.version = base.version
      /\ OneCause(base.audit, cand.audit) /\ TasksForward(base.tasks, cand.tasks)
  BY <1>1, <1>2 DEF Derived, base
<1>7. Settled(store')
  BY <1>2, <1>5 DEF Settled
<1> QED
  BY <1>2, <1>3, <1>4, <1>5, <1>6, <1>7

\* Create makes the first instance durable, or changes nothing (Store.Create).
LEMMA CreatePreserves ==
  ASSUME IInv, NEW c \in Clients, Create(c)
  PROVE  IInv'
<1>1. client \in [Clients -> Call] /\ client' = [client EXCEPT ![c] = Idle]
  BY DEF IInv, TypeOK, Create
<1>2. CASE store' = store
  BY <1>1, <1>2, FailPreserves
<1>3. CASE store' # store
  <2>1. store = NoInstance /\ store' \in Instance /\ Settled(store')
    BY <1>3, CreateStores
  <2>2. \A d \in Clients : client'[d] = IF d = c THEN Idle ELSE client[d]
    BY <1>1
  <2>3. \A d \in Clients : client'[d].base = NoInstance
    BY <2>1, <2>2, IdleIsLegal DEF IInv, SnapshotIsCurrent
  <2>4. TypeOK'
    BY <1>1, <2>1, IdleIsLegal DEF TypeOK
  <2>5. NoStrandedWork' /\ SnapshotIsCurrent'
    BY <2>1, <2>3 DEF NoStrandedWork, SnapshotIsCurrent
  <2>6. \A d \in Clients : CallInv(client'[d])
    BY <2>2, IdleIsLegal DEF IInv
  <2> QED
    BY <2>4, <2>5, <2>6 DEF IInv
<1> QED
  BY <1>2, <1>3

\* An accepted Save makes every other snapshot stale rather than wrong (Store.Save).
LEMMA CommitPreserves ==
  ASSUME IInv, NEW c \in Clients, Commit(c)
  PROVE  IInv'
<1>1. client \in [Clients -> Call] /\ client' = [client EXCEPT ![c] = Idle]
  BY DEF IInv, TypeOK, Commit
<1>2. CASE store' = store
  BY <1>1, <1>2, FailPreserves
<1>3. CASE store' # store
  <2>1. /\ store \in Instance /\ store # NoInstance
        /\ store' \in Instance /\ store'.version = store.version + 1
        /\ Settled(store')
    BY <1>3, CommitStores
  <2>2. \A d \in Clients : client'[d] = IF d = c THEN Idle ELSE client[d]
    BY <1>1
  <2>3. TypeOK'
    BY <1>1, <2>1, IdleIsLegal DEF TypeOK
  <2>4. NoStrandedWork'
    BY <2>1 DEF NoStrandedWork
  <2>5. SnapshotIsCurrent'
    <3> SUFFICES ASSUME NEW d \in Clients, client'[d].base # NoInstance
                 PROVE  /\ store' # NoInstance
                        /\ client'[d].base.version <= store'.version
                        /\ client'[d].base.version = store'.version => client'[d].base = store'
      BY DEF SnapshotIsCurrent
    <3>1. client'[d] = client[d] /\ client[d].base \in Instance
      BY <1>1, <2>2, IdleIsLegal DEF Call
    <3>2. client[d].base.version <= store.version
      BY <3>1 DEF IInv, SnapshotIsCurrent
    <3>3. client[d].base.version \in Nat /\ store.version \in Nat
      BY <2>1, <3>1 DEF Instance
    <3> QED
      BY <2>1, <3>1, <3>2, <3>3, NilAssumption
  <2>6. \A d \in Clients : CallInv(client'[d])
    BY <2>2, IdleIsLegal DEF IInv
  <2> QED
    BY <2>3, <2>4, <2>5, <2>6 DEF IInv
<1> QED
  BY <1>2, <1>3

\* The hypotheses an operation's lemma needs of the call it belongs to.
LEMMA LoadedCall ==
  ASSUME IInv, NEW c \in Clients, client[c].pc = "loaded"
  PROVE  client[c].base \in Instance /\ client[c].base # NoInstance /\ Runs(client[c].base)
BY DEF IInv, TypeOK, Call, CallInv

\* The hypotheses a step of the advance loop needs of the call it belongs to.
LEMMA RoutedCall ==
  ASSUME IInv, NEW c \in Clients, client[c].pc = "advance"
  PROVE  /\ client[c].base \in Instance \union {NoInstance}
         /\ client[c].base # NoInstance => Runs(client[c].base)
         /\ client[c].cand \in Instance
         /\ Derived(client[c].base, client[c].cand) /\ Routing(client[c].cand)
BY DEF IInv, TypeOK, Call, CallInv

\* The calls the operations leave behind keep the snapshot they started from.
LEMMA BaseKept ==
  ASSUME NEW base, NEW cand, NEW result, NEW outcome
  PROVE  /\ Saving(base, cand).base = base
         /\ Advancing(base, cand, outcome).base = base
         /\ AfterResult(base, cand, result).base = base
BY DEF Saving, Advancing, AfterResult

\* One step per operation on a loaded snapshot.
LEMMA OperatePreserves ==
  ASSUME IInv, NEW c \in Clients, Operate(c)
  PROVE  IInv'
<1> DEFINE base == client[c].base
<1>1. base \in Instance /\ base # NoInstance /\ Runs(base)
  BY LoadedCall DEF Operate
<1>2. ASSUME NEW actor \in Actors, NEW id \in DOMAIN base.tasks, NEW name \in CommandNames,
             CommandAllowed(base, id, actor, name), NEW result, Handle(c, id, actor, name, result)
      PROVE  IInv'
  <2> DEFINE rec == RecordTaskCommand(base, name, id, actor)
             call == AfterResult(base, ApplyCommand(rec, result), result)
  <2>1. call \in Call /\ CallInv(call)
    BY <1>1, <1>2, HandleIsLegal DEF Handle
  <2>2. call.base = base
    BY BaseKept
  <2>3. client' = [client EXCEPT ![c] = call] /\ UNCHANGED store
    BY <1>2 DEF Handle
  <2> HIDE DEF call
  <2> QED
    BY <2>1, <2>2, <2>3, PrivateStep
<1>3. ASSUME NEW actor \in Operators, Withdraw(c, actor)
      PROVE  IInv'
  <2> DEFINE call == Saving(base, Withdrawn(RecordWithdrawal(base, actor)))
  <2>1. call \in Call /\ CallInv(call)
    BY <1>1, ActorAssumption, WithdrawIsLegal
  <2>2. call.base = base
    BY BaseKept
  <2>3. client' = [client EXCEPT ![c] = call] /\ UNCHANGED store
    BY <1>3 DEF Withdraw
  <2> HIDE DEF call
  <2> QED
    BY <2>1, <2>2, <2>3, PrivateStep
<1>4. ASSUME NEW actor \in Operators, NEW id \in DOMAIN base.tasks, NEW newAssignee \in Actors,
             Transfer(c, actor, id, newAssignee)
      PROVE  IInv'
  <2> DEFINE rec == RecordTransfer(base, id, actor, newAssignee)
             call == Saving(base, Transferred(rec, id, newAssignee))
  <2>1. call \in Call /\ CallInv(call)
    BY <1>1, <1>4, ActorAssumption, TransferIsLegal DEF Transfer
  <2>2. call.base = base
    BY BaseKept
  <2>3. client' = [client EXCEPT ![c] = call] /\ UNCHANGED store
    BY <1>4 DEF Transfer
  <2> HIDE DEF call
  <2> QED
    BY <2>1, <2>2, <2>3, PrivateStep
<1>5. ASSUME NEW actor \in Operators, NEW target \in BusinessNodes, NEW result,
             Return(c, actor, target, result)
      PROVE  IInv'
  <2> DEFINE call == Saving(base, ReturnTo(RecordReturn(base, target, actor), target, result))
  <2>1. call \in Call /\ CallInv(call)
    BY <1>1, <1>5, ActorAssumption, ReturnIsLegal DEF Return
  <2>2. call.base = base
    BY BaseKept
  <2>3. client' = [client EXCEPT ![c] = call] /\ UNCHANGED store
    BY <1>5 DEF Return
  <2> HIDE DEF call
  <2> QED
    BY <2>1, <2>2, <2>3, PrivateStep
<1> QED
  BY <1>2, <1>3, <1>4, <1>5 DEF Operate

\* One step per disjunct of the advance loop.
LEMMA AdvancePreserves ==
  ASSUME IInv, NEW c \in Clients, Advance(c)
  PROVE  IInv'
<1> DEFINE base == client[c].base
           cand == client[c].cand
           node == NextNode(cand, client[c].outcome)
<1>1. /\ base \in Instance \union {NoInstance} /\ (base # NoInstance => Runs(base))
      /\ cand \in Instance /\ Derived(base, cand) /\ Routing(cand)
  BY RoutedCall DEF Advance, ReachEnd
<1>2. CASE ReachEnd(c)
  <2> DEFINE call == Saving(base, Complete(EnterNode(cand, node)))
  <2>1. node \in EndNodes
    BY <1>2 DEF ReachEnd
  <2>2. call \in Call /\ CallInv(call)
    BY <1>1, <2>1, ReachEndIsLegal
  <2>3. call.base = base
    BY BaseKept
  <2>4. client' = [client EXCEPT ![c] = call] /\ UNCHANGED store
    BY <1>2 DEF ReachEnd
  <2> HIDE DEF call
  <2> QED
    BY <2>2, <2>3, <2>4, PrivateStep
<1>3. ASSUME NEW result, EnterBusinessNode(c, result)
      PROVE  IInv'
  <2> DEFINE call == AfterResult(base, ApplyActivation(EnterNode(cand, node), result), result)
  <2>1. node \in BusinessNodes /\ IsNodeResult(result) /\ PreparedActivation(result)
    BY <1>3 DEF EnterBusinessNode
  <2>2. call \in Call /\ CallInv(call)
    BY <1>1, <2>1, EnterBusinessNodeIsLegal
  <2>3. call.base = base
    BY BaseKept
  <2>4. client' = [client EXCEPT ![c] = call] /\ UNCHANGED store
    BY <1>3 DEF EnterBusinessNode
  <2> HIDE DEF call
  <2> QED
    BY <2>2, <2>3, <2>4, PrivateStep
<1> QED
  BY <1>2, <1>3 DEF Advance

\* The beginnings of a call: Start and Load.
LEMMA BeginPreserves ==
  ASSUME IInv, NEW c \in Clients, Load(c) \/ \E initiator \in Initiators : Start(c, initiator)
  PROVE  IInv'
<1>1. CASE Load(c)
  <2>1. store \in Instance /\ Runs(store)
    BY <1>1 DEF Load, IInv, TypeOK, NoStrandedWork, Runs
  <2>2. client' = [client EXCEPT ![c] = Loaded(store)] /\ UNCHANGED store
    BY <1>1 DEF Load
  <2> QED
    BY <2>1, <2>2, LoadedIsLegal, PrivateStep
<1>2. ASSUME NEW initiator \in Initiators, Start(c, initiator)
      PROVE  IInv'
  <2> DEFINE call == Advancing(NoInstance, Started(initiator), Empty)
  <2>1. call \in Call /\ CallInv(call)
    BY ActorAssumption, StartIsLegal
  <2>2. call.base = NoInstance
    BY BaseKept
  <2>3. client' = [client EXCEPT ![c] = call] /\ UNCHANGED store
    BY <1>2 DEF Start
  <2> HIDE DEF call
  <2> QED
    BY <2>1, <2>2, <2>3, PrivateStep
<1> QED
  BY <1>1, <1>2

\* The inductive invariant holds before any call.
LEMMA InitEstablishes == Init => IInv
BY IdleIsLegal DEF Init, IInv, TypeOK, NoStrandedWork, SnapshotIsCurrent

\* Every step of any call preserves the inductive invariant.
LEMMA NextPreserves == IInv /\ [Next]_vars => IInv'
<1> SUFFICES ASSUME IInv, [Next]_vars PROVE IInv'
  OBVIOUS
<1>1. CASE UNCHANGED vars
  <2>1. store' = store /\ client' = client
    BY <1>1 DEF vars
  <2> QED
    BY <2>1 DEF IInv, TypeOK, NoStrandedWork, SnapshotIsCurrent
<1>2. ASSUME NEW c \in Clients,
             \/ \E initiator \in Initiators : Start(c, initiator)
             \/ Load(c) \/ Operate(c) \/ Advance(c) \/ Finish(c)
      PROVE  IInv'
  <2>1. CASE Fail(c)
    BY <2>1, FailPreserves DEF Fail
  <2> QED
    BY <1>2, <2>1, BeginPreserves, OperatePreserves, AdvancePreserves, CreatePreserves,
       CommitPreserves DEF Finish
<1> QED
  BY <1>1, <1>2 DEF Next

-----------------------------------------------------------------------------
(* The theorems. *)

\* The inductive invariant: every call's private candidate is a legal successor of the
\* snapshot it loaded, and the durable instance is settled (engine.go).
THEOREM Invariance == Spec => []IInv
BY InitEstablishes, NextPreserves, PTL DEF Spec

\* Type correctness of the durable instance and of every call (runtime.go types).
THEOREM TypeCorrectness == Spec => []TypeOK
<1>1. IInv => TypeOK
  BY DEF IInv
<1> QED
  BY <1>1, Invariance, PTL

\* A running instance always has work for somebody, a finished one has none.
THEOREM NoWorkIsStranded == Spec => []NoStrandedWork
<1>1. IInv => NoStrandedWork
  BY DEF IInv
<1> QED
  BY <1>1, Invariance, PTL

\* No accepted save overwrites what another call wrote.
THEOREM NoLostUpdate == Spec => []SnapshotIsCurrent
<1>1. IInv => SnapshotIsCurrent
  BY DEF IInv
<1> QED
  BY <1>1, Invariance, PTL

\* The contract's vocabulary is the engine's: its module is instantiated at the
\* same constants.
LEMMA SameVocabulary ==
  /\ Contract!Instance = Instance
  /\ Contract!InstanceStarted = InstanceStarted
  /\ \A inst : Contract!Settled(inst) <=> Settled(inst)
  /\ \A old, new : Contract!TasksForward(old, new) <=> TasksForward(old, new)
  /\ \A old, new : Contract!OneCause(old, new) <=> OneCause(old, new)
<1>1. Contract!Empty = Empty /\ Contract!Task = Task
  BY DEF Contract!Task, Task, Contract!BusinessNodes, BusinessNodes, Contract!Empty, Empty,
         Contract!TaskStatuses, TaskStatuses
<1>2. /\ Contract!InstanceStarted = InstanceStarted
      /\ Contract!InstanceWithdrawn = InstanceWithdrawn
      /\ Contract!InstanceReturned = InstanceReturned
      /\ Contract!NodeEntered = NodeEntered /\ Contract!NodeRejected = NodeRejected
      /\ Contract!InstanceCompleted = InstanceCompleted
      /\ Contract!InstanceRejected = InstanceRejected
      /\ Contract!TaskTransferred = TaskTransferred
      /\ \A name : Contract!TaskAction(name) = TaskAction(name)
  BY DEF Contract!InstanceStarted, InstanceStarted, Contract!InstanceWithdrawn, InstanceWithdrawn,
         Contract!InstanceReturned, InstanceReturned, Contract!NodeEntered, NodeEntered,
         Contract!NodeRejected, NodeRejected, Contract!InstanceCompleted, InstanceCompleted,
         Contract!InstanceRejected, InstanceRejected, Contract!TaskTransferred, TaskTransferred,
         Contract!ReservedCommand, ReservedCommand, Contract!TaskAction, TaskAction
<1>3. Contract!Actions = Actions
  BY <1>2 DEF Contract!Actions, Actions
<1>4. Contract!AuditRecord = AuditRecord
  BY <1>1, <1>3 DEF Contract!AuditRecord, AuditRecord
<1>5. Contract!Instance = Instance
  BY <1>1, <1>4 DEF Contract!Instance, Instance, Contract!InstanceStatuses, InstanceStatuses
<1>6. \A tasks : Contract!ActiveIds(tasks) = ActiveIds(tasks)
  BY DEF Contract!ActiveIds, ActiveIds
<1>7. \A inst : Contract!Settled(inst) <=> Settled(inst)
  BY <1>6 DEF Contract!Settled, Settled
<1>8. \A old, new : Contract!TasksForward(old, new) <=> TasksForward(old, new)
  BY <1>1 DEF Contract!TasksForward, TasksForward, Contract!ValidReplacement, ValidReplacement
<1>9. \A r : Contract!IsCausal(r) <=> IsCausal(r)
  BY <1>2 DEF Contract!IsCausal, IsCausal
<1>10. \A old, new : Contract!OneCause(old, new) <=> OneCause(old, new)
  BY <1>9 DEF Contract!OneCause, OneCause, Contract!IsPrefix, IsPrefix
<1> QED
  BY <1>2, <1>5, <1>7, <1>8, <1>10

\* The only steps that touch the durable instance are those of the contract.
LEMMA StoreFollowsContract == IInv /\ [Next]_vars => [Contract!Next]_store
<1> SUFFICES ASSUME IInv, [Next]_vars, store' # store PROVE Contract!Next
  OBVIOUS
<1>1. PICK c \in Clients : Create(c) \/ Commit(c)
  BY DEF Next, vars, Start, Load, Operate, Handle, Withdraw, Transfer, Return,
         Advance, ReachEnd, EnterBusinessNode, Finish, Fail
<1>2. CASE Create(c)
  <2>1. /\ store = NoInstance /\ store' \in Instance
        /\ Derived(NoInstance, store') /\ Settled(store')
    BY <1>2, CreateStores
  <2> QED
    BY <2>1, SameVocabulary DEF Derived, Contract!Next, Contract!Create
<1>3. CASE Commit(c)
  <2>1. /\ store # NoInstance /\ Runs(store)
        /\ store' \in Instance /\ store'.version = store.version + 1
        /\ OneCause(store.audit, store'.audit) /\ TasksForward(store.tasks, store'.tasks)
        /\ Settled(store')
    BY <1>3, CommitStores
  <2> QED
    BY <2>1, SameVocabulary DEF Runs, Contract!Next, Contract!Accept
<1> QED
  BY <1>1, <1>2, <1>3

\* Whatever interleaves between a load and a save, the durable instance moves
\* only as InstanceContract allows.
THEOREM EngineImplementsContract == Spec => ImplementsContract
<1>1. Init => Contract!Init
  BY DEF Init, Contract!Init
<1> QED
  BY <1>1, StoreFollowsContract, Invariance, PTL DEF Spec, ImplementsContract, Contract!Spec

-----------------------------------------------------------------------------
(* History: what the durable audit tells of returns, of transfers and of   *)
(* the path, each on the inductive invariant above.                        *)

\* The cause a candidate's audit adds to its snapshot's.
Cause(base, audit) == audit[Len(base.audit) + 1]

CauseFits(base, audit) ==
  Cause(base, audit).action = InstanceReturned =>
    /\ Cause(base, audit).state = base.state
    /\ Cause(base, audit).node = base.node

\* What makes ReturnKeepsState inductive: it holds of what a call would commit
\* over the snapshot it loaded.
ReturnInv ==
  \A c \in Clients :
    client[c].pc \in {"advance", "save"} /\ client[c].base # NoInstance =>
      CauseFits(client[c].base, client[c].cand.audit)

-----------------------------------------------------------------------------
(* Audits. *)

\* The record appended to a snapshot is the cause (instance_facts.go appendAudit).
LEMMA RecordIsCause ==
  ASSUME NEW base \in Instance, NEW r \in AuditRecord
  PROVE  Cause(base, AppendAudit(base, r).audit) = r
<1>1. base.audit \in Seq(AuditRecord) /\ AppendAudit(base, r).audit = Append(base.audit, r)
  BY AppendAuditTyped DEF Instance
<1>2. Append(base.audit, r)[Len(base.audit) + 1] = r
  BY <1>1, AppendProperties
<1> QED
  BY <1>1, <1>2 DEF Cause

\* What is appended later leaves the cause as it is.
LEMMA CauseStays ==
  ASSUME NEW base \in Instance, NEW audit \in Seq(AuditRecord), OneCause(base.audit, audit),
         NEW r \in AuditRecord
  PROVE  Cause(base, Append(audit, r)) = Cause(base, audit)
<1>1. base.audit \in Seq(AuditRecord) /\ Len(base.audit) \in Nat /\ Len(audit) \in Nat
  BY LenProperties DEF Instance
<1>2. Len(base.audit) + 1 \in 1..Len(audit)
  BY <1>1 DEF OneCause
<1>3. Append(audit, r)[Len(base.audit) + 1] = audit[Len(base.audit) + 1]
  BY <1>2, AppendProperties
<1> QED
  BY <1>3 DEF Cause

\* Disposing of a result leaves the cause as it is (nodeResultApplication.apply).
LEMMA DisposeKeepsCause ==
  ASSUME NEW base \in Instance, NEW cand \in Instance, OneCause(base.audit, cand.audit),
         NEW result
  PROVE  Cause(base, Dispose(cand, result).audit) = Cause(base, cand.audit)
<1>1. cand.audit \in Seq(AuditRecord) /\ cand.node \in Nodes
  BY DEF Instance
<1>2. Record(NodeRejected, cand.node) \in AuditRecord
  BY <1>1, RecordTyped DEF Actions
<1>3. Record(InstanceRejected, cand.node) \in AuditRecord
  BY <1>1, RecordTyped DEF Actions
<1>4. RejectNode(cand).audit = Append(cand.audit, Record(NodeRejected, cand.node))
  BY <1>2, AppendAuditTyped DEF RejectNode
<1>5. RejectInstance(cand).audit = Append(cand.audit, Record(InstanceRejected, cand.node))
  BY DEF RejectInstance, AppendAudit, Instance
<1> QED
  BY <1>1, <1>2, <1>3, <1>4, <1>5, CauseStays DEF Dispose

-----------------------------------------------------------------------------
(* One lemma per operation: the cause of what it would commit. *)

\* A task's command is no return.
LEMMA HandleFits ==
  ASSUME NEW base \in Instance, base # NoInstance, Runs(base),
         NEW name \in CommandNames, NEW actor \in Actors, NEW id,
         CommandAllowed(base, id, actor, name),
         NEW result, IsNodeResult(result), PreparedCommand(base, result)
  PROVE  CauseFits(base, ApplyCommand(RecordTaskCommand(base, name, id, actor), result).audit)
<1> DEFINE r == [Record(TaskAction(name), base.node) EXCEPT !.task = id, !.actor = actor]
           rec == RecordTaskCommand(base, name, id, actor)
           cand == ReplaceTasks(rec, result)
<1>1. base.tasks \in Seq(Task) /\ base.node \in Nodes
  BY DEF Instance
<1>2. r \in AuditRecord /\ IsCausal(r) /\ r.action = TaskAction(name)
  <2>1. TaskAction(name) \in Actions /\ TaskAction(name)[1] = "task"
    BY DEF Actions, TaskAction
  <2>2. id \in Nat
    BY <1>1 DEF CommandAllowed, NodeIds
  <2> QED
    BY <1>1, <2>1, <2>2, RecordTyped DEF AuditRecord, Record, IsCausal
<1>3. rec = AppendAudit(base, r)
  BY DEF RecordTaskCommand
<1> HIDE DEF r, rec
<1>4. /\ rec \in Instance /\ OneCause(base.audit, rec.audit)
      /\ rec.status = base.status /\ rec.node = base.node /\ rec.tasks = base.tasks
      /\ Cause(base, rec.audit) = r
  BY <1>2, <1>3, CauseRecorded, AppendAuditTyped, RecordIsCause
<1>5. Settled(rec) /\ PreparedCommand(rec, result)
  BY <1>4 DEF Runs, Settled, PreparedCommand, ValidReplacements
<1>6. cand \in Instance /\ cand.audit = rec.audit
  BY <1>4, <1>5, ReplaceTasksForward
<1>7. ApplyCommand(rec, result) = Dispose(cand, result)
  BY DEF ApplyCommand
<1> HIDE DEF cand
<1>8. Cause(base, ApplyCommand(rec, result).audit) = r
  BY <1>4, <1>6, <1>7, DisposeKeepsCause
<1>9. r.action # InstanceReturned
  BY <1>2 DEF TaskAction, InstanceReturned
<1> QED
  BY <1>8, <1>9 DEF CauseFits, rec

\* A withdrawal is no return.
LEMMA WithdrawFits ==
  ASSUME NEW base \in Instance, NEW actor \in Actors
  PROVE  CauseFits(base, Withdrawn(RecordWithdrawal(base, actor)).audit)
<1> DEFINE r == [Record(InstanceWithdrawn, base.node) EXCEPT !.actor = actor]
           rec == RecordWithdrawal(base, actor)
<1>1. r \in AuditRecord /\ r.action = InstanceWithdrawn
  <2>1. InstanceWithdrawn \in Actions /\ base.node \in Nodes
    BY DEF Actions, Instance
  <2> QED
    BY <2>1, RecordTyped DEF AuditRecord, Record
<1>2. rec = AppendAudit(base, r)
  BY DEF RecordWithdrawal
<1> HIDE DEF r, rec
<1>3. rec \in Instance /\ Cause(base, rec.audit) = r
  BY <1>1, <1>2, AppendAuditTyped, RecordIsCause
<1>4. Withdrawn(rec).audit = rec.audit
  BY <1>3 DEF Withdrawn, Instance
<1> QED
  BY <1>1, <1>3, <1>4 DEF CauseFits, InstanceWithdrawn, InstanceReturned, rec

\* A transfer is no return.
LEMMA TransferFits ==
  ASSUME NEW base \in Instance, NEW actor \in Actors, NEW newAssignee \in Actors,
         NEW id, TransferAllowed(base, id)
  PROVE  CauseFits(base, Transferred(RecordTransfer(base, id, actor, newAssignee), id, newAssignee).audit)
<1> DEFINE r == [Record(TaskTransferred, base.tasks[id].node) EXCEPT
                   !.task = id, !.actor = actor, !.assignee = newAssignee]
           rec == RecordTransfer(base, id, actor, newAssignee)
<1>1. base.tasks \in Seq(Task) /\ base.node \in Nodes
  BY DEF Instance
<1>2. id \in Nat /\ base.tasks[id].node \in Nodes
  BY <1>1 DEF TransferAllowed, NodeIds
<1>3. r \in AuditRecord /\ r.action = TaskTransferred
  <2>1. TaskTransferred \in Actions
    BY DEF Actions
  <2> QED
    BY <1>2, <2>1, RecordTyped DEF AuditRecord, Record
<1>4. rec = AppendAudit(base, r)
  BY DEF RecordTransfer
<1> HIDE DEF r, rec
<1>5. rec \in Instance /\ Cause(base, rec.audit) = r
  BY <1>3, <1>4, AppendAuditTyped, RecordIsCause
<1>6. Transferred(rec, id, newAssignee).audit = rec.audit
  BY <1>5 DEF Transferred, Instance
<1> QED
  BY <1>3, <1>5, <1>6 DEF CauseFits, TaskTransferred, TaskAction, InstanceReturned, rec

\* A return records the state and the node it leaves (instance_facts.go recordReturn).
LEMMA ReturnFits ==
  ASSUME NEW base \in Instance, NEW actor \in Actors, NEW target, ReturnAllowed(base, target),
         NEW result
  PROVE  CauseFits(base, ReturnTo(RecordReturn(base, target, actor), target, result).audit)
<1> DEFINE r == [Record(InstanceReturned, base.node) EXCEPT
                   !.target = target, !.actor = actor, !.state = base.state]
           rec == RecordReturn(base, target, actor)
<1>1. /\ base.node \in Nodes /\ base.state \in States \union {Empty}
      /\ target \in Nodes
  BY DEF Instance, ReturnAllowed, BusinessNodes
<1>2. r \in AuditRecord /\ r.state = base.state /\ r.node = base.node
  <2>1. InstanceReturned \in Actions
    BY DEF Actions
  <2> QED
    BY <1>1, <2>1, RecordTyped DEF AuditRecord, Record
<1>3. IsCausal(r)
  BY <1>1 DEF IsCausal, Record
<1>4. rec = AppendAudit(base, r)
  BY DEF RecordReturn
<1> HIDE DEF r, rec
<1>5. rec \in Instance /\ OneCause(base.audit, rec.audit) /\ Cause(base, rec.audit) = r
  BY <1>2, <1>3, <1>4, CauseRecorded, RecordIsCause
<1>6. /\ EnterNode(rec, target) \in Instance
      /\ EnterNode(rec, target).audit = Append(rec.audit, Record(NodeEntered, target))
      /\ Record(NodeEntered, target) \in AuditRecord
  BY <1>1, <1>5, EnterNodeFacts
<1>7. ReturnTo(rec, target, result).audit = EnterNode(rec, target).audit
  BY <1>6 DEF ReturnTo, Instance
<1>8. rec.audit \in Seq(AuditRecord)
  BY <1>5 DEF Instance
<1>9. Cause(base, ReturnTo(rec, target, result).audit) = r
  BY <1>5, <1>6, <1>7, <1>8, CauseStays
<1> QED
  BY <1>2, <1>9 DEF CauseFits, rec

\* Reaching an end adds consequences only.
LEMMA ReachEndFits ==
  ASSUME NEW base \in Instance, NEW cand \in Instance, OneCause(base.audit, cand.audit),
         CauseFits(base, cand.audit), NEW node \in Nodes
  PROVE  CauseFits(base, Complete(EnterNode(cand, node)).audit)
<1> DEFINE entered == EnterNode(cand, node)
           r == Record(InstanceCompleted, entered.node)
<1>1. /\ entered \in Instance /\ entered.node = node
      /\ entered.audit = Append(cand.audit, Record(NodeEntered, node))
      /\ Record(NodeEntered, node) \in AuditRecord /\ ~IsCausal(Record(NodeEntered, node))
  BY EnterNodeFacts
<1>2. /\ base.audit \in Seq(AuditRecord) /\ cand.audit \in Seq(AuditRecord)
      /\ entered.audit \in Seq(AuditRecord)
  BY <1>1 DEF Instance
<1> HIDE DEF entered
<1>3. Complete(entered).audit = Append(entered.audit, r)
  BY <1>1 DEF Complete, AppendAudit, Instance
<1>4. r \in AuditRecord
  BY <1>1, RecordTyped DEF Actions
<1>5. OneCause(base.audit, entered.audit)
  BY <1>1, <1>2, ConsequenceFollows
<1> HIDE DEF r
<1>6. Cause(base, Complete(entered).audit) = Cause(base, entered.audit)
  BY <1>2, <1>3, <1>4, <1>5, CauseStays
<1>7. Cause(base, entered.audit) = Cause(base, cand.audit)
  BY <1>1, <1>2, CauseStays
<1>8. CauseFits(base, Complete(entered).audit)
  BY <1>6, <1>7 DEF CauseFits
<1> QED
  BY <1>8 DEF entered

\* Entering a business node adds consequences only.
LEMMA EnterBusinessNodeFits ==
  ASSUME NEW base \in Instance, base # NoInstance, NEW cand \in Instance,
         Derived(base, cand), Routing(cand), CauseFits(base, cand.audit),
         NEW node \in BusinessNodes,
         NEW result, IsNodeResult(result), PreparedActivation(result)
  PROVE  CauseFits(base, ApplyActivation(EnterNode(cand, node), result).audit)
<1> DEFINE entered == EnterNode(cand, node)
           after == ActivateTasks(entered.tasks, node, result.tasks)
           new == [entered EXCEPT !.tasks = after, !.state = result.state]
<1>1. /\ entered \in Instance /\ entered.node = node
      /\ entered.audit = Append(cand.audit, Record(NodeEntered, node))
      /\ Record(NodeEntered, node) \in AuditRecord /\ ~IsCausal(Record(NodeEntered, node))
  BY EnterNodeFacts DEF BusinessNodes
<1>2. ApplyActivation(entered, result) = Dispose(new, result)
  BY <1>1 DEF ApplyActivation
<1>3. /\ base.audit \in Seq(AuditRecord) /\ cand.audit \in Seq(AuditRecord)
      /\ entered.audit \in Seq(AuditRecord) /\ entered.tasks \in Seq(Task)
  BY <1>1 DEF Instance
<1> HIDE DEF entered
<1>4. after \in Seq(Task)
  <2>1. ValidDrafts(result.tasks)
    BY DEF PreparedActivation
  <2> QED
    BY <1>3, <2>1, ActivateTasksExtends
<1> HIDE DEF after
<1>5. new \in Instance /\ new.audit = entered.audit
  <2>1. result.state \in States \union {Empty}
    BY DEF PreparedActivation, ValidResultFields, IsNodeResult
  <2> QED
    BY <1>1, <1>4, <2>1 DEF Instance
<1> HIDE DEF new
<1>6. OneCause(base.audit, cand.audit)
  BY DEF Derived
<1>7. OneCause(base.audit, entered.audit)
  BY <1>1, <1>3, <1>6, ConsequenceFollows
<1>8. Cause(base, entered.audit) = Cause(base, cand.audit)
  BY <1>1, <1>3, <1>6, CauseStays
<1>9. Cause(base, Dispose(new, result).audit) = Cause(base, new.audit)
  BY <1>5, <1>7, DisposeKeepsCause
<1> QED
  BY <1>2, <1>5, <1>8, <1>9 DEF CauseFits, entered

-----------------------------------------------------------------------------
(* The invariant. *)

\* A step that leaves one call with a fitting cause, or with none.
LEMMA OneCallFits ==
  ASSUME IInv, ReturnInv, NEW c \in Clients, NEW call,
         call.pc \in {"advance", "save"} /\ call.base # NoInstance =>
           CauseFits(call.base, call.cand.audit),
         client' = [client EXCEPT ![c] = call]
  PROVE  ReturnInv'
<1>1. client \in [Clients -> Call]
  BY DEF IInv, TypeOK
<1>2. \A d \in Clients : client'[d] = IF d = c THEN call ELSE client[d]
  BY <1>1
<1> QED
  BY <1>2 DEF ReturnInv

\* The fields of the calls the operations leave behind.
LEMMA CallFields ==
  ASSUME NEW base, NEW cand, NEW result, NEW outcome
  PROVE  /\ Saving(base, cand).base = base /\ Saving(base, cand).cand = cand
         /\ AfterResult(base, cand, result).base = base
         /\ AfterResult(base, cand, result).cand = cand
         /\ Idle.pc = "idle" /\ Loaded(base).pc = "loaded"
         /\ Advancing(base, cand, outcome).base = base
BY DEF Saving, Advancing, AfterResult, Idle, Loaded

\* One step per operation on a loaded snapshot.
LEMMA OperateFits ==
  ASSUME IInv, ReturnInv, NEW c \in Clients, Operate(c)
  PROVE  ReturnInv'
<1> DEFINE base == client[c].base
<1>1. base \in Instance /\ base # NoInstance /\ Runs(base)
  BY LoadedCall DEF Operate
<1>2. ASSUME NEW actor \in Actors, NEW id \in DOMAIN base.tasks, NEW name \in CommandNames,
             CommandAllowed(base, id, actor, name), NEW result, Handle(c, id, actor, name, result)
      PROVE  ReturnInv'
  <2> DEFINE cand == ApplyCommand(RecordTaskCommand(base, name, id, actor), result)
             call == AfterResult(base, cand, result)
  <2>1. CauseFits(base, cand.audit)
    BY <1>1, <1>2, HandleFits DEF Handle
  <2>2. client' = [client EXCEPT ![c] = call]
    BY <1>2 DEF Handle
  <2>3. call.base = base /\ call.cand = cand
    BY CallFields
  <2> HIDE DEF cand, call
  <2> QED
    BY <2>1, <2>2, <2>3, OneCallFits
<1>3. ASSUME NEW actor \in Operators, Withdraw(c, actor)
      PROVE  ReturnInv'
  <2> DEFINE cand == Withdrawn(RecordWithdrawal(base, actor))
             call == Saving(base, cand)
  <2>1. CauseFits(base, cand.audit)
    BY <1>1, ActorAssumption, WithdrawFits
  <2>2. client' = [client EXCEPT ![c] = call]
    BY <1>3 DEF Withdraw
  <2>3. call.base = base /\ call.cand = cand
    BY CallFields
  <2> HIDE DEF cand, call
  <2> QED
    BY <2>1, <2>2, <2>3, OneCallFits
<1>4. ASSUME NEW actor \in Operators, NEW id \in DOMAIN base.tasks, NEW newAssignee \in Actors,
             Transfer(c, actor, id, newAssignee)
      PROVE  ReturnInv'
  <2> DEFINE cand == Transferred(RecordTransfer(base, id, actor, newAssignee), id, newAssignee)
             call == Saving(base, cand)
  <2>1. CauseFits(base, cand.audit)
    BY <1>1, <1>4, ActorAssumption, TransferFits DEF Transfer
  <2>2. client' = [client EXCEPT ![c] = call]
    BY <1>4 DEF Transfer
  <2>3. call.base = base /\ call.cand = cand
    BY CallFields
  <2> HIDE DEF cand, call
  <2> QED
    BY <2>1, <2>2, <2>3, OneCallFits
<1>5. ASSUME NEW actor \in Operators, NEW target \in BusinessNodes, NEW result,
             Return(c, actor, target, result)
      PROVE  ReturnInv'
  <2> DEFINE cand == ReturnTo(RecordReturn(base, target, actor), target, result)
             call == Saving(base, cand)
  <2>1. CauseFits(base, cand.audit)
    BY <1>1, <1>5, ActorAssumption, ReturnFits DEF Return
  <2>2. client' = [client EXCEPT ![c] = call]
    BY <1>5 DEF Return
  <2>3. call.base = base /\ call.cand = cand
    BY CallFields
  <2> HIDE DEF cand, call
  <2> QED
    BY <2>1, <2>2, <2>3, OneCallFits
<1> QED
  BY <1>2, <1>3, <1>4, <1>5 DEF Operate

\* One step per disjunct of the advance loop.
LEMMA AdvanceFits ==
  ASSUME IInv, ReturnInv, NEW c \in Clients, Advance(c)
  PROVE  ReturnInv'
<1> DEFINE base == client[c].base
           old == client[c].cand
           node == NextNode(old, client[c].outcome)
<1>1. /\ base \in Instance \union {NoInstance}
      /\ old \in Instance /\ Derived(base, old) /\ Routing(old)
  BY RoutedCall DEF Advance, ReachEnd
<1>2. base # NoInstance => CauseFits(base, old.audit)
  BY DEF ReturnInv, Advance, ReachEnd
<1>3. CASE ReachEnd(c)
  <2> DEFINE cand == Complete(EnterNode(old, node))
             call == Saving(base, cand)
  <2>1. node \in Nodes
    BY <1>3, PlanAssumption DEF ReachEnd
  <2>2. base # NoInstance => CauseFits(base, cand.audit)
    BY <1>1, <1>2, <2>1, ReachEndFits DEF Derived
  <2>3. client' = [client EXCEPT ![c] = call]
    BY <1>3 DEF ReachEnd
  <2>4. call.base = base /\ call.cand = cand
    BY CallFields
  <2> HIDE DEF cand, call
  <2> QED
    BY <2>2, <2>3, <2>4, OneCallFits
<1>4. ASSUME NEW result, EnterBusinessNode(c, result)
      PROVE  ReturnInv'
  <2> DEFINE cand == ApplyActivation(EnterNode(old, node), result)
             call == AfterResult(base, cand, result)
  <2>1. node \in BusinessNodes /\ IsNodeResult(result) /\ PreparedActivation(result)
    BY <1>4 DEF EnterBusinessNode
  <2>2. base # NoInstance => CauseFits(base, cand.audit)
    BY <1>1, <1>2, <2>1, EnterBusinessNodeFits
  <2>3. client' = [client EXCEPT ![c] = call]
    BY <1>4 DEF EnterBusinessNode
  <2>4. call.base = base /\ call.cand = cand
    BY CallFields
  <2> HIDE DEF cand, call
  <2> QED
    BY <2>2, <2>3, <2>4, OneCallFits
<1> QED
  BY <1>3, <1>4 DEF Advance

\* Every step of any call keeps what would be committed in order.
LEMMA NextFits == IInv /\ ReturnInv /\ [Next]_vars => ReturnInv'
<1> SUFFICES ASSUME IInv, ReturnInv, [Next]_vars PROVE ReturnInv'
  OBVIOUS
<1>1. CASE UNCHANGED vars
  BY <1>1 DEF vars, ReturnInv
<1>2. ASSUME NEW c \in Clients, NEW initiator \in Initiators, Start(c, initiator)
      PROVE  ReturnInv'
  <2> DEFINE call == Advancing(NoInstance, Started(initiator), Empty)
  <2>1. call.base = NoInstance /\ client' = [client EXCEPT ![c] = call]
    BY <1>2, CallFields DEF Start
  <2> HIDE DEF call
  <2> QED
    BY <2>1, OneCallFits
<1>3. ASSUME NEW c \in Clients, Load(c)
      PROVE  ReturnInv'
  BY <1>3, CallFields, OneCallFits DEF Load
<1>4. ASSUME NEW c \in Clients, Finish(c)
      PROVE  ReturnInv'
  <2>1. client' = [client EXCEPT ![c] = Idle]
    BY <1>4 DEF Finish, Create, Commit, Fail
  <2> QED
    BY <2>1, CallFields, OneCallFits
<1> QED
  BY <1>1, <1>2, <1>3, <1>4, OperateFits, AdvanceFits DEF Next

\* What a step adds to the durable audit is what its call would commit.
LEMMA CommitFits ==
  ASSUME IInv, ReturnInv, [Next]_vars, store # NoInstance, store' # store,
         NEW k \in Len(store.audit)+1 .. Len(store'.audit),
         store'.audit[k].action = InstanceReturned
  PROVE  store'.audit[k].state = store.state /\ store'.audit[k].node = store.node
<1>1. PICK c \in Clients : Create(c) \/ Commit(c)
  BY DEF Next, vars, Start, Load, Operate, Handle, Withdraw, Transfer, Return,
         Advance, ReachEnd, EnterBusinessNode, Finish, Fail
<1>2. Commit(c)
  BY <1>1 DEF Create
<1> DEFINE base == client[c].base
           cand == client[c].cand
<1>3. /\ base \in Instance /\ base # NoInstance /\ cand \in Instance
      /\ CauseFits(base, cand.audit)
  BY <1>2 DEF Commit, IInv, TypeOK, CallInv, Call, ReturnInv
<1>4. /\ CanAdvanceVersion(cand) /\ store' = AdvanceVersion(cand)
      /\ store.version = base.version
  BY <1>2 DEF Commit, SaveAccepts
<1>5. store = base
  BY <1>3, <1>4 DEF IInv, SnapshotIsCurrent
<1>6. store'.audit = cand.audit
  BY <1>3, <1>4, CommittedFacts
<1>7. OneCause(store.audit, store'.audit)
  BY <1>2, CommitStores
<1>8. k = Len(store.audit) + 1
  BY <1>7 DEF OneCause, IsCausal
<1> QED
  BY <1>3, <1>5, <1>6, <1>8 DEF CauseFits, Cause

-----------------------------------------------------------------------------

\* The audit record of a return keeps the node and the state that the return
\* discards, of the instance it was committed over (engine.go Return).
THEOREM ReturnsKeepState == Spec => ReturnKeepsState
<1> DEFINE Kept == store # NoInstance =>
                     \A k \in Len(store.audit)+1 .. Len(store'.audit) :
                       store'.audit[k].action = InstanceReturned =>
                         /\ store'.audit[k].state = store.state
                         /\ store'.audit[k].node = store.node
<1>1. Init => ReturnInv
  BY CallFields DEF Init, ReturnInv
<1>2. IInv /\ ReturnInv /\ [Next]_vars => [Kept]_store
  BY CommitFits
<1>3. Spec => [][Kept]_store
  <2> HIDE DEF Kept
  <2> QED
    BY <1>1, <1>2, NextFits, Invariance, PTL DEF Spec
<1> QED
  BY <1>3 DEF ReturnKeepsState

-----------------------------------------------------------------------------
(* Transfers.  An instance is honest if every transfer it records happened. *)

Undecided(tasks) == \A k \in ActiveIds(tasks) : tasks[k].outcome = Empty

Happened(r, tasks) ==
  /\ r.task \in DOMAIN tasks
  /\ tasks[r.task].status = "closed" /\ tasks[r.task].outcome = Empty
  /\ \E s \in r.task+1 .. Len(tasks) :
       tasks[s].node = r.node /\ tasks[s].assignee = r.assignee

Honest(inst) ==
  /\ Undecided(inst.tasks)
  /\ \A k \in DOMAIN inst.audit :
       inst.audit[k].action = TaskTransferred => Happened(inst.audit[k], inst.tasks)

\* What makes TransfersHappened inductive: every snapshot and every candidate is
\* honest as well, and what is still active is undecided.
HistoryInv ==
  /\ store # NoInstance => Honest(store)
  /\ \A c \in Clients :
       /\ client[c].base # NoInstance => Honest(client[c].base)
       /\ client[c].pc \in {"advance", "save"} => Honest(client[c].cand)

\* What happened stays so while the history of tasks moves forward.
LEMMA HappenedStays ==
  ASSUME NEW old \in Seq(Task), NEW new \in Seq(Task), TasksForward(old, new),
         NEW r, Happened(r, old)
  PROVE  Happened(r, new)
<1>1. /\ Len(old) \in Nat /\ Len(new) \in Nat /\ Len(old) <= Len(new)
      /\ DOMAIN old = 1..Len(old) /\ DOMAIN new = 1..Len(new)
  BY LenProperties DEF TasksForward
<1>2. r.task \in 1..Len(old) /\ old[r.task].status = "closed" /\ old[r.task].outcome = Empty
  BY <1>1 DEF Happened
<1>3. new[r.task] = old[r.task]
  BY <1>1, <1>2 DEF TasksForward, ValidReplacement
<1>4. PICK s \in r.task+1 .. Len(old) : old[s].node = r.node /\ old[s].assignee = r.assignee
  BY DEF Happened
<1>5. s \in 1..Len(old) /\ s \in r.task+1 .. Len(new)
  BY <1>1, <1>2, <1>4
<1>6. new[s].node = r.node /\ new[s].assignee = r.assignee
  BY <1>1, <1>4, <1>5 DEF TasksForward, ValidReplacement
<1> QED
  BY <1>1, <1>2, <1>3, <1>5, <1>6 DEF Happened

\* A legal update leaves undecided what it leaves active.
LEMMA UndecidedStays ==
  ASSUME NEW old \in Seq(Task), NEW new \in Seq(Task), TasksForward(old, new), Undecided(old),
         \A k \in Len(old)+1 .. Len(new) : new[k].outcome = Empty
  PROVE  Undecided(new)
<1>1. /\ Len(old) \in Nat /\ Len(new) \in Nat /\ Len(old) <= Len(new)
      /\ DOMAIN old = 1..Len(old) /\ DOMAIN new = 1..Len(new)
  BY LenProperties DEF TasksForward
<1>2. ASSUME NEW k \in 1..Len(old), new[k].status = "active"
      PROVE  new[k].outcome = Empty
  <2>1. ValidReplacement(old[k], new[k])
    BY <1>1 DEF TasksForward
  <2>2. old[k].status = "active" /\ new[k].outcome = old[k].outcome
    BY <1>2, <2>1 DEF ValidReplacement
  <2> QED
    BY <1>1, <2>2 DEF Undecided, ActiveIds
<1> QED
  BY <1>1, <1>2 DEF Undecided, ActiveIds

\* An accepted round is undecided (validateActivationTaskDrafts).
LEMMA RoundUndecided ==
  ASSUME NEW tasks \in Seq(Task), NEW node \in BusinessNodes, NEW drafts, ValidDrafts(drafts)
  PROVE  LET new == ActivateTasks(tasks, node, drafts) IN
         \A k \in Len(tasks)+1 .. Len(new) : new[k].outcome = Empty
<1> DEFINE round == [k \in 1..Len(drafts) |-> [drafts[k] EXCEPT !.node = node]]
           new == ActivateTasks(tasks, node, drafts)
<1>1. /\ Len(tasks) \in Nat /\ Len(drafts) \in Nat
      /\ DOMAIN drafts = 1..Len(drafts) /\ drafts \in Seq(ProposedTask)
  BY LenProperties DEF ValidDrafts
<1>2. \A k \in 1..Len(drafts) : drafts[k] \in ProposedTask
  BY <1>1
<1>3. ASSUME NEW k \in 1..Len(drafts)
      PROVE  round[k] \in ProposedTask /\ round[k].outcome = Empty
  <2>1. drafts[k].outcome = Empty
    BY <1>1 DEF ValidDrafts
  <2>2. node \in Nodes
    BY DEF BusinessNodes
  <2> QED
    BY <1>2, <2>1, <2>2 DEF ProposedTask
<1>4. round \in [1..Len(drafts) -> ProposedTask]
  BY <1>3
<1>5. round \in Seq(ProposedTask) /\ Len(round) = Len(drafts)
  BY <1>1, <1>4, FunctionIsSeq
<1> HIDE DEF round
<1>6. tasks \in Seq(Task \union ProposedTask) /\ round \in Seq(Task \union ProposedTask)
  BY <1>5
<1>7. /\ Len(tasks \o round) = Len(tasks) + Len(round)
      /\ \A k \in 1..Len(tasks) + Len(round) :
           (tasks \o round)[k] = IF k <= Len(tasks) THEN tasks[k] ELSE round[k - Len(tasks)]
  BY <1>6, ConcatProperties
<1>8. new = tasks \o round
  BY DEF ActivateTasks, round
<1>9. ASSUME NEW k \in Len(tasks)+1 .. Len(tasks) + Len(drafts)
      PROVE  (tasks \o round)[k].outcome = Empty
  <2>1. k - Len(tasks) \in 1..Len(drafts) /\ k \in 1..Len(tasks) + Len(round) /\ ~(k <= Len(tasks))
    BY <1>1, <1>5
  <2>2. (tasks \o round)[k] = round[k - Len(tasks)]
    BY <1>7, <2>1
  <2> QED
    BY <1>3, <2>1, <2>2
<1> QED
  BY <1>5, <1>7, <1>8, <1>9

-----------------------------------------------------------------------------
(* Instances stay honest. *)

\* While nothing is recorded, tasks may move forward.
LEMMA HonestMoves ==
  ASSUME NEW inst \in Instance, Honest(inst), NEW new \in Instance,
         TasksForward(inst.tasks, new.tasks), Undecided(new.tasks), new.audit = inst.audit
  PROVE  Honest(new)
<1>1. inst.tasks \in Seq(Task) /\ new.tasks \in Seq(Task)
  BY DEF Instance
<1> QED
  BY <1>1, HappenedStays DEF Honest

\* Any record but one of a transfer may be appended.
LEMMA HonestRecords ==
  ASSUME NEW inst \in Instance, Honest(inst), NEW new \in Instance,
         NEW r \in AuditRecord, new.audit = Append(inst.audit, r), new.tasks = inst.tasks,
         r.action = TaskTransferred => Happened(r, new.tasks)
  PROVE  Honest(new)
<1>1. inst.audit \in Seq(AuditRecord)
  BY DEF Instance
<1>2. /\ DOMAIN new.audit = 1..Len(inst.audit) + 1 /\ Len(inst.audit) \in Nat
      /\ \A k \in 1..Len(inst.audit) : new.audit[k] = inst.audit[k]
      /\ new.audit[Len(inst.audit) + 1] = r
  BY <1>1, AppendProperties, LenProperties
<1>3. DOMAIN inst.audit = 1..Len(inst.audit)
  BY <1>1, LenProperties
<1>4. \A k \in DOMAIN new.audit : k = Len(inst.audit) + 1 \/ k \in DOMAIN inst.audit
  BY <1>2, <1>3
<1> QED
  BY <1>2, <1>3, <1>4 DEF Honest

\* Disposing of a result records no transfer (nodeResultApplication.apply).
LEMMA DisposeIsHonest ==
  ASSUME NEW cand \in Instance, Honest(cand), NEW result
  PROVE  Honest(Dispose(cand, result))
<1>1. cand.node \in Nodes
  BY DEF Instance
<1>2. CASE Dispose(cand, result) = cand
  BY <1>2
<1>3. CASE Dispose(cand, result) = RejectNode(cand)
  <2> DEFINE r == Record(NodeRejected, cand.node)
  <2>1. r \in AuditRecord /\ r.action # TaskTransferred
    BY <1>1, RecordTyped DEF Actions, NodeRejected, TaskTransferred, TaskAction
  <2>2. RejectNode(cand) = AppendAudit(cand, r)
    BY DEF RejectNode
  <2> HIDE DEF r
  <2> QED
    BY <1>3, <2>1, <2>2, AppendAuditTyped, HonestRecords
<1>4. CASE Dispose(cand, result) = RejectInstance(cand)
  <2> DEFINE r == Record(InstanceRejected, cand.node)
             rejected == [cand EXCEPT !.status = "rejected"]
  <2>1. r \in AuditRecord /\ r.action # TaskTransferred
    BY <1>1, RecordTyped DEF Actions, InstanceRejected, TaskTransferred, TaskAction
  <2>2. rejected \in Instance /\ rejected.audit = cand.audit /\ rejected.tasks = cand.tasks
    BY DEF Instance, InstanceStatuses
  <2>3. RejectInstance(cand) = AppendAudit(rejected, r)
    BY DEF RejectInstance
  <2>4. Honest(rejected)
    BY <2>2 DEF Honest
  <2> HIDE DEF r, rejected
  <2> QED
    BY <1>4, <2>1, <2>2, <2>3, <2>4, AppendAuditTyped, HonestRecords
<1> QED
  BY <1>2, <1>3, <1>4 DEF Dispose

\* Entering a node records no transfer.
LEMMA EnterNodeIsHonest ==
  ASSUME NEW inst \in Instance, Honest(inst), NEW node \in Nodes
  PROVE  EnterNode(inst, node) \in Instance /\ Honest(EnterNode(inst, node))
<1>1. Record(NodeEntered, node).action # TaskTransferred
  BY DEF Record, NodeEntered, TaskTransferred, TaskAction
<1> QED
  BY <1>1, EnterNodeFacts, HonestRecords

\* A command cannot forge a transfer: its name is not the reserved one (validateCommand).
LEMMA HandleIsHonest ==
  ASSUME NEW base \in Instance, Honest(base), Runs(base),
         NEW name \in CommandNames, NEW actor \in Actors, NEW id,
         CommandAllowed(base, id, actor, name),
         NEW result, IsNodeResult(result), PreparedCommand(base, result)
  PROVE  Honest(ApplyCommand(RecordTaskCommand(base, name, id, actor), result))
<1> DEFINE r == [Record(TaskAction(name), base.node) EXCEPT !.task = id, !.actor = actor]
           rec == RecordTaskCommand(base, name, id, actor)
           cand == ReplaceTasks(rec, result)
<1>1. base.tasks \in Seq(Task) /\ base.node \in Nodes
  BY DEF Instance
<1>2. r \in AuditRecord /\ r.action # TaskTransferred
  <2>1. TaskAction(name) \in Actions
    BY DEF Actions
  <2>2. TaskAction(name) # TaskTransferred
    BY DEF CommandAllowed, TaskTransferred, TaskAction
  <2>3. id \in Nat
    BY <1>1 DEF CommandAllowed, NodeIds
  <2> QED
    BY <1>1, <2>1, <2>2, <2>3, RecordTyped DEF AuditRecord, Record
<1>3. rec = AppendAudit(base, r)
  BY DEF RecordTaskCommand
<1> HIDE DEF r, rec
<1>4. /\ rec \in Instance /\ rec.audit = Append(base.audit, r)
      /\ rec.status = base.status /\ rec.node = base.node /\ rec.tasks = base.tasks
  BY <1>2, <1>3, AppendAuditTyped
<1>5. Honest(rec)
  BY <1>2, <1>4, HonestRecords
<1>6. Settled(rec) /\ PreparedCommand(rec, result)
  BY <1>4 DEF Runs, Settled, PreparedCommand, ValidReplacements
<1>7. cand \in Instance /\ cand.audit = rec.audit /\ TasksForward(rec.tasks, cand.tasks)
  BY <1>4, <1>6, ReplaceTasksForward
<1>8. Len(cand.tasks) = Len(rec.tasks) /\ Len(rec.tasks) \in Nat
  <2>1. DOMAIN cand.tasks = DOMAIN rec.tasks
    BY <1>4 DEF ReplaceTasks, Instance
  <2>2. rec.tasks \in Seq(Task) /\ cand.tasks \in Seq(Task)
    BY <1>4, <1>7 DEF Instance
  <2>3. /\ DOMAIN rec.tasks = 1..Len(rec.tasks) /\ Len(rec.tasks) \in Nat
        /\ DOMAIN cand.tasks = 1..Len(cand.tasks) /\ Len(cand.tasks) \in Nat
    BY <2>2, LenProperties
  <2> QED
    BY <2>1, <2>3
<1>9. ApplyCommand(rec, result) = Dispose(cand, result)
  BY DEF ApplyCommand
<1> HIDE DEF cand
<1>10. Undecided(cand.tasks)
  <2>1. rec.tasks \in Seq(Task) /\ cand.tasks \in Seq(Task) /\ Undecided(rec.tasks)
    BY <1>4, <1>5, <1>7 DEF Instance, Honest
  <2>2. \A k \in Len(rec.tasks)+1 .. Len(cand.tasks) : cand.tasks[k].outcome = Empty
    BY <1>8
  <2> QED
    BY <1>7, <2>1, <2>2, UndecidedStays
<1>11. Honest(Dispose(cand, result))
  BY <1>5, <1>4, <1>7, <1>10, HonestMoves, DisposeIsHonest
<1> QED
  BY <1>9, <1>11 DEF rec

\* Closing active tasks keeps an instance honest.
LEMMA ClosedIsHonest ==
  ASSUME NEW inst \in Instance, Honest(inst), NEW ids \in SUBSET ActiveIds(inst.tasks),
         NEW new \in Instance, new.audit = inst.audit,
         new.tasks = CloseTasks(inst.tasks, ids)
  PROVE  Honest(new)
<1>1. inst.tasks \in Seq(Task) /\ new.tasks \in Seq(Task)
  BY DEF Instance
<1>2. Len(new.tasks) = Len(inst.tasks) /\ TasksForward(inst.tasks, new.tasks)
  BY <1>1, CloseTasksForward
<1>3. \A k \in Len(inst.tasks)+1 .. Len(new.tasks) : new.tasks[k].outcome = Empty
  BY <1>1, <1>2, LenProperties
<1>4. Undecided(new.tasks)
  BY <1>1, <1>2, <1>3, UndecidedStays DEF Honest
<1> QED
  BY <1>2, <1>4, HonestMoves

\* A withdrawal closes what is active.
LEMMA WithdrawIsHonest ==
  ASSUME NEW base \in Instance, Honest(base), NEW actor \in Actors
  PROVE  Honest(Withdrawn(RecordWithdrawal(base, actor)))
<1> DEFINE r == [Record(InstanceWithdrawn, base.node) EXCEPT !.actor = actor]
           rec == RecordWithdrawal(base, actor)
           closed == CloseTasks(rec.tasks, ActiveIds(rec.tasks))
           cand == Withdrawn(rec)
<1>1. r \in AuditRecord /\ r.action # TaskTransferred
  <2>1. InstanceWithdrawn \in Actions /\ base.node \in Nodes
    BY DEF Actions, Instance
  <2>2. InstanceWithdrawn # TaskTransferred
    BY DEF InstanceWithdrawn, TaskTransferred, TaskAction
  <2> QED
    BY <2>1, <2>2, RecordTyped DEF AuditRecord, Record
<1>2. rec = AppendAudit(base, r)
  BY DEF RecordWithdrawal
<1> HIDE DEF r, rec
<1>3. rec \in Instance /\ rec.audit = Append(base.audit, r) /\ rec.tasks = base.tasks
  BY <1>1, <1>2, AppendAuditTyped
<1>4. Honest(rec)
  BY <1>1, <1>3, HonestRecords
<1>5. closed \in Seq(Task)
  BY <1>3, CloseTasksForward DEF Instance
<1>6. cand = [rec EXCEPT !.status = "withdrawn", !.tasks = closed]
  BY <1>3 DEF Withdrawn, Instance
<1> HIDE DEF cand
<1>7. cand \in Instance /\ cand.audit = rec.audit /\ cand.tasks = closed
  BY <1>3, <1>5, <1>6 DEF Instance, InstanceStatuses
<1>8. Honest(cand)
  BY <1>3, <1>4, <1>7, ClosedIsHonest
<1> QED
  BY <1>8 DEF cand, rec

\* A transfer closes the task and appends its successor (instance_facts.go transfer).
LEMMA TransferIsHonest ==
  ASSUME NEW base \in Instance, Honest(base), Runs(base),
         NEW actor \in Actors, NEW newAssignee \in Actors, NEW id, TransferAllowed(base, id)
  PROVE  Honest(Transferred(RecordTransfer(base, id, actor, newAssignee), id, newAssignee))
<1> DEFINE r == [Record(TaskTransferred, base.tasks[id].node) EXCEPT
                   !.task = id, !.actor = actor, !.assignee = newAssignee]
           rec == RecordTransfer(base, id, actor, newAssignee)
           closed == CloseTasks(base.tasks, {id})
           task == [node |-> base.tasks[id].node, assignee |-> newAssignee,
                    status |-> "active", outcome |-> Empty]
           after == Append(closed, task)
           moved == [base EXCEPT !.tasks = after]
           cand == Transferred(rec, id, newAssignee)
<1>1. /\ base.tasks \in Seq(Task) /\ Len(base.tasks) \in Nat
      /\ DOMAIN base.tasks = 1..Len(base.tasks)
  BY LenProperties DEF Instance
<1>2. id \in 1..Len(base.tasks) /\ id \in ActiveIds(base.tasks) /\ base.tasks[id] \in Task
  BY <1>1 DEF TransferAllowed, NodeIds, ActiveIds
<1>3. task \in Task /\ task.outcome = Empty
      /\ task.node = base.tasks[id].node /\ task.assignee = newAssignee
  BY <1>2 DEF Task, TaskStatuses
<1>4. /\ r \in AuditRecord
      /\ r.task = id /\ r.node = base.tasks[id].node /\ r.assignee = newAssignee
  <2>1. TaskTransferred \in Actions
    BY DEF Actions
  <2>2. id \in Nat /\ base.tasks[id].node \in Nodes
    BY <1>2 DEF Task, BusinessNodes
  <2> QED
    BY <2>1, <2>2, RecordTyped DEF AuditRecord, Record
<1>5. rec = AppendAudit(base, r)
  BY DEF RecordTransfer
<1> HIDE DEF r, rec, task
<1>6. rec \in Instance /\ rec.audit = Append(base.audit, r) /\ rec.tasks = base.tasks
  BY <1>4, <1>5, AppendAuditTyped
<1>7. /\ closed \in Seq(Task) /\ Len(closed) = Len(base.tasks)
      /\ TasksForward(base.tasks, closed)
  <2>1. {id} \in SUBSET ActiveIds(base.tasks)
    BY <1>2
  <2> QED
    BY <1>1, <2>1, CloseTasksForward
<1>8. closed[id].status = "closed" /\ closed[id].outcome = Empty
  <2>1. closed[id] = [base.tasks[id] EXCEPT !.status = "closed"]
    BY <1>1, <1>2 DEF CloseTasks
  <2>2. base.tasks[id].outcome = Empty
    BY <1>2 DEF Honest, Undecided
  <2> QED
    BY <1>2, <2>1, <2>2 DEF Task
<1> HIDE DEF closed
<1>9. /\ after \in Seq(Task) /\ Len(after) = Len(closed) + 1
      /\ \A k \in 1..Len(closed) : after[k] = closed[k]
      /\ after[Len(closed) + 1] = task
  BY <1>3, <1>7, AppendProperties
<1> HIDE DEF after
<1>10. TasksForward(base.tasks, after)
  <2>1. Len(closed) <= Len(after)
    BY <1>1, <1>7, <1>9
  <2> QED
    BY <1>1, <1>7, <1>9, <2>1, ForwardExtends
<1>11. Undecided(after)
  <2>1. \A k \in Len(base.tasks)+1 .. Len(after) : k = Len(closed) + 1
    BY <1>1, <1>7, <1>9
  <2>2. \A k \in Len(base.tasks)+1 .. Len(after) : after[k].outcome = Empty
    BY <1>3, <1>9, <2>1
  <2> QED
    BY <1>1, <1>9, <1>10, <2>2, UndecidedStays DEF Honest
<1>12. Happened(r, after)
  <2>1. DOMAIN after = 1..Len(after) /\ id \in 1..Len(closed) /\ id \in DOMAIN after
    BY <1>1, <1>2, <1>7, <1>9, LenProperties
  <2>2. after[id].status = "closed" /\ after[id].outcome = Empty
    BY <1>8, <1>9, <2>1
  <2>3. Len(closed) + 1 \in id+1 .. Len(after)
    BY <1>1, <1>2, <1>7, <1>9
  <2>4. after[Len(closed) + 1].node = r.node /\ after[Len(closed) + 1].assignee = r.assignee
    BY <1>3, <1>4, <1>9
  <2> QED
    BY <1>4, <2>1, <2>2, <2>3, <2>4 DEF Happened
<1>13. /\ moved \in Instance /\ moved.tasks = after /\ moved.audit = base.audit
  BY <1>9 DEF Instance
<1> HIDE DEF moved
<1>14. Honest(moved)
  BY <1>10, <1>11, <1>13, HonestMoves
<1>15. cand = [rec EXCEPT !.tasks = after]
  BY <1>6 DEF Transferred, after, closed, task, Instance
<1> HIDE DEF cand
<1>16. cand \in Instance /\ cand.tasks = moved.tasks /\ cand.audit = Append(moved.audit, r)
  BY <1>6, <1>9, <1>13, <1>15 DEF Instance
<1>17. Honest(cand)
  BY <1>4, <1>12, <1>13, <1>14, <1>16, HonestRecords
<1> QED
  BY <1>17 DEF cand, rec

\* A round appended to an honest instance is undecided (activateTasks).
LEMMA RoundIsHonest ==
  ASSUME NEW inst \in Instance, Honest(inst), NEW node \in BusinessNodes,
         NEW drafts, ValidDrafts(drafts), NEW state \in States \union {Empty}
  PROVE  LET new == [inst EXCEPT !.tasks = ActivateTasks(@, node, drafts), !.state = state]
         IN  new \in Instance /\ Honest(new)
<1> DEFINE after == ActivateTasks(inst.tasks, node, drafts)
           new == [inst EXCEPT !.tasks = ActivateTasks(@, node, drafts), !.state = state]
<1>1. inst.tasks \in Seq(Task) /\ Len(inst.tasks) \in Nat
  BY LenProperties DEF Instance
<1>2. /\ after \in Seq(Task) /\ Len(after) = Len(inst.tasks) + Len(drafts) /\ Len(drafts) \in Nat
      /\ \A k \in 1..Len(inst.tasks) : after[k] = inst.tasks[k]
      /\ \A k \in Len(inst.tasks)+1 .. Len(after) : after[k].outcome = Empty
  BY <1>1, ActivateTasksExtends, RoundUndecided
<1>3. new = [inst EXCEPT !.tasks = after, !.state = state]
  BY DEF Instance
<1> HIDE DEF after, new
<1>4. new \in Instance /\ new.tasks = after /\ new.audit = inst.audit
  BY <1>2, <1>3 DEF Instance
<1>5. TasksForward(inst.tasks, after)
  <2>1. TasksForward(inst.tasks, inst.tasks) /\ Len(inst.tasks) <= Len(after)
    BY <1>1, <1>2, ForwardReflexive
  <2> QED
    BY <1>1, <1>2, <2>1, ForwardExtends
<1>6. Undecided(after)
  BY <1>1, <1>2, <1>5, UndecidedStays DEF Honest
<1> QED
  BY <1>4, <1>5, <1>6, HonestMoves DEF new

\* A return closes one round and opens another.
LEMMA ReturnIsHonest ==
  ASSUME NEW base \in Instance, Honest(base), NEW actor \in Actors,
         NEW target, ReturnAllowed(base, target),
         NEW result, IsNodeResult(result), PreparedReturn(result)
  PROVE  Honest(ReturnTo(RecordReturn(base, target, actor), target, result))
<1> DEFINE r == [Record(InstanceReturned, base.node) EXCEPT
                   !.target = target, !.actor = actor, !.state = base.state]
           rec == RecordReturn(base, target, actor)
           source == ActiveIds(rec.tasks) \intersect NodeIds(rec.tasks, rec.node)
           closed == CloseTasks(rec.tasks, source)
           entered == EnterNode(rec, target)
           shut == [entered EXCEPT !.tasks = closed]
           cand == ReturnTo(rec, target, result)
<1>1. /\ base.node \in Nodes /\ base.state \in States \union {Empty}
      /\ target \in Nodes /\ target \in BusinessNodes
  BY DEF Instance, ReturnAllowed, BusinessNodes
<1>2. r \in AuditRecord /\ r.action # TaskTransferred
  <2>1. InstanceReturned \in Actions /\ InstanceReturned # TaskTransferred
    BY DEF Actions, InstanceReturned, TaskTransferred, TaskAction
  <2> QED
    BY <1>1, <2>1, RecordTyped DEF AuditRecord, Record
<1>3. rec = AppendAudit(base, r)
  BY DEF RecordReturn
<1> HIDE DEF r, rec
<1>4. rec \in Instance /\ rec.audit = Append(base.audit, r) /\ rec.tasks = base.tasks
  BY <1>2, <1>3, AppendAuditTyped
<1>5. Honest(rec)
  BY <1>2, <1>4, HonestRecords
<1>6. entered \in Instance /\ Honest(entered) /\ entered.tasks = rec.tasks
  BY <1>1, <1>4, <1>5, EnterNodeIsHonest, EnterNodeFacts
<1>7. source \in SUBSET ActiveIds(rec.tasks)
  OBVIOUS
<1> HIDE DEF source
<1>8. closed \in Seq(Task)
  BY <1>4, <1>7, CloseTasksForward DEF Instance
<1>9. cand = [shut EXCEPT !.tasks = ActivateTasks(@, target, result.tasks), !.state = result.state]
  BY <1>6 DEF ReturnTo, source, Instance
<1>10. shut \in Instance /\ shut.audit = entered.audit /\ shut.tasks = closed
  <2> HIDE DEF entered, closed
  <2> QED
    BY <1>6, <1>8 DEF Instance
<1> HIDE DEF cand, shut, entered
<1>11. Honest(shut)
  BY <1>6, <1>7, <1>10, ClosedIsHonest
<1>12. ValidDrafts(result.tasks) /\ result.state \in States \union {Empty}
  BY DEF PreparedReturn, ValidResultFields, IsNodeResult
<1>13. Honest(cand)
  BY <1>1, <1>9, <1>10, <1>11, <1>12, RoundIsHonest
<1> QED
  BY <1>13 DEF cand, rec

\* Reaching an end records no transfer.
LEMMA ReachEndIsHonest ==
  ASSUME NEW cand \in Instance, Honest(cand), NEW node \in Nodes
  PROVE  Honest(Complete(EnterNode(cand, node)))
<1> DEFINE entered == EnterNode(cand, node)
           done == [entered EXCEPT !.status = "completed"]
           r == Record(InstanceCompleted, entered.node)
<1>1. entered \in Instance /\ Honest(entered)
  BY EnterNodeIsHonest
<1>2. Complete(entered) = AppendAudit(done, r)
  BY DEF Complete
<1> HIDE DEF entered
<1>3. r \in AuditRecord /\ r.action # TaskTransferred
  <2>1. InstanceCompleted \in Actions /\ entered.node \in Nodes
    BY <1>1 DEF Actions, Instance
  <2>2. InstanceCompleted # TaskTransferred
    BY DEF InstanceCompleted, TaskTransferred, TaskAction
  <2> QED
    BY <2>1, <2>2, RecordTyped
<1>4. done \in Instance /\ done.tasks = entered.tasks /\ done.audit = entered.audit
  BY <1>1 DEF Instance, InstanceStatuses
<1>5. Honest(done)
  BY <1>1, <1>4 DEF Honest
<1> HIDE DEF done, r
<1>6. Honest(Complete(entered))
  BY <1>2, <1>3, <1>4, <1>5, AppendAuditTyped, HonestRecords
<1> QED
  BY <1>6 DEF entered

\* Entering a business node opens an undecided round.
LEMMA EnterBusinessNodeIsHonest ==
  ASSUME NEW cand \in Instance, Honest(cand), NEW node \in BusinessNodes,
         NEW result, IsNodeResult(result), PreparedActivation(result)
  PROVE  Honest(ApplyActivation(EnterNode(cand, node), result))
<1> DEFINE entered == EnterNode(cand, node)
           new == [entered EXCEPT !.tasks = ActivateTasks(@, node, result.tasks),
                                  !.state = result.state]
<1>1. entered \in Instance /\ Honest(entered) /\ entered.node = node
  BY EnterNodeIsHonest, EnterNodeFacts DEF BusinessNodes
<1>2. ApplyActivation(entered, result) = Dispose(new, result)
  BY <1>1 DEF ApplyActivation
<1>3. ValidDrafts(result.tasks) /\ result.state \in States \union {Empty}
  BY DEF PreparedActivation, ValidResultFields, IsNodeResult
<1> HIDE DEF entered
<1>4. new \in Instance /\ Honest(new)
  BY <1>1, <1>3, RoundIsHonest
<1> HIDE DEF new
<1>5. Honest(Dispose(new, result))
  BY <1>4, DisposeIsHonest
<1> QED
  BY <1>2, <1>5 DEF entered

-----------------------------------------------------------------------------
(* The invariant. *)

\* A step of one call that leaves the durable instance alone.
LEMMA OneCallHonest ==
  ASSUME IInv, HistoryInv, NEW c \in Clients, NEW call,
         call.base # NoInstance => Honest(call.base),
         call.pc \in {"advance", "save"} => Honest(call.cand),
         client' = [client EXCEPT ![c] = call], UNCHANGED store
  PROVE  HistoryInv'
<1>1. client \in [Clients -> Call]
  BY DEF IInv, TypeOK
<1>2. \A d \in Clients : client'[d] = IF d = c THEN call ELSE client[d]
  BY <1>1
<1> QED
  BY <1>2 DEF HistoryInv

\* A call that ends, having changed the durable instance to an honest one or not at all.
LEMMA EndHonest ==
  ASSUME IInv, HistoryInv, NEW c \in Clients, client' = [client EXCEPT ![c] = Idle],
         store' # NoInstance => Honest(store')
  PROVE  HistoryInv'
<1>1. client \in [Clients -> Call]
  BY DEF IInv, TypeOK
<1>2. \A d \in Clients : client'[d] = IF d = c THEN Idle ELSE client[d]
  BY <1>1
<1> QED
  BY <1>2, IdleIsLegal, CallFields DEF HistoryInv

\* One step per operation on a loaded snapshot.
LEMMA OperateHonest ==
  ASSUME IInv, HistoryInv, NEW c \in Clients, Operate(c)
  PROVE  HistoryInv'
<1> DEFINE base == client[c].base
<1>1. base \in Instance /\ base # NoInstance /\ Runs(base)
  BY LoadedCall DEF Operate
<1>2. Honest(base)
  BY <1>1 DEF HistoryInv
<1>3. ASSUME NEW actor \in Actors, NEW id \in DOMAIN base.tasks, NEW name \in CommandNames,
             CommandAllowed(base, id, actor, name), NEW result, Handle(c, id, actor, name, result)
      PROVE  HistoryInv'
  <2> DEFINE cand == ApplyCommand(RecordTaskCommand(base, name, id, actor), result)
             call == AfterResult(base, cand, result)
  <2>1. Honest(cand)
    BY <1>1, <1>2, <1>3, HandleIsHonest DEF Handle
  <2>2. client' = [client EXCEPT ![c] = call] /\ UNCHANGED store
    BY <1>3 DEF Handle
  <2>3. call.base = base /\ call.cand = cand
    BY CallFields
  <2> HIDE DEF cand, call
  <2> QED
    BY <1>2, <2>1, <2>2, <2>3, OneCallHonest
<1>4. ASSUME NEW actor \in Operators, Withdraw(c, actor)
      PROVE  HistoryInv'
  <2> DEFINE cand == Withdrawn(RecordWithdrawal(base, actor))
             call == Saving(base, cand)
  <2>1. Honest(cand)
    BY <1>1, <1>2, ActorAssumption, WithdrawIsHonest
  <2>2. client' = [client EXCEPT ![c] = call] /\ UNCHANGED store
    BY <1>4 DEF Withdraw
  <2>3. call.base = base /\ call.cand = cand
    BY CallFields
  <2> HIDE DEF cand, call
  <2> QED
    BY <1>2, <2>1, <2>2, <2>3, OneCallHonest
<1>5. ASSUME NEW actor \in Operators, NEW id \in DOMAIN base.tasks, NEW newAssignee \in Actors,
             Transfer(c, actor, id, newAssignee)
      PROVE  HistoryInv'
  <2> DEFINE cand == Transferred(RecordTransfer(base, id, actor, newAssignee), id, newAssignee)
             call == Saving(base, cand)
  <2>1. Honest(cand)
    BY <1>1, <1>2, <1>5, ActorAssumption, TransferIsHonest DEF Transfer
  <2>2. client' = [client EXCEPT ![c] = call] /\ UNCHANGED store
    BY <1>5 DEF Transfer
  <2>3. call.base = base /\ call.cand = cand
    BY CallFields
  <2> HIDE DEF cand, call
  <2> QED
    BY <1>2, <2>1, <2>2, <2>3, OneCallHonest
<1>6. ASSUME NEW actor \in Operators, NEW target \in BusinessNodes, NEW result,
             Return(c, actor, target, result)
      PROVE  HistoryInv'
  <2> DEFINE cand == ReturnTo(RecordReturn(base, target, actor), target, result)
             call == Saving(base, cand)
  <2>1. Honest(cand)
    BY <1>1, <1>2, <1>6, ActorAssumption, ReturnIsHonest DEF Return
  <2>2. client' = [client EXCEPT ![c] = call] /\ UNCHANGED store
    BY <1>6 DEF Return
  <2>3. call.base = base /\ call.cand = cand
    BY CallFields
  <2> HIDE DEF cand, call
  <2> QED
    BY <1>2, <2>1, <2>2, <2>3, OneCallHonest
<1> QED
  BY <1>3, <1>4, <1>5, <1>6 DEF Operate

\* One step per disjunct of the advance loop.
LEMMA AdvanceHonest ==
  ASSUME IInv, HistoryInv, NEW c \in Clients, Advance(c)
  PROVE  HistoryInv'
<1> DEFINE base == client[c].base
           old == client[c].cand
           node == NextNode(old, client[c].outcome)
<1>1. old \in Instance
  BY RoutedCall DEF Advance, ReachEnd
<1>2. Honest(old) /\ (base # NoInstance => Honest(base))
  BY DEF HistoryInv, Advance, ReachEnd
<1>3. CASE ReachEnd(c)
  <2> DEFINE cand == Complete(EnterNode(old, node))
             call == Saving(base, cand)
  <2>1. node \in Nodes
    BY <1>3, PlanAssumption DEF ReachEnd
  <2>2. Honest(cand)
    BY <1>1, <1>2, <2>1, ReachEndIsHonest
  <2>3. client' = [client EXCEPT ![c] = call] /\ UNCHANGED store
    BY <1>3 DEF ReachEnd
  <2>4. call.base = base /\ call.cand = cand
    BY CallFields
  <2> HIDE DEF cand, call
  <2> QED
    BY <1>2, <2>2, <2>3, <2>4, OneCallHonest
<1>4. ASSUME NEW result, EnterBusinessNode(c, result)
      PROVE  HistoryInv'
  <2> DEFINE cand == ApplyActivation(EnterNode(old, node), result)
             call == AfterResult(base, cand, result)
  <2>1. node \in BusinessNodes /\ IsNodeResult(result) /\ PreparedActivation(result)
    BY <1>4 DEF EnterBusinessNode
  <2>2. Honest(cand)
    BY <1>1, <1>2, <2>1, EnterBusinessNodeIsHonest
  <2>3. client' = [client EXCEPT ![c] = call] /\ UNCHANGED store
    BY <1>4 DEF EnterBusinessNode
  <2>4. call.base = base /\ call.cand = cand
    BY CallFields
  <2> HIDE DEF cand, call
  <2> QED
    BY <1>2, <2>2, <2>3, <2>4, OneCallHonest
<1> QED
  BY <1>3, <1>4 DEF Advance

\* A new instance has recorded no transfer (startInstanceFacts).
LEMMA StartedIsHonest ==
  ASSUME NEW initiator
  PROVE  Honest(Started(initiator))
<1> DEFINE r == [Record(InstanceStarted, StartNode) EXCEPT !.actor = initiator]
<1>1. r.action # TaskTransferred
  BY DEF Record, InstanceStarted, TaskTransferred, TaskAction
<1> HIDE DEF r
<1>2. Started(initiator).tasks = << >> /\ Started(initiator).audit = <<r>>
  BY DEF Started, r
<1> QED
  BY <1>1, <1>2 DEF Honest, Undecided, ActiveIds

\* What a commit makes durable is honest: the version is all it adds to the candidate.
LEMMA FinishHonest ==
  ASSUME IInv, HistoryInv, NEW c \in Clients, Finish(c)
  PROVE  HistoryInv'
<1>1. client' = [client EXCEPT ![c] = Idle]
  BY DEF Finish, Create, Commit, Fail
<1>2. CASE store' = store
  BY <1>1, <1>2, EndHonest DEF HistoryInv
<1>3. CASE store' # store
  <2>1. client[c].pc = "save" /\ Honest(client[c].cand)
    BY <1>3 DEF Finish, Create, Commit, Fail, HistoryInv
  <2>2. CASE Create(c)
    BY <1>1, <1>3, <2>1, <2>2, CreateStores, EndHonest
  <2>3. CASE Commit(c)
    <3>1. CanAdvanceVersion(client[c].cand) /\ store' = AdvanceVersion(client[c].cand)
      BY <1>3, <2>3 DEF Commit
    <3>2. client[c].cand \in Instance
      BY <2>1 DEF IInv, TypeOK, Call, CallInv
    <3>3. Honest(store')
      BY <2>1, <3>1, <3>2, CommittedFacts DEF Honest
    <3> QED
      BY <1>1, <3>3, EndHonest
  <2> QED
    BY <1>3, <2>2, <2>3 DEF Finish, Fail
<1> QED
  BY <1>2, <1>3

\* Every step of any call preserves honesty.
LEMMA NextHonest == IInv /\ HistoryInv /\ [Next]_vars => HistoryInv'
<1> SUFFICES ASSUME IInv, HistoryInv, [Next]_vars PROVE HistoryInv'
  OBVIOUS
<1>1. CASE UNCHANGED vars
  BY <1>1 DEF vars, HistoryInv
<1>2. ASSUME NEW c \in Clients, NEW initiator \in Initiators, Start(c, initiator)
      PROVE  HistoryInv'
  <2> DEFINE call == Advancing(NoInstance, Started(initiator), Empty)
  <2>1. call.base = NoInstance /\ call.cand = Started(initiator)
    BY DEF Advancing
  <2>2. client' = [client EXCEPT ![c] = call] /\ UNCHANGED store
    BY <1>2 DEF Start
  <2> HIDE DEF call
  <2> QED
    BY <2>1, <2>2, StartedIsHonest, OneCallHonest
<1>3. ASSUME NEW c \in Clients, Load(c)
      PROVE  HistoryInv'
  <2> DEFINE call == Loaded(store)
  <2>1. call.base = store /\ call.pc = "loaded"
    BY DEF Loaded
  <2>2. client' = [client EXCEPT ![c] = call] /\ UNCHANGED store
    BY <1>3 DEF Load
  <2> HIDE DEF call
  <2> QED
    BY <2>1, <2>2, OneCallHonest DEF HistoryInv
<1> QED
  BY <1>1, <1>2, <1>3, OperateHonest, AdvanceHonest, FinishHonest DEF Next

-----------------------------------------------------------------------------

\* Every transfer on record happened: whatever names handlers give their commands,
\* a task recorded as transferred was closed undecided and has the successor named.
THEOREM TransfersAreReal == Spec => []TransfersHappened
<1>1. Init => HistoryInv
  BY IdleIsLegal, CallFields DEF Init, HistoryInv
<1>2. HistoryInv => TransfersHappened
  BY DEF HistoryInv, Honest, Happened, TransfersHappened
<1> QED
  BY <1>1, <1>2, NextHonest, Invariance, PTL DEF Spec

-----------------------------------------------------------------------------
(* The path.  An audit tells how its instance came to where it is.         *)

\* The record number j is the last arrival before record number k.
Latest(audit, k, j) ==
  /\ j \in 1..k-1
  /\ IsArrival(audit[j])
  /\ \A m \in j+1 .. k-1 : ~IsArrival(audit[m])

\* Whether an instance at from, with the records so far, may enter node.
MayEnter(before, from, node) ==
  LET cause == before[Len(before)] IN
  IF cause.action = InstanceReturned
  THEN cause.target = node /\ cause.node = from /\ HasEnteredNode(before, node)
  ELSE \E o \in Outcomes \union {Empty} :
         <<from, o>> \in DOMAIN Route /\ Route[<<from, o>>] = node

\* The audit of an instance that is at node.
Tells(audit, node) ==
  /\ audit # << >>
  /\ \E j \in 1..Len(audit) : Latest(audit, Len(audit) + 1, j) /\ audit[j].node = node
  /\ \A k \in 2..Len(audit) : \E j \in 1..k-1 :
       /\ Latest(audit, k, j)
       /\ audit[k].action = NodeEntered =>
            MayEnter(SubSeq(audit, 1, k - 1), audit[j].node, audit[k].node)

\* A return's record is never left as the last.
Path(inst) ==
  /\ Tells(inst.audit, inst.node)
  /\ inst.audit[Len(inst.audit)].action # InstanceReturned

\* What makes AuditTellsThePath inductive.
PathInv ==
  /\ store # NoInstance => Path(store)
  /\ \A c \in Clients :
       /\ client[c].base # NoInstance => Path(client[c].base)
       /\ client[c].pc \in {"advance", "save"} => Path(client[c].cand)

-----------------------------------------------------------------------------
(* Lemmas on audits. *)

\* Appending changes no beginning.
LEMMA SubSeqOfAppend ==
  ASSUME NEW S, NEW s \in Seq(S), NEW r \in S, NEW m \in 1..Len(s)
  PROVE  SubSeq(Append(s, r), 1, m) = SubSeq(s, 1, m)
<1>1. Append(s, r) = s \o <<r>> /\ <<r>> \in Seq(S)
  BY AppendIsConcat
<1>2. 1 \in 1..Len(s)
  BY LenProperties
<1> QED
  BY <1>1, <1>2, SubSeqOfConcat1

\* There is one latest arrival.
LEMMA LatestIsLast ==
  ASSUME NEW audit, NEW k \in Nat, NEW j, Latest(audit, k, j)
  PROVE  LastArrival(audit, k) = audit[j].node
<1> DEFINE P(i) == IsArrival(audit[i]) /\ \A m \in i+1 .. k-1 : ~IsArrival(audit[m])
           i == CHOOSE i \in 1..k-1 : P(i)
<1>1. j \in 1..k-1 /\ P(j)
  BY DEF Latest
<1>2. i \in 1..k-1 /\ P(i)
  BY <1>1
<1>3. LastArrival(audit, k) = audit[i].node
  BY DEF LastArrival
<1> HIDE DEF i
<1>4. i = j
  BY <1>1, <1>2
<1> QED
  BY <1>3, <1>4

\* A record may be appended to an audit that tells a path, a node's entry if the
\* path may go there (instance_facts.go appendAudit and enterNode).
LEMMA AppendTells ==
  ASSUME NEW audit \in Seq(AuditRecord), NEW node, Tells(audit, node), NEW r \in AuditRecord,
         r.action = NodeEntered => MayEnter(audit, node, r.node)
  PROVE  Tells(Append(audit, r), IF IsArrival(r) THEN r.node ELSE node)
<1> DEFINE n == Len(audit)
           new == Append(audit, r)
           at == IF IsArrival(r) THEN r.node ELSE node
<1>1. /\ n \in Nat /\ new \in Seq(AuditRecord) /\ Len(new) = n + 1
      /\ \A m \in 1..n : new[m] = audit[m]
      /\ new[n + 1] = r
  BY AppendProperties, LenProperties
<1>2. SubSeq(new, 1, n) = audit
  <2>1. n \in 1..n
    BY <1>1, LenProperties, EmptySeq DEF Tells
  <2> QED BY <2>1, SubSeqOfAppend, SubSeqFull
<1>3. \A k \in 2..n : SubSeq(new, 1, k - 1) = SubSeq(audit, 1, k - 1)
  BY <1>1, SubSeqOfAppend
<1> HIDE DEF new
<1>4. ASSUME NEW k \in 2..n+1, NEW j, Latest(audit, k, j)
      PROVE  Latest(new, k, j) /\ new[j] = audit[j]
  <2>1. j \in 1..k-1 /\ j \in 1..n /\ \A m \in j+1 .. k-1 : m \in 1..n
    BY <1>1, <1>4 DEF Latest
  <2> QED
    BY <1>1, <1>4, <2>1 DEF Latest
<1>5. PICK last \in 1..n : Latest(audit, n + 1, last) /\ audit[last].node = node
  BY DEF Tells
<1>6. n >= 1 /\ Latest(new, n + 1, last) /\ new[last] = audit[last]
  BY <1>1, <1>4, <1>5
<1>7. new # << >>
  BY <1>1
<1>8. \E j \in 1..Len(new) : Latest(new, Len(new) + 1, j) /\ new[j].node = at
  <2>1. CASE IsArrival(r)
    <3>1. Latest(new, n + 2, n + 1)
      BY <1>1, <2>1 DEF Latest
    <3> QED BY <1>1, <2>1, <3>1
  <2>2. CASE ~IsArrival(r)
    <3>1. last \in 1..n+1 /\ \A m \in last+1 .. n+1 : m = n + 1 \/ m \in last+1 .. n
      BY <1>1
    <3>2. Latest(new, n + 2, last)
      BY <1>1, <1>6, <2>2, <3>1 DEF Latest
    <3> QED BY <1>1, <1>5, <1>6, <2>2, <3>2
  <2> QED BY <2>1, <2>2
<1>9. ASSUME NEW k \in 2..Len(new)
      PROVE  \E j \in 1..k-1 :
               /\ Latest(new, k, j)
               /\ new[k].action = NodeEntered =>
                    MayEnter(SubSeq(new, 1, k - 1), new[j].node, new[k].node)
  <2>1. CASE k \in 2..n
    <3>1. PICK j \in 1..k-1 :
            /\ Latest(audit, k, j)
            /\ audit[k].action = NodeEntered =>
                 MayEnter(SubSeq(audit, 1, k - 1), audit[j].node, audit[k].node)
      BY <2>1 DEF Tells
    <3>2. Latest(new, k, j) /\ new[j] = audit[j] /\ new[k] = audit[k]
      BY <1>1, <1>4, <2>1, <3>1
    <3> QED BY <1>3, <2>1, <3>1, <3>2
  <2>2. CASE k = n + 1
    <3>1. last \in 1..k-1 /\ SubSeq(new, 1, k - 1) = audit
      BY <1>1, <1>2, <2>2
    <3> QED BY <1>1, <1>5, <1>6, <2>2, <3>1
  <2> QED BY <1>1, <2>1, <2>2
<1>10. Tells(new, at)
  BY <1>7, <1>8, <1>9 DEF Tells
<1> QED
  BY <1>10 DEF new

-----------------------------------------------------------------------------
(* Instances keep to their path. *)

\* Any record that is neither an arrival nor a return may be appended.
LEMMA PathRecords ==
  ASSUME NEW inst \in Instance, Path(inst), NEW r \in AuditRecord,
         r.action \notin {NodeEntered, InstanceStarted, InstanceReturned},
         NEW new, new.audit = Append(inst.audit, r), new.node = inst.node
  PROVE  Path(new)
<1>1. inst.audit \in Seq(AuditRecord)
  BY DEF Instance
<1>2. Tells(new.audit, new.node)
  BY <1>1, AppendTells DEF Path, IsArrival
<1>3. new.audit[Len(new.audit)] = r
  BY <1>1, AppendProperties
<1> QED
  BY <1>2, <1>3 DEF Path

\* A node's entry follows a route, or the return before it.
LEMMA EntryTells ==
  ASSUME NEW inst \in Instance, Tells(inst.audit, inst.node), NEW node \in Nodes,
         MayEnter(inst.audit, inst.node, node)
  PROVE  Path(EnterNode(inst, node))
<1> DEFINE r == Record(NodeEntered, node)
<1>1. inst.audit \in Seq(AuditRecord)
  BY DEF Instance
<1>2. /\ EnterNode(inst, node).node = node /\ r \in AuditRecord
      /\ EnterNode(inst, node).audit = Append(inst.audit, r)
  BY EnterNodeFacts
<1>3. r.action = NodeEntered /\ r.node = node
  BY DEF Record
<1> HIDE DEF r
<1>4. Tells(Append(inst.audit, r), node)
  BY <1>1, <1>2, <1>3, AppendTells DEF IsArrival
<1>5. Append(inst.audit, r)[Len(Append(inst.audit, r))] = r
  BY <1>1, <1>2, AppendProperties
<1>6. r.action # InstanceReturned
  BY <1>3 DEF NodeEntered, InstanceReturned
<1> QED
  BY <1>2, <1>4, <1>5, <1>6 DEF Path

\* The advance loop enters the node a route leads to (advance).
LEMMA RouteTells ==
  ASSUME NEW inst \in Instance, Path(inst), NEW outcome \in Outcomes \union {Empty},
         HasRoute(inst, outcome), NextNode(inst, outcome) \in Nodes
  PROVE  Path(EnterNode(inst, NextNode(inst, outcome)))
<1>1. MayEnter(inst.audit, inst.node, NextNode(inst, outcome))
  BY DEF MayEnter, Path, HasRoute, NextNode
<1> QED
  BY <1>1, EntryTells DEF Path

\* Disposing of a result moves nothing (nodeResultApplication.apply).
LEMMA DisposeTells ==
  ASSUME NEW cand \in Instance, Path(cand), NEW result
  PROVE  Path(Dispose(cand, result))
<1>1. cand.node \in Nodes
  BY DEF Instance
<1>2. CASE Dispose(cand, result) = cand
  BY <1>2
<1>3. CASE Dispose(cand, result) = RejectNode(cand)
  <2> DEFINE r == Record(NodeRejected, cand.node)
  <2>1. r \in AuditRecord /\ r.action = NodeRejected
    BY <1>1, RecordTyped DEF Actions
  <2>2. r.action \notin {NodeEntered, InstanceStarted, InstanceReturned}
    BY <2>1 DEF NodeRejected, NodeEntered, InstanceStarted, InstanceReturned
  <2>3. RejectNode(cand) = AppendAudit(cand, r)
    BY DEF RejectNode
  <2> HIDE DEF r
  <2> QED
    BY <1>3, <2>1, <2>2, <2>3, AppendAuditTyped, PathRecords
<1>4. CASE Dispose(cand, result) = RejectInstance(cand)
  <2> DEFINE r == Record(InstanceRejected, cand.node)
             rejected == [cand EXCEPT !.status = "rejected"]
  <2>1. r \in AuditRecord /\ r.action = InstanceRejected
    BY <1>1, RecordTyped DEF Actions
  <2>2. r.action \notin {NodeEntered, InstanceStarted, InstanceReturned}
    BY <2>1 DEF InstanceRejected, NodeEntered, InstanceStarted, InstanceReturned
  <2>3. rejected \in Instance /\ rejected.audit = cand.audit /\ rejected.node = cand.node
    BY DEF Instance, InstanceStatuses
  <2>4. RejectInstance(cand) = AppendAudit(rejected, r)
    BY DEF RejectInstance
  <2>5. Path(rejected)
    BY <2>3 DEF Path
  <2> HIDE DEF r, rejected
  <2> QED
    BY <1>4, <2>1, <2>2, <2>3, <2>4, <2>5, AppendAuditTyped, PathRecords
<1> QED
  BY <1>2, <1>3, <1>4 DEF Dispose

\* A task's command is recorded where the instance is (recordTaskCommand).
LEMMA HandleTells ==
  ASSUME NEW base \in Instance, Path(base), Runs(base),
         NEW name \in CommandNames, NEW actor \in Actors, NEW id,
         CommandAllowed(base, id, actor, name),
         NEW result, IsNodeResult(result), PreparedCommand(base, result)
  PROVE  Path(ApplyCommand(RecordTaskCommand(base, name, id, actor), result))
<1> DEFINE r == [Record(TaskAction(name), base.node) EXCEPT !.task = id, !.actor = actor]
           rec == RecordTaskCommand(base, name, id, actor)
           cand == ReplaceTasks(rec, result)
<1>1. base.tasks \in Seq(Task) /\ base.node \in Nodes
  BY DEF Instance
<1>2. r \in AuditRecord /\ r.action \notin {NodeEntered, InstanceStarted, InstanceReturned}
  <2>1. TaskAction(name) \in Actions
    BY DEF Actions
  <2>2. TaskAction(name) \notin {NodeEntered, InstanceStarted, InstanceReturned}
    BY DEF TaskAction, NodeEntered, InstanceStarted, InstanceReturned
  <2>3. id \in Nat
    BY <1>1 DEF CommandAllowed, NodeIds
  <2> QED
    BY <1>1, <2>1, <2>2, <2>3, RecordTyped DEF AuditRecord, Record
<1>3. rec = AppendAudit(base, r)
  BY DEF RecordTaskCommand
<1> HIDE DEF r, rec
<1>4. /\ rec \in Instance /\ rec.audit = Append(base.audit, r)
      /\ rec.status = base.status /\ rec.node = base.node /\ rec.tasks = base.tasks
  BY <1>2, <1>3, AppendAuditTyped
<1>5. Path(rec)
  BY <1>2, <1>4, PathRecords
<1>6. Settled(rec) /\ PreparedCommand(rec, result)
  BY <1>4 DEF Runs, Settled, PreparedCommand, ValidReplacements
<1>7. cand \in Instance /\ cand.audit = rec.audit
  BY <1>4, <1>6, ReplaceTasksForward
<1>8. cand.node = rec.node
  BY <1>4 DEF ReplaceTasks, Instance
<1>9. ApplyCommand(rec, result) = Dispose(cand, result)
  BY DEF ApplyCommand
<1> HIDE DEF cand
<1>10. Path(cand)
  BY <1>5, <1>7, <1>8 DEF Path
<1>11. Path(Dispose(cand, result))
  BY <1>7, <1>10, DisposeTells
<1> QED
  BY <1>9, <1>11 DEF rec

\* A withdrawal ends where the instance is.
LEMMA WithdrawTells ==
  ASSUME NEW base \in Instance, Path(base), NEW actor \in Actors
  PROVE  Path(Withdrawn(RecordWithdrawal(base, actor)))
<1> DEFINE r == [Record(InstanceWithdrawn, base.node) EXCEPT !.actor = actor]
           rec == RecordWithdrawal(base, actor)
<1>1. r \in AuditRecord /\ r.action \notin {NodeEntered, InstanceStarted, InstanceReturned}
  <2>1. InstanceWithdrawn \in Actions /\ base.node \in Nodes
    BY DEF Actions, Instance
  <2>2. InstanceWithdrawn \notin {NodeEntered, InstanceStarted, InstanceReturned}
    BY DEF InstanceWithdrawn, NodeEntered, InstanceStarted, InstanceReturned
  <2> QED
    BY <2>1, <2>2, RecordTyped DEF AuditRecord, Record
<1>2. rec = AppendAudit(base, r)
  BY DEF RecordWithdrawal
<1> HIDE DEF r, rec
<1>3. rec \in Instance /\ rec.audit = Append(base.audit, r) /\ rec.node = base.node
  BY <1>1, <1>2, AppendAuditTyped
<1>4. Withdrawn(rec).audit = rec.audit /\ Withdrawn(rec).node = rec.node
  BY <1>3 DEF Withdrawn, Instance
<1>5. Path(Withdrawn(rec))
  BY <1>1, <1>3, <1>4, PathRecords
<1> QED
  BY <1>5 DEF rec

\* A transfer moves a task, not the instance.
LEMMA TransferTells ==
  ASSUME NEW base \in Instance, Path(base), NEW actor \in Actors, NEW newAssignee \in Actors,
         NEW id, TransferAllowed(base, id)
  PROVE  Path(Transferred(RecordTransfer(base, id, actor, newAssignee), id, newAssignee))
<1> DEFINE r == [Record(TaskTransferred, base.tasks[id].node) EXCEPT
                   !.task = id, !.actor = actor, !.assignee = newAssignee]
           rec == RecordTransfer(base, id, actor, newAssignee)
           cand == Transferred(rec, id, newAssignee)
<1>1. base.tasks \in Seq(Task) /\ base.node \in Nodes
  BY DEF Instance
<1>2. id \in Nat /\ base.tasks[id].node \in Nodes
  BY <1>1 DEF TransferAllowed, NodeIds
<1>3. r \in AuditRecord /\ r.action \notin {NodeEntered, InstanceStarted, InstanceReturned}
  <2>1. TaskTransferred \in Actions
    BY DEF Actions
  <2>2. TaskTransferred \notin {NodeEntered, InstanceStarted, InstanceReturned}
    BY DEF TaskTransferred, TaskAction, NodeEntered, InstanceStarted, InstanceReturned
  <2> QED
    BY <1>2, <2>1, <2>2, RecordTyped DEF AuditRecord, Record
<1>4. rec = AppendAudit(base, r)
  BY DEF RecordTransfer
<1> HIDE DEF r, rec
<1>5. rec \in Instance /\ rec.audit = Append(base.audit, r) /\ rec.node = base.node
  BY <1>3, <1>4, AppendAuditTyped
<1>6. cand.audit = rec.audit /\ cand.node = rec.node
  BY <1>5 DEF Transferred, Instance
<1> HIDE DEF cand
<1>7. Path(cand)
  BY <1>3, <1>5, <1>6, PathRecords
<1> QED
  BY <1>7 DEF cand, rec

\* A return goes back to a node of the path, and says so before it enters it
\* (instance_facts.go recordReturn and returnTo).
LEMMA ReturnTells ==
  ASSUME NEW base \in Instance, Path(base), NEW actor \in Actors,
         NEW target, ReturnAllowed(base, target), NEW result
  PROVE  Path(ReturnTo(RecordReturn(base, target, actor), target, result))
<1> DEFINE r == [Record(InstanceReturned, base.node) EXCEPT
                   !.target = target, !.actor = actor, !.state = base.state]
           rec == RecordReturn(base, target, actor)
           entered == EnterNode(rec, target)
           cand == ReturnTo(rec, target, result)
<1>1. /\ base.node \in Nodes /\ base.state \in States \union {Empty}
      /\ target \in Nodes /\ base.audit \in Seq(AuditRecord)
  BY DEF Instance, ReturnAllowed, BusinessNodes
<1>2. /\ r \in AuditRecord /\ r.action = InstanceReturned
      /\ r.target = target /\ r.node = base.node
  <2>1. InstanceReturned \in Actions
    BY DEF Actions
  <2> QED
    BY <1>1, <2>1, RecordTyped DEF AuditRecord, Record
<1>3. ~IsArrival(r) /\ r.action # NodeEntered
  BY <1>2 DEF IsArrival, InstanceReturned, NodeEntered, InstanceStarted
<1>4. rec = AppendAudit(base, r)
  BY DEF RecordReturn
<1> HIDE DEF r, rec
<1>5. rec \in Instance /\ rec.audit = Append(base.audit, r) /\ rec.node = base.node
  BY <1>2, <1>4, AppendAuditTyped
<1>6. /\ Len(rec.audit) = Len(base.audit) + 1 /\ rec.audit[Len(base.audit) + 1] = r
      /\ \A k \in 1..Len(base.audit) : rec.audit[k] = base.audit[k]
      /\ DOMAIN base.audit = 1..Len(base.audit) /\ DOMAIN rec.audit = 1..Len(base.audit) + 1
      /\ Len(base.audit) \in Nat
  BY <1>1, <1>2, <1>5, AppendProperties, LenProperties
<1>7. Tells(rec.audit, rec.node)
  BY <1>1, <1>2, <1>3, <1>5, AppendTells DEF Path
<1>8. HasEnteredNode(rec.audit, target)
  <2>1. PICK k \in 1..Len(base.audit) : base.audit[k].action = NodeEntered /\ base.audit[k].node = target
    BY <1>6 DEF ReturnAllowed, HasEnteredNode
  <2>2. k \in DOMAIN rec.audit /\ rec.audit[k] = base.audit[k]
    BY <1>6
  <2> QED BY <2>1, <2>2 DEF HasEnteredNode
<1>9. MayEnter(rec.audit, rec.node, target)
  BY <1>2, <1>5, <1>6, <1>8 DEF MayEnter
<1>10. Path(entered)
  BY <1>1, <1>5, <1>7, <1>9, EntryTells
<1>11. cand.audit = entered.audit /\ cand.node = entered.node
  <2>1. entered \in Instance
    BY <1>1, <1>5, EnterNodeFacts
  <2> HIDE DEF entered
  <2>2. cand = [entered EXCEPT !.state = result.state,
                 !.tasks = ActivateTasks(CloseTasks(rec.tasks,
                   ActiveIds(rec.tasks) \intersect NodeIds(rec.tasks, rec.node)), target, result.tasks)]
    BY DEF ReturnTo, entered
  <2> HIDE DEF cand
  <2> QED BY <2>1, <2>2 DEF Instance
<1> HIDE DEF cand, entered
<1>12. Path(cand)
  BY <1>10, <1>11 DEF Path
<1> QED
  BY <1>12 DEF cand, rec

\* An end is reached by a route.
LEMMA ReachEndTells ==
  ASSUME NEW cand \in Instance, Path(cand), NEW outcome \in Outcomes \union {Empty},
         HasRoute(cand, outcome), NextNode(cand, outcome) \in Nodes
  PROVE  Path(Complete(EnterNode(cand, NextNode(cand, outcome))))
<1> DEFINE entered == EnterNode(cand, NextNode(cand, outcome))
           done == [entered EXCEPT !.status = "completed"]
           r == Record(InstanceCompleted, entered.node)
<1>1. entered \in Instance /\ Path(entered)
  BY RouteTells, EnterNodeFacts
<1>2. Complete(entered) = AppendAudit(done, r)
  BY DEF Complete
<1> HIDE DEF entered
<1>3. r \in AuditRecord /\ r.action \notin {NodeEntered, InstanceStarted, InstanceReturned}
  <2>1. InstanceCompleted \in Actions /\ entered.node \in Nodes
    BY <1>1 DEF Actions, Instance
  <2>2. InstanceCompleted \notin {NodeEntered, InstanceStarted, InstanceReturned}
    BY DEF InstanceCompleted, NodeEntered, InstanceStarted, InstanceReturned
  <2> QED
    BY <2>1, <2>2, RecordTyped
<1>4. done \in Instance /\ done.node = entered.node /\ done.audit = entered.audit
  BY <1>1 DEF Instance, InstanceStatuses
<1>5. Path(done)
  BY <1>1, <1>4 DEF Path
<1> HIDE DEF done, r
<1>6. Path(Complete(entered))
  BY <1>2, <1>3, <1>4, <1>5, AppendAuditTyped, PathRecords
<1> QED
  BY <1>6 DEF entered

\* A business node is entered by a route.
LEMMA EnterBusinessNodeTells ==
  ASSUME NEW cand \in Instance, Path(cand), NEW outcome \in Outcomes \union {Empty},
         HasRoute(cand, outcome), NextNode(cand, outcome) \in BusinessNodes,
         NEW result, IsNodeResult(result), PreparedActivation(result)
  PROVE  Path(ApplyActivation(EnterNode(cand, NextNode(cand, outcome)), result))
<1> DEFINE node == NextNode(cand, outcome)
           entered == EnterNode(cand, node)
           after == ActivateTasks(entered.tasks, node, result.tasks)
           new == [entered EXCEPT !.tasks = after, !.state = result.state]
<1>1. node \in Nodes
  BY DEF BusinessNodes
<1>2. entered \in Instance /\ Path(entered) /\ entered.node = node
  BY <1>1, RouteTells, EnterNodeFacts
<1>3. ApplyActivation(entered, result) = Dispose(new, result)
  BY <1>2 DEF ApplyActivation
<1> HIDE DEF entered
<1>4. after \in Seq(Task) /\ result.state \in States \union {Empty}
  <2>1. ValidDrafts(result.tasks) /\ entered.tasks \in Seq(Task)
    BY <1>2 DEF PreparedActivation, Instance
  <2> QED
    BY <2>1, ActivateTasksExtends DEF PreparedActivation, ValidResultFields, IsNodeResult
<1> HIDE DEF after, node
<1>5. new \in Instance /\ new.audit = entered.audit /\ new.node = entered.node
  BY <1>2, <1>4 DEF Instance
<1> HIDE DEF new
<1>6. Path(new)
  BY <1>2, <1>5 DEF Path
<1>7. Path(Dispose(new, result))
  BY <1>5, <1>6, DisposeTells
<1> QED
  BY <1>3, <1>7 DEF entered, node

\* A new instance is at the start node (startInstanceFacts).
LEMMA StartedTells ==
  ASSUME NEW initiator
  PROVE  Path(Started(initiator))
<1> DEFINE r == [Record(InstanceStarted, StartNode) EXCEPT !.actor = initiator]
<1>1. r.action = InstanceStarted /\ r.node = StartNode
  BY DEF Record
<1> HIDE DEF r
<1>2. Started(initiator).node = StartNode /\ Started(initiator).audit = <<r>>
  BY DEF Started, r
<1>3. Latest(<<r>>, 2, 1)
  BY <1>1 DEF Latest, IsArrival
<1>4. Tells(<<r>>, StartNode)
  BY <1>1, <1>3 DEF Tells
<1>5. InstanceStarted # InstanceReturned
  BY DEF InstanceStarted, InstanceReturned
<1> QED
  BY <1>1, <1>2, <1>4, <1>5 DEF Path

-----------------------------------------------------------------------------
(* The invariant. *)

\* A step of one call that leaves the durable instance alone.
LEMMA OneCallTells ==
  ASSUME IInv, PathInv, NEW c \in Clients, NEW call,
         call.base # NoInstance => Path(call.base),
         call.pc \in {"advance", "save"} => Path(call.cand),
         client' = [client EXCEPT ![c] = call], UNCHANGED store
  PROVE  PathInv'
<1>1. client \in [Clients -> Call]
  BY DEF IInv, TypeOK
<1>2. \A d \in Clients : client'[d] = IF d = c THEN call ELSE client[d]
  BY <1>1
<1> QED
  BY <1>2 DEF PathInv

\* A call that ends, having changed the durable instance to one that tells its path or not at all.
LEMMA EndTells ==
  ASSUME IInv, PathInv, NEW c \in Clients, client' = [client EXCEPT ![c] = Idle],
         store' # NoInstance => Path(store')
  PROVE  PathInv'
<1>1. client \in [Clients -> Call]
  BY DEF IInv, TypeOK
<1>2. \A d \in Clients : client'[d] = IF d = c THEN Idle ELSE client[d]
  BY <1>1
<1> QED
  BY <1>2, IdleIsLegal, CallFields DEF PathInv

\* One step per operation on a loaded snapshot.
LEMMA OperateTells ==
  ASSUME IInv, PathInv, NEW c \in Clients, Operate(c)
  PROVE  PathInv'
<1> DEFINE base == client[c].base
<1>1. base \in Instance /\ base # NoInstance /\ Runs(base)
  BY LoadedCall DEF Operate
<1>2. Path(base)
  BY <1>1 DEF PathInv
<1>3. ASSUME NEW actor \in Actors, NEW id \in DOMAIN base.tasks, NEW name \in CommandNames,
             CommandAllowed(base, id, actor, name), NEW result, Handle(c, id, actor, name, result)
      PROVE  PathInv'
  <2> DEFINE cand == ApplyCommand(RecordTaskCommand(base, name, id, actor), result)
             call == AfterResult(base, cand, result)
  <2>1. Path(cand)
    BY <1>1, <1>2, <1>3, HandleTells DEF Handle
  <2>2. client' = [client EXCEPT ![c] = call] /\ UNCHANGED store
    BY <1>3 DEF Handle
  <2>3. call.base = base /\ call.cand = cand
    BY CallFields
  <2> HIDE DEF cand, call
  <2> QED
    BY <1>2, <2>1, <2>2, <2>3, OneCallTells
<1>4. ASSUME NEW actor \in Operators, Withdraw(c, actor)
      PROVE  PathInv'
  <2> DEFINE cand == Withdrawn(RecordWithdrawal(base, actor))
             call == Saving(base, cand)
  <2>1. Path(cand)
    BY <1>1, <1>2, ActorAssumption, WithdrawTells
  <2>2. client' = [client EXCEPT ![c] = call] /\ UNCHANGED store
    BY <1>4 DEF Withdraw
  <2>3. call.base = base /\ call.cand = cand
    BY CallFields
  <2> HIDE DEF cand, call
  <2> QED
    BY <1>2, <2>1, <2>2, <2>3, OneCallTells
<1>5. ASSUME NEW actor \in Operators, NEW id \in DOMAIN base.tasks, NEW newAssignee \in Actors,
             Transfer(c, actor, id, newAssignee)
      PROVE  PathInv'
  <2> DEFINE cand == Transferred(RecordTransfer(base, id, actor, newAssignee), id, newAssignee)
             call == Saving(base, cand)
  <2>1. Path(cand)
    BY <1>1, <1>2, <1>5, ActorAssumption, TransferTells DEF Transfer
  <2>2. client' = [client EXCEPT ![c] = call] /\ UNCHANGED store
    BY <1>5 DEF Transfer
  <2>3. call.base = base /\ call.cand = cand
    BY CallFields
  <2> HIDE DEF cand, call
  <2> QED
    BY <1>2, <2>1, <2>2, <2>3, OneCallTells
<1>6. ASSUME NEW actor \in Operators, NEW target \in BusinessNodes, NEW result,
             Return(c, actor, target, result)
      PROVE  PathInv'
  <2> DEFINE cand == ReturnTo(RecordReturn(base, target, actor), target, result)
             call == Saving(base, cand)
  <2>1. Path(cand)
    BY <1>1, <1>2, <1>6, ActorAssumption, ReturnTells DEF Return
  <2>2. client' = [client EXCEPT ![c] = call] /\ UNCHANGED store
    BY <1>6 DEF Return
  <2>3. call.base = base /\ call.cand = cand
    BY CallFields
  <2> HIDE DEF cand, call
  <2> QED
    BY <1>2, <2>1, <2>2, <2>3, OneCallTells
<1> QED
  BY <1>3, <1>4, <1>5, <1>6 DEF Operate

\* One step per disjunct of the advance loop.
LEMMA AdvanceTells ==
  ASSUME IInv, PathInv, NEW c \in Clients, Advance(c)
  PROVE  PathInv'
<1> DEFINE base == client[c].base
           old == client[c].cand
           node == NextNode(old, client[c].outcome)
<1>1. old \in Instance /\ client[c].outcome \in Outcomes \union {Empty}
  BY RoutedCall DEF Advance, ReachEnd, IInv, TypeOK, Call
<1>2. Path(old) /\ (base # NoInstance => Path(base))
  BY DEF PathInv, Advance, ReachEnd
<1>3. CASE ReachEnd(c)
  <2> DEFINE cand == Complete(EnterNode(old, node))
             call == Saving(base, cand)
  <2>1. node \in Nodes /\ HasRoute(old, client[c].outcome)
    BY <1>3, PlanAssumption DEF ReachEnd
  <2>2. Path(cand)
    BY <1>1, <1>2, <2>1, ReachEndTells
  <2>3. client' = [client EXCEPT ![c] = call] /\ UNCHANGED store
    BY <1>3 DEF ReachEnd
  <2>4. call.base = base /\ call.cand = cand
    BY CallFields
  <2> HIDE DEF cand, call
  <2> QED
    BY <1>2, <2>2, <2>3, <2>4, OneCallTells
<1>4. ASSUME NEW result, EnterBusinessNode(c, result)
      PROVE  PathInv'
  <2> DEFINE cand == ApplyActivation(EnterNode(old, node), result)
             call == AfterResult(base, cand, result)
  <2>1. /\ node \in BusinessNodes /\ HasRoute(old, client[c].outcome)
        /\ IsNodeResult(result) /\ PreparedActivation(result)
    BY <1>4 DEF EnterBusinessNode
  <2>2. Path(cand)
    BY <1>1, <1>2, <2>1, EnterBusinessNodeTells
  <2>3. client' = [client EXCEPT ![c] = call] /\ UNCHANGED store
    BY <1>4 DEF EnterBusinessNode
  <2>4. call.base = base /\ call.cand = cand
    BY CallFields
  <2> HIDE DEF cand, call
  <2> QED
    BY <1>2, <2>2, <2>3, <2>4, OneCallTells
<1> QED
  BY <1>3, <1>4 DEF Advance

\* What a commit makes durable tells its path: the version is all it adds to the candidate.
LEMMA FinishTells ==
  ASSUME IInv, PathInv, NEW c \in Clients, Finish(c)
  PROVE  PathInv'
<1>1. client' = [client EXCEPT ![c] = Idle]
  BY DEF Finish, Create, Commit, Fail
<1>2. CASE store' = store
  BY <1>1, <1>2, EndTells DEF PathInv
<1>3. CASE store' # store
  <2>1. client[c].pc = "save" /\ Path(client[c].cand)
    BY <1>3 DEF Finish, Create, Commit, Fail, PathInv
  <2>2. CASE Create(c)
    BY <1>1, <1>3, <2>1, <2>2, CreateStores, EndTells
  <2>3. CASE Commit(c)
    <3>1. CanAdvanceVersion(client[c].cand) /\ store' = AdvanceVersion(client[c].cand)
      BY <1>3, <2>3 DEF Commit
    <3>2. client[c].cand \in Instance
      BY <2>1 DEF IInv, TypeOK, Call, CallInv
    <3>3. Path(store')
      BY <2>1, <3>1, <3>2, CommittedFacts DEF Path
    <3> QED
      BY <1>1, <3>3, EndTells
  <2> QED
    BY <1>3, <2>2, <2>3 DEF Finish, Fail
<1> QED
  BY <1>2, <1>3

\* Every step of any call keeps the paths told.
LEMMA NextTells == IInv /\ PathInv /\ [Next]_vars => PathInv'
<1> SUFFICES ASSUME IInv, PathInv, [Next]_vars PROVE PathInv'
  OBVIOUS
<1>1. CASE UNCHANGED vars
  BY <1>1 DEF vars, PathInv
<1>2. ASSUME NEW c \in Clients, NEW initiator \in Initiators, Start(c, initiator)
      PROVE  PathInv'
  <2> DEFINE call == Advancing(NoInstance, Started(initiator), Empty)
  <2>1. call.base = NoInstance /\ call.cand = Started(initiator)
    BY DEF Advancing
  <2>2. client' = [client EXCEPT ![c] = call] /\ UNCHANGED store
    BY <1>2 DEF Start
  <2> HIDE DEF call
  <2> QED
    BY <2>1, <2>2, StartedTells, OneCallTells
<1>3. ASSUME NEW c \in Clients, Load(c)
      PROVE  PathInv'
  <2> DEFINE call == Loaded(store)
  <2>1. call.base = store /\ call.pc = "loaded"
    BY DEF Loaded
  <2>2. client' = [client EXCEPT ![c] = call] /\ UNCHANGED store
    BY <1>3 DEF Load
  <2> HIDE DEF call
  <2> QED
    BY <2>1, <2>2, OneCallTells DEF PathInv
<1> QED
  BY <1>1, <1>2, <1>3, OperateTells, AdvanceTells, FinishTells DEF Next

-----------------------------------------------------------------------------

\* The audit tells the path of the instance: every entry of a node follows a
\* declared route from where the instance was, or directly the record of a return
\* from there to it (engine.go advance and Return).
THEOREM ThePathIsTold == Spec => []AuditTellsThePath
<1>1. Init => PathInv
  BY IdleIsLegal, CallFields DEF Init, PathInv
<1>2. IInv /\ PathInv => AuditTellsThePath
  <2> SUFFICES ASSUME IInv, PathInv, store # NoInstance, NEW k \in 2..Len(store.audit),
                      store.audit[k].action = NodeEntered
               PROVE  LET audit == store.audit
                          from == LastArrival(audit, k)
                          cause == audit[k - 1]
                      IN IF cause.action = InstanceReturned
                         THEN /\ cause.target = audit[k].node
                              /\ cause.node = from
                              /\ HasEnteredNode(SubSeq(audit, 1, k - 1), audit[k].node)
                         ELSE \E o \in Outcomes \union {Empty} :
                                <<from, o>> \in DOMAIN Route /\ Route[<<from, o>>] = audit[k].node
    BY DEF AuditTellsThePath
  <2> DEFINE audit == store.audit
             before == SubSeq(audit, 1, k - 1)
  <2>1. audit \in Seq(AuditRecord) /\ Len(audit) \in Nat
    BY LenProperties DEF IInv, TypeOK, Instance
  <2>2. PICK j \in 1..k-1 : Latest(audit, k, j) /\ MayEnter(before, audit[j].node, audit[k].node)
    BY DEF PathInv, Path, Tells
  <2>3. LastArrival(audit, k) = audit[j].node
    BY <2>2, LatestIsLast
  <2>4. before[Len(before)] = audit[k - 1]
    <3>1. \A i \in 1..k-1 : audit[i] \in AuditRecord
      BY <2>1
    <3>2. Len(before) = k - 1 /\ \A i \in 1..k-1 : before[i] = audit[i]
      BY <2>1, <3>1, SubSeqProperties
    <3> QED BY <2>1, <3>2
  <2> HIDE DEF audit, before
  <2>5. IF audit[k - 1].action = InstanceReturned
        THEN /\ audit[k - 1].target = audit[k].node
             /\ audit[k - 1].node = LastArrival(audit, k)
             /\ HasEnteredNode(before, audit[k].node)
        ELSE \E o \in Outcomes \union {Empty} :
               /\ <<LastArrival(audit, k), o>> \in DOMAIN Route
               /\ Route[<<LastArrival(audit, k), o>>] = audit[k].node
    BY <2>2, <2>3, <2>4 DEF MayEnter
  <2> QED BY <2>5 DEF audit, before
<1> QED
  BY <1>1, <1>2, NextTells, Invariance, PTL DEF Spec

-----------------------------------------------------------------------------
(* Workflows with approval nodes. *)

\* Nobody decides what is not there yet.
DecidesTasks(inst) ==
  \A k \in DOMAIN inst.audit : IsDecision(inst.audit[k]) => inst.audit[k].task \in DOMAIN inst.tasks

\* The node the instance is at was entered more often than decided.
Fresh(inst) ==
  inst.node \in OrSigns =>
    Cardinality(DecisionsAt(inst.audit, inst.node)) < Cardinality(Entries(inst.audit, inst.node))

Counted(inst) ==
  /\ \A node \in OrSigns :
       Cardinality(DecisionsAt(inst.audit, node)) <= Cardinality(Entries(inst.audit, node))
  /\ ActiveIds(inst.tasks) # {} => Fresh(inst)

Sound(inst) == Recorded(inst) /\ DecidesTasks(inst) /\ Explained(inst) /\ Counted(inst)

\* What makes the three properties inductive: every snapshot and every candidate
\* is sound as well.
ApprovalInv ==
  /\ store # NoInstance => Sound(store)
  /\ \A c \in Clients :
       /\ client[c].base # NoInstance => Sound(client[c].base)
       /\ client[c].pc \in {"advance", "save"} => Sound(client[c].cand)

-----------------------------------------------------------------------------
(* Audits. *)

\* What an appended record adds to the decisions and entries there are.
LEMMA RecordAdds ==
  ASSUME NEW audit \in Seq(AuditRecord), NEW r \in AuditRecord
  PROVE  LET new == Append(audit, r)
             n == Len(audit) + 1
         IN  /\ n \in DOMAIN new /\ n \notin DOMAIN audit /\ new[n] = r
             /\ DOMAIN new = DOMAIN audit \union {n}
             /\ \A k \in DOMAIN audit : new[k] = audit[k]
             /\ \A id : Decisions(new, id) = Decisions(audit, id) \union
                  (IF IsDecision(r) /\ r.task = id THEN {n} ELSE {})
             /\ \A node : DecisionsAt(new, node) = DecisionsAt(audit, node) \union
                  (IF IsDecision(r) /\ r.node = node THEN {n} ELSE {})
             /\ \A node : Entries(new, node) = Entries(audit, node) \union
                  (IF r.action = NodeEntered /\ r.node = node THEN {n} ELSE {})
<1> DEFINE new == Append(audit, r)
           n == Len(audit) + 1
<1>1. /\ Len(audit) \in Nat /\ DOMAIN audit = 1..Len(audit)
      /\ DOMAIN new = 1..n /\ new[n] = r
      /\ \A k \in 1..Len(audit) : new[k] = audit[k]
  BY AppendProperties, LenProperties
<1> HIDE DEF new
<1>2. /\ n \in DOMAIN new /\ n \notin DOMAIN audit
      /\ DOMAIN new = DOMAIN audit \union {n}
      /\ \A k \in DOMAIN audit : new[k] = audit[k]
  BY <1>1
<1> HIDE DEF n
<1>3. \A id : Decisions(new, id) = Decisions(audit, id) \union
                (IF IsDecision(r) /\ r.task = id THEN {n} ELSE {})
  BY <1>1, <1>2 DEF Decisions
<1>4. \A node : DecisionsAt(new, node) = DecisionsAt(audit, node) \union
                  (IF IsDecision(r) /\ r.node = node THEN {n} ELSE {})
  BY <1>1, <1>2 DEF DecisionsAt
<1>5. \A node : Entries(new, node) = Entries(audit, node) \union
                  (IF r.action = NodeEntered /\ r.node = node THEN {n} ELSE {})
  BY <1>1, <1>2 DEF Entries
<1> QED
  BY <1>1, <1>2, <1>3, <1>4, <1>5 DEF new, n

\* How many there are then.
LEMMA RecordCounts ==
  ASSUME NEW audit \in Seq(AuditRecord), NEW r \in AuditRecord, NEW node
  PROVE  LET new == Append(audit, r) IN
         /\ Cardinality(DecisionsAt(audit, node)) \in Nat
         /\ Cardinality(Entries(audit, node)) \in Nat
         /\ Cardinality(DecisionsAt(new, node)) = Cardinality(DecisionsAt(audit, node))
              + (IF IsDecision(r) /\ r.node = node THEN 1 ELSE 0)
         /\ Cardinality(Entries(new, node)) = Cardinality(Entries(audit, node))
              + (IF r.action = NodeEntered /\ r.node = node THEN 1 ELSE 0)
<1> DEFINE n == Len(audit) + 1
           decisions == DecisionsAt(audit, node)
           entries == Entries(audit, node)
<1>1. /\ n \notin decisions /\ n \notin entries
      /\ decisions \in SUBSET DOMAIN audit /\ entries \in SUBSET DOMAIN audit
  BY RecordAdds DEF DecisionsAt, Entries
<1>2. DOMAIN audit = 1..Len(audit) /\ Len(audit) \in Nat
  BY LenProperties
<1> HIDE DEF decisions, entries
<1>3. IsFiniteSet(1..Len(audit))
  BY <1>2, FS_Interval
<1>3a. decisions \in SUBSET (1..Len(audit)) /\ entries \in SUBSET (1..Len(audit))
  BY <1>1, <1>2
<1>3b. IsFiniteSet(decisions) /\ IsFiniteSet(entries)
  BY <1>3, <1>3a, FS_Subset
<1>4. /\ DecisionsAt(Append(audit, r), node) = decisions \union
           (IF IsDecision(r) /\ r.node = node THEN {n} ELSE {})
      /\ Entries(Append(audit, r), node) = entries \union
           (IF r.action = NodeEntered /\ r.node = node THEN {n} ELSE {})
  BY RecordAdds DEF decisions, entries
<1> HIDE DEF n
<1>5. /\ Cardinality(decisions) \in Nat /\ Cardinality(entries) \in Nat
      /\ Cardinality(decisions \union {n}) = Cardinality(decisions) + 1
      /\ Cardinality(entries \union {n}) = Cardinality(entries) + 1
  <2>1. ASSUME NEW S, IsFiniteSet(S), n \notin S
        PROVE  Cardinality(S) \in Nat /\ Cardinality(S \union {n}) = Cardinality(S) + 1
    BY <2>1, FS_AddElement, FS_CardinalityType
  <2> QED BY <1>1, <1>3b, <2>1
<1>6. decisions \union {} = decisions /\ entries \union {} = entries
  OBVIOUS
<1>7. Cardinality(DecisionsAt(Append(audit, r), node)) = Cardinality(decisions)
        + (IF IsDecision(r) /\ r.node = node THEN 1 ELSE 0)
  <2>1. CASE IsDecision(r) /\ r.node = node
    <3>1. DecisionsAt(Append(audit, r), node) = decisions \union {n}
      BY <1>4, <2>1
    <3> QED BY <1>5, <2>1, <3>1
  <2>2. CASE ~(IsDecision(r) /\ r.node = node)
    <3>1. DecisionsAt(Append(audit, r), node) = decisions
      BY <1>4, <1>6, <2>2
    <3> QED BY <1>5, <2>2, <3>1
  <2> QED BY <2>1, <2>2
<1>8. Cardinality(Entries(Append(audit, r), node)) = Cardinality(entries)
        + (IF r.action = NodeEntered /\ r.node = node THEN 1 ELSE 0)
  <2>1. CASE r.action = NodeEntered /\ r.node = node
    <3>1. Entries(Append(audit, r), node) = entries \union {n}
      BY <1>4, <2>1
    <3> QED BY <1>5, <2>1, <3>1
  <2>2. CASE ~(r.action = NodeEntered /\ r.node = node)
    <3>1. Entries(Append(audit, r), node) = entries
      BY <1>4, <1>6, <2>2
    <3> QED BY <1>5, <2>2, <3>1
  <2> QED BY <2>1, <2>2
<1> QED
  BY <1>5, <1>7, <1>8 DEF decisions, entries

\* A decision is no entry, and none of the engine's own records is a decision.
LEMMA DecisionsAreNot ==
  ASSUME NEW r, IsDecision(r)
  PROVE  r.action \notin {NodeEntered, NodeRejected, InstanceStarted, InstanceCompleted,
                          InstanceRejected, InstanceWithdrawn, InstanceReturned, TaskTransferred}
BY DEF IsDecision, TaskAction, CommandApprove, CommandReject, ReservedCommand, NodeEntered,
   NodeRejected, InstanceStarted, InstanceCompleted, InstanceRejected, InstanceWithdrawn,
   InstanceReturned, TaskTransferred

-----------------------------------------------------------------------------
(* Instances stay sound. *)

\* Any record but a decision may be appended, a node's entry with the move to it.
LEMMA SoundRecords ==
  ASSUME NEW inst \in Instance, Sound(inst), NEW r \in AuditRecord, ~IsDecision(r),
         NEW new, new.audit = Append(inst.audit, r), new.tasks = inst.tasks,
         \/ new.node = inst.node
         \/ r.action = NodeEntered /\ r.node = new.node
  PROVE  /\ Sound(new)
         /\ r.action = NodeEntered /\ r.node = new.node => Fresh(new)
         /\ new.node = inst.node /\ Fresh(inst) => Fresh(new)
<1> DEFINE n == Len(inst.audit) + 1
<1>1. inst.audit \in Seq(AuditRecord)
  BY DEF Instance
<1>2. /\ n \in DOMAIN new.audit /\ new.audit[n] = r
      /\ DOMAIN new.audit = DOMAIN inst.audit \union {n}
      /\ \A k \in DOMAIN inst.audit : new.audit[k] = inst.audit[k]
  BY <1>1, RecordAdds
<1>2a. ASSUME NEW id PROVE Decisions(new.audit, id) = Decisions(inst.audit, id)
  <2>1. Decisions(new.audit, id) = Decisions(inst.audit, id) \union
          (IF IsDecision(r) /\ r.task = id THEN {n} ELSE {})
    BY <1>1, RecordAdds
  <2> QED BY <2>1
<1>3. ApprovalIds(new) = ApprovalIds(inst)
  BY DEF ApprovalIds
<1> HIDE DEF n
<1>4. Recorded(new)
  <2> SUFFICES ASSUME NEW id \in ApprovalIds(new)
               PROVE  IF new.tasks[id].status = "completed"
                      THEN \E k \in DOMAIN new.audit :
                             Decisions(new.audit, id) = {k} /\ Says(new.audit[k], new.tasks[id])
                      ELSE Decisions(new.audit, id) = {}
    BY DEF Recorded
  <2>1. IF inst.tasks[id].status = "completed"
        THEN \E k \in DOMAIN inst.audit :
               Decisions(inst.audit, id) = {k} /\ Says(inst.audit[k], inst.tasks[id])
        ELSE Decisions(inst.audit, id) = {}
    BY <1>3 DEF Sound, Recorded
  <2> QED BY <1>2, <1>2a, <2>1
<1>5. DecidesTasks(new)
  BY <1>2 DEF Sound, DecidesTasks
<1>6. Explained(new)
  <2> SUFFICES ASSUME NEW id \in ApprovalIds(new), new.tasks[id].status = "closed"
               PROVE  \E k \in DOMAIN new.audit : Explains(new.audit[k], id, new.tasks[id])
    BY DEF Explained
  <2>1. PICK k \in DOMAIN inst.audit : Explains(inst.audit[k], id, inst.tasks[id])
    BY <1>3 DEF Sound, Explained
  <2> QED BY <1>2, <2>1
<1>7. ASSUME NEW node
      PROVE  /\ Cardinality(DecisionsAt(inst.audit, node)) \in Nat
             /\ Cardinality(Entries(inst.audit, node)) \in Nat
             /\ Cardinality(DecisionsAt(new.audit, node)) =
                  Cardinality(DecisionsAt(inst.audit, node))
             /\ Cardinality(Entries(new.audit, node)) = Cardinality(Entries(inst.audit, node))
                  + (IF r.action = NodeEntered /\ r.node = node THEN 1 ELSE 0)
  BY <1>1, RecordCounts
<1>8. \A node \in OrSigns :
        Cardinality(DecisionsAt(inst.audit, node)) <= Cardinality(Entries(inst.audit, node))
  BY DEF Sound, Counted
<1>9. \A node \in OrSigns :
        Cardinality(DecisionsAt(new.audit, node)) <= Cardinality(Entries(new.audit, node))
  BY <1>7, <1>8
<1>10. r.action = NodeEntered /\ r.node = new.node => Fresh(new)
  <2> SUFFICES ASSUME r.action = NodeEntered, r.node = new.node, new.node \in OrSigns
               PROVE  Cardinality(DecisionsAt(new.audit, new.node))
                        < Cardinality(Entries(new.audit, new.node))
    BY DEF Fresh
  <2> QED BY <1>7, <1>8
<1>11. new.node = inst.node /\ Fresh(inst) => Fresh(new)
  <2> SUFFICES ASSUME new.node = inst.node, Fresh(inst), new.node \in OrSigns
               PROVE  Cardinality(DecisionsAt(new.audit, new.node))
                        < Cardinality(Entries(new.audit, new.node))
    BY DEF Fresh
  <2>1. Cardinality(DecisionsAt(inst.audit, new.node)) < Cardinality(Entries(inst.audit, new.node))
    BY DEF Fresh
  <2> QED BY <1>7, <2>1
<1>12. ActiveIds(new.tasks) # {} => Fresh(new)
  BY <1>10, <1>11 DEF Sound, Counted
<1> QED
  BY <1>4, <1>5, <1>6, <1>9, <1>10, <1>11, <1>12 DEF Sound, Counted

\* While nothing is recorded, tasks may be closed for a reason, and active ones
\* appended where the last entry is not decided yet.
LEMMA SoundMoves ==
  ASSUME NEW inst \in Instance, Sound(inst), NEW new \in Instance,
         new.audit = inst.audit, new.node = inst.node, TasksForward(inst.tasks, new.tasks),
         \A k \in 1..Len(inst.tasks) :
           \/ new.tasks[k].status = inst.tasks[k].status
           \/ /\ inst.tasks[k].status = "active" /\ new.tasks[k].status = "closed"
              /\ \E j \in DOMAIN inst.audit : Explains(inst.audit[j], k, inst.tasks[k]),
         \A k \in Len(inst.tasks)+1 .. Len(new.tasks) : new.tasks[k].status = "active",
         ActiveIds(new.tasks) # {} => Fresh(inst)
  PROVE  Sound(new)
<1> DEFINE old == inst.tasks
           now == new.tasks
<1>1. /\ Len(old) \in Nat /\ Len(now) \in Nat /\ Len(old) <= Len(now)
      /\ DOMAIN old = 1..Len(old) /\ DOMAIN now = 1..Len(now)
  BY LenProperties DEF Instance, TasksForward
<1>2. ASSUME NEW k \in 1..Len(old)
      PROVE  /\ now[k].node = old[k].node /\ now[k].assignee = old[k].assignee
             /\ old[k].status # "active" => now[k] = old[k]
  BY <1>1 DEF TasksForward, ValidReplacement
<1>3. \A id \in ApprovalIds(new) : id \in ApprovalIds(inst) \/ id \in Len(old)+1 .. Len(now)
  BY <1>1, <1>2 DEF ApprovalIds
<1>4. \A id \in ApprovalIds(inst) : id \in 1..Len(old)
  BY <1>1 DEF ApprovalIds
<1>5. Recorded(new)
  <2> SUFFICES ASSUME NEW id \in ApprovalIds(new)
               PROVE  IF now[id].status = "completed"
                      THEN \E k \in DOMAIN new.audit :
                             Decisions(new.audit, id) = {k} /\ Says(new.audit[k], now[id])
                      ELSE Decisions(new.audit, id) = {}
    BY DEF Recorded
  <2>1. CASE id \in ApprovalIds(inst)
    <3>1. IF old[id].status = "completed"
          THEN \E k \in DOMAIN inst.audit :
                 Decisions(inst.audit, id) = {k} /\ Says(inst.audit[k], old[id])
          ELSE Decisions(inst.audit, id) = {}
      BY <2>1 DEF Sound, Recorded
    <3>2. old[id].status = "completed" => now[id] = old[id]
      BY <1>2, <1>4, <2>1
    <3>3. now[id].status = "completed" => old[id].status = "completed"
      BY <1>4, <2>1
    <3> QED BY <3>1, <3>2, <3>3
  <2>2. CASE id \in Len(old)+1 .. Len(now)
    <3>1. now[id].status = "active" /\ id \notin DOMAIN old
      BY <1>1, <2>2
    <3>2. Decisions(inst.audit, id) = {}
      BY <3>1 DEF Sound, DecidesTasks, Decisions
    <3> QED BY <3>1, <3>2
  <2> QED BY <1>3, <2>1, <2>2
<1>6. DecidesTasks(new)
  BY <1>1 DEF Sound, DecidesTasks
<1>7. Explained(new)
  <2> SUFFICES ASSUME NEW id \in ApprovalIds(new), now[id].status = "closed"
               PROVE  \E k \in DOMAIN new.audit : Explains(new.audit[k], id, now[id])
    BY DEF Explained
  <2>1. id \in ApprovalIds(inst) /\ id \in 1..Len(old)
    BY <1>3, <1>4
  <2>2. \E k \in DOMAIN inst.audit : Explains(inst.audit[k], id, old[id])
    BY <2>1 DEF Sound, Explained
  <2>3. now[id].node = old[id].node
    BY <1>2, <2>1
  <2> QED BY <2>2, <2>3 DEF Explains
<1>8. Fresh(inst) => Fresh(new)
  BY DEF Fresh
<1>9. Counted(new)
  BY <1>8 DEF Sound, Counted
<1> QED
  BY <1>5, <1>6, <1>7, <1>9 DEF Sound

\* Soundness is about tasks, records and the node they are at.
LEMMA SoundSame ==
  ASSUME NEW inst, Sound(inst), NEW new,
         new.audit = inst.audit, new.tasks = inst.tasks, new.node = inst.node
  PROVE  Sound(new)
<1>1. Recorded(new)
  BY DEF Sound, Recorded, ApprovalIds
<1>2. DecidesTasks(new)
  BY DEF Sound, DecidesTasks
<1>3. Explained(new)
  BY DEF Sound, Explained, ApprovalIds
<1>4. Counted(new)
  BY DEF Sound, Counted, Fresh
<1> QED
  BY <1>1, <1>2, <1>3, <1>4 DEF Sound

\* A decision: the task of the command is completed as its record says, and its
\* siblings are closed only if that record explains it; an or-sign is then over.
LEMMA SoundDecides ==
  ASSUME NEW inst \in Instance, Sound(inst), NEW new \in Instance, NEW r \in AuditRecord,
         new.audit = Append(inst.audit, r), new.node = inst.node,
         Len(new.tasks) = Len(inst.tasks), TasksForward(inst.tasks, new.tasks),
         NEW id \in 1..Len(inst.tasks), r.task = id, r.node = inst.node,
         inst.tasks[id].node = inst.node, inst.tasks[id].status = "active",
         r.action # NodeEntered,
         \A k \in 1..Len(inst.tasks) :
           inst.tasks[k].node # inst.node => new.tasks[k] = inst.tasks[k],
         inst.node \in ApprovalNodes =>
           /\ IsDecision(r) /\ Says(r, new.tasks[id]) /\ new.tasks[id].status = "completed"
           /\ \A k \in 1..Len(inst.tasks) \ {id} :
                \/ new.tasks[k].status = inst.tasks[k].status
                \/ /\ inst.tasks[k].status = "active" /\ new.tasks[k].status = "closed"
                   /\ inst.tasks[k].node = inst.node => Explains(r, k, inst.tasks[k]),
         inst.node \in OrSigns => ActiveIds(new.tasks) = {}
  PROVE  Sound(new)
<1> DEFINE old == inst.tasks
           now == new.tasks
           n == Len(inst.audit) + 1
<1>1. /\ Len(old) \in Nat /\ DOMAIN old = 1..Len(old) /\ DOMAIN now = 1..Len(old)
      /\ inst.audit \in Seq(AuditRecord)
  BY LenProperties DEF Instance
<1>2. ASSUME NEW k \in 1..Len(old)
      PROVE  /\ now[k].node = old[k].node /\ now[k].assignee = old[k].assignee
             /\ old[k].status # "active" => now[k] = old[k]
  BY <1>1 DEF TasksForward, ValidReplacement
<1>3. /\ n \in DOMAIN new.audit /\ new.audit[n] = r
      /\ DOMAIN new.audit = DOMAIN inst.audit \union {n}
      /\ \A k \in DOMAIN inst.audit : new.audit[k] = inst.audit[k]
  BY <1>1, RecordAdds
<1>4. ASSUME NEW j
      PROVE  Decisions(new.audit, j) = Decisions(inst.audit, j) \union
               (IF IsDecision(r) /\ r.task = j THEN {n} ELSE {})
  BY <1>1, RecordAdds
<1> HIDE DEF n
<1>5. ApprovalIds(new) = ApprovalIds(inst) /\ ApprovalIds(new) \subseteq 1..Len(old)
  BY <1>1, <1>2 DEF ApprovalIds
<1>6. ASSUME NEW k \in ApprovalIds(new), k # id
      PROVE  \/ now[k].status = old[k].status
             \/ /\ old[k].status = "active" /\ now[k].status = "closed"
                /\ Explains(r, k, old[k])
  <2>1. k \in 1..Len(old) /\ old[k].node \in ApprovalNodes
    BY <1>5 DEF ApprovalIds
  <2>2. CASE old[k].node = inst.node
    BY <1>6, <2>1, <2>2
  <2>3. CASE old[k].node # inst.node
    BY <2>1, <2>3
  <2> QED BY <2>2, <2>3
<1>7. Recorded(new)
  <2> SUFFICES ASSUME NEW k \in ApprovalIds(new)
               PROVE  IF now[k].status = "completed"
                      THEN \E m \in DOMAIN new.audit :
                             Decisions(new.audit, k) = {m} /\ Says(new.audit[m], now[k])
                      ELSE Decisions(new.audit, k) = {}
    BY DEF Recorded
  <2>1. IF old[k].status = "completed"
        THEN \E m \in DOMAIN inst.audit :
               Decisions(inst.audit, k) = {m} /\ Says(inst.audit[m], old[k])
        ELSE Decisions(inst.audit, k) = {}
    BY <1>5 DEF Sound, Recorded
  <2>2. CASE k = id
    <3>1. inst.node \in ApprovalNodes
      BY <1>5, <2>2 DEF ApprovalIds
    <3>2. Decisions(inst.audit, k) = {}
      BY <2>1, <2>2
    <3>3. Decisions(new.audit, k) = Decisions(inst.audit, k) \union {n}
      BY <1>4, <2>2, <3>1
    <3>4. Decisions(new.audit, k) = {n}
      BY <3>2, <3>3
    <3> QED BY <1>3, <2>2, <3>1, <3>4
  <2>3. CASE k # id
    <3>1. Decisions(new.audit, k) = Decisions(inst.audit, k) \union {}
      BY <1>4, <2>3
    <3>2. Decisions(new.audit, k) = Decisions(inst.audit, k)
      BY <3>1
    <3>3. now[k].status = "completed" <=> old[k].status = "completed"
      BY <1>6, <2>3
    <3>4. old[k].status = "completed" => now[k] = old[k]
      BY <1>2, <1>5
    <3> QED BY <1>3, <2>1, <3>2, <3>3, <3>4
  <2> QED BY <2>2, <2>3
<1>8. DecidesTasks(new)
  <2> SUFFICES ASSUME NEW k \in DOMAIN new.audit, IsDecision(new.audit[k])
               PROVE  new.audit[k].task \in DOMAIN now
    BY DEF DecidesTasks
  <2>1. CASE k = n
    BY <1>1, <1>3, <2>1
  <2>2. CASE k \in DOMAIN inst.audit
    BY <1>1, <1>3, <2>2 DEF Sound, DecidesTasks
  <2> QED BY <1>3, <2>1, <2>2
<1>9. Explained(new)
  <2> SUFFICES ASSUME NEW k \in ApprovalIds(new), now[k].status = "closed"
               PROVE  \E m \in DOMAIN new.audit : Explains(new.audit[m], k, now[k])
    BY DEF Explained
  <2>1. k # id
    BY <1>5 DEF ApprovalIds
  <2>2. now[k].node = old[k].node
    BY <1>2, <1>5
  <2>3. CASE old[k].status = "closed"
    <3>1. PICK m \in DOMAIN inst.audit : Explains(inst.audit[m], k, old[k])
      BY <1>5, <2>3 DEF Sound, Explained
    <3>2. m \in DOMAIN new.audit /\ Explains(new.audit[m], k, old[k])
      BY <1>3, <3>1
    <3> QED BY <2>2, <3>2 DEF Explains
  <2>4. CASE Explains(r, k, old[k])
    <3>1. n \in DOMAIN new.audit /\ Explains(new.audit[n], k, old[k])
      BY <1>3, <2>4
    <3> QED BY <2>2, <3>1 DEF Explains
  <2> QED BY <1>6, <2>1, <2>3, <2>4
<1>10. Counted(new)
  <2>1. ASSUME NEW node
        PROVE  /\ Cardinality(DecisionsAt(inst.audit, node)) \in Nat
               /\ Cardinality(Entries(inst.audit, node)) \in Nat
               /\ Cardinality(DecisionsAt(new.audit, node)) =
                    Cardinality(DecisionsAt(inst.audit, node))
                      + (IF IsDecision(r) /\ r.node = node THEN 1 ELSE 0)
               /\ Cardinality(Entries(new.audit, node)) = Cardinality(Entries(inst.audit, node))
    <3>1. LET now2 == Append(inst.audit, r) IN
          /\ Cardinality(DecisionsAt(inst.audit, node)) \in Nat
          /\ Cardinality(Entries(inst.audit, node)) \in Nat
          /\ Cardinality(DecisionsAt(now2, node)) = Cardinality(DecisionsAt(inst.audit, node))
               + (IF IsDecision(r) /\ r.node = node THEN 1 ELSE 0)
          /\ Cardinality(Entries(now2, node)) = Cardinality(Entries(inst.audit, node))
               + (IF r.action = NodeEntered /\ r.node = node THEN 1 ELSE 0)
      BY <1>1, RecordCounts
    <3> QED BY <3>1
  <2>2. Fresh(inst)
    <3>1. id \in ActiveIds(old)
      BY <1>1 DEF ActiveIds
    <3> QED BY <3>1 DEF Sound, Counted
  <2>3. ASSUME NEW node \in OrSigns
        PROVE  Cardinality(DecisionsAt(new.audit, node)) <= Cardinality(Entries(new.audit, node))
    <3>1. Cardinality(DecisionsAt(inst.audit, node)) <= Cardinality(Entries(inst.audit, node))
      BY DEF Sound, Counted
    <3>2. CASE node = inst.node
      <4>1. Cardinality(DecisionsAt(inst.audit, node)) < Cardinality(Entries(inst.audit, node))
        BY <2>2, <3>2 DEF Fresh
      <4> QED BY <2>1, <4>1
    <3>3. CASE node # inst.node
      BY <2>1, <3>1, <3>3
    <3> QED BY <3>2, <3>3
  <2>4. ActiveIds(now) # {} => Fresh(new)
    BY DEF Fresh
  <2> QED BY <2>3, <2>4 DEF Counted
<1> QED
  BY <1>7, <1>8, <1>9, <1>10 DEF Sound

-----------------------------------------------------------------------------
(* approval.go's results. *)

\* The decided task and the others.
LEMMA Decided ==
  ASSUME NEW ids, NEW tasks \in [ids -> Task], NEW id \in ids, NEW outcome
  PROVE  LET decided == Decide(tasks, id, outcome) IN
         /\ DOMAIN decided = ids
         /\ decided[id].status = "completed" /\ decided[id].outcome = outcome
         /\ \A k \in ids \ {id} : decided[k] = tasks[k]
<1> DEFINE done == [tasks[id] EXCEPT !.status = "completed"]
           mid == [tasks EXCEPT ![id] = done]
<1>1. done.status = "completed" /\ [done EXCEPT !.outcome = outcome].outcome = outcome
      /\ [done EXCEPT !.outcome = outcome].status = "completed"
  <2>1. tasks[id] \in Task
    OBVIOUS
  <2> QED BY <2>1 DEF Task
<1>2. Decide(tasks, id, outcome) = [mid EXCEPT ![id] = [mid[id] EXCEPT !.outcome = outcome]]
  BY DEF Decide
<1>3. DOMAIN mid = ids /\ mid[id] = done /\ \A k \in ids \ {id} : mid[k] = tasks[k]
  OBVIOUS
<1> HIDE DEF mid, done
<1> QED
  BY <1>1, <1>2, <1>3

\* The round's other active tasks are closed with it.
LEMMA RestClosed ==
  ASSUME NEW ids, NEW tasks \in [ids -> Task], NEW id \in ids, NEW outcome
  PROVE  LET decided == Decide(tasks, id, outcome)
             closed == CloseTasks(decided, ActiveIds(decided)) IN
         /\ DOMAIN closed = ids
         /\ closed[id].status = "completed" /\ closed[id].outcome = outcome
         /\ \A k \in ids \ {id} :
              \/ closed[k].status = tasks[k].status
              \/ /\ tasks[k].status = "active" /\ closed[k].status = "closed"
                 /\ ActiveIds(decided) # {}
<1> DEFINE decided == Decide(tasks, id, outcome)
           closed == CloseTasks(decided, ActiveIds(decided))
<1>1. /\ DOMAIN decided = ids
      /\ decided[id].status = "completed" /\ decided[id].outcome = outcome
      /\ \A k \in ids \ {id} : decided[k] = tasks[k]
  BY Decided
<1> HIDE DEF decided
<1>2. /\ DOMAIN closed = ids
      /\ \A k \in ids : closed[k] = IF k \in ActiveIds(decided)
                                     THEN [decided[k] EXCEPT !.status = "closed"] ELSE decided[k]
  BY <1>1 DEF CloseTasks
<1>3. ActiveIds(decided) = {k \in ids : decided[k].status = "active"}
  BY <1>1 DEF ActiveIds
<1> HIDE DEF closed
<1>4. closed[id] = decided[id]
  BY <1>1, <1>2, <1>3
<1>5. ASSUME NEW k \in ids \ {id}
      PROVE  \/ closed[k].status = tasks[k].status
             \/ /\ tasks[k].status = "active" /\ closed[k].status = "closed"
                /\ ActiveIds(decided) # {}
  <2>1. CASE k \in ActiveIds(decided)
    <3>1. decided[k] \in Task /\ tasks[k].status = "active"
      BY <1>1, <1>3, <2>1
    <3>2. closed[k].status = "closed"
      BY <1>2, <2>1, <3>1 DEF Task
    <3> QED BY <2>1, <3>1, <3>2
  <2>2. CASE k \notin ActiveIds(decided)
    BY <1>1, <1>2, <2>2
  <2> QED BY <2>1, <2>2
<1> QED
  BY <1>1, <1>2, <1>4, <1>5 DEF closed, decided

\* What handleConfig may return: it knows two commands, completes the task, never
\* lets an or-sign wait, and closes siblings only on a rejection or at an or-sign.
Decides(config, tasks, id, name, result) ==
  /\ name \in {CommandApprove, CommandReject}
  /\ config.mode = ModeAny => result.disposition # "waiting"
  /\ DOMAIN result.tasks = DOMAIN tasks
  /\ result.tasks[id].status = "completed"
  /\ result.tasks[id].outcome =
       IF name = CommandApprove THEN OutcomeApproved ELSE OutcomeRejected
  /\ \A k \in DOMAIN tasks \ {id} :
       \/ result.tasks[k].status = tasks[k].status
       \/ /\ tasks[k].status = "active" /\ result.tasks[k].status = "closed"
          /\ name = CommandReject \/ config.mode = ModeAny

LEMMA HandledTasks ==
  ASSUME NEW config, NEW ids, NEW tasks \in [ids -> Task], NEW id \in ids, NEW name,
         NEW result \in HandleConfig(config, tasks, id, name)
  PROVE  Decides(config, tasks, id, name, result)
<1> DEFINE approved == Decide(tasks, id, OutcomeApproved)
           rejected == Decide(tasks, id, OutcomeRejected)
           onApproval == CloseTasks(approved, ActiveIds(approved))
           onRejection == CloseTasks(rejected, ActiveIds(rejected))
<1>1. /\ DOMAIN approved = ids
      /\ approved[id].status = "completed" /\ approved[id].outcome = OutcomeApproved
      /\ \A k \in ids \ {id} : approved[k] = tasks[k]
  BY Decided
<1>2. /\ DOMAIN onApproval = ids
      /\ onApproval[id].status = "completed" /\ onApproval[id].outcome = OutcomeApproved
      /\ \A k \in ids \ {id} :
           \/ onApproval[k].status = tasks[k].status
           \/ /\ tasks[k].status = "active" /\ onApproval[k].status = "closed"
              /\ ActiveIds(approved) # {}
  BY RestClosed
<1>3. /\ DOMAIN onRejection = ids
      /\ onRejection[id].status = "completed" /\ onRejection[id].outcome = OutcomeRejected
      /\ \A k \in ids \ {id} :
           \/ onRejection[k].status = tasks[k].status
           \/ tasks[k].status = "active" /\ onRejection[k].status = "closed"
  BY RestClosed
<1>4. config.mode \in {ModeAny, ModeAll}
  BY DEF HandleConfig, ValidConfig
<1>5. name \in {CommandApprove, CommandReject} /\ CommandApprove # CommandReject
      /\ ModeAny # ModeAll
  BY DEF HandleConfig, CommandApprove, CommandReject, ModeAny, ModeAll
<1>6. CASE name = CommandApprove /\ AwaitsOthers(config, approved)
  <2>1. result.tasks = approved /\ config.mode = ModeAll
    BY <1>6 DEF HandleConfig, AwaitsOthers
  <2> HIDE DEF approved
  <2> QED BY <1>1, <1>5, <1>6, <2>1 DEF Decides
<1>7. CASE name = CommandApprove /\ ~AwaitsOthers(config, approved)
  <2>1. result.tasks = onApproval /\ result.disposition = "continue"
    BY <1>7 DEF HandleConfig
  <2>2. ActiveIds(approved) # {} => config.mode = ModeAny
    BY <1>4, <1>7 DEF AwaitsOthers
  <2> HIDE DEF approved, onApproval
  <2> QED BY <1>2, <1>5, <1>7, <2>1, <2>2 DEF Decides
<1>8. CASE name = CommandReject
  <2>1. result.tasks = onRejection /\ result.disposition = "reject"
    BY <1>5, <1>8 DEF HandleConfig
  <2> HIDE DEF onRejection
  <2> QED BY <1>3, <1>5, <1>8, <2>1 DEF Decides
<1> QED
  BY <1>5, <1>6, <1>7, <1>8

-----------------------------------------------------------------------------
(* The operations keep candidates sound. *)

\* Disposing of a result adds no decision and no task (nodeResultApplication.apply).
LEMMA DisposeSound ==
  ASSUME NEW cand \in Instance, Sound(cand), NEW result
  PROVE  Sound(Dispose(cand, result))
<1>1. cand.node \in Nodes
  BY DEF Instance
<1>2. CASE Dispose(cand, result) = cand
  BY <1>2
<1>3. CASE Dispose(cand, result) = RejectNode(cand)
  <2> DEFINE r == Record(NodeRejected, cand.node)
  <2>1. r \in AuditRecord /\ r.action = NodeRejected
    BY <1>1, RecordTyped DEF Actions
  <2>2. ~IsDecision(r)
    BY <2>1, DecisionsAreNot
  <2>3. RejectNode(cand) = AppendAudit(cand, r)
    BY DEF RejectNode
  <2> HIDE DEF r
  <2> QED
    BY <1>3, <2>1, <2>2, <2>3, AppendAuditTyped, SoundRecords
<1>4. CASE Dispose(cand, result) = RejectInstance(cand)
  <2> DEFINE r == Record(InstanceRejected, cand.node)
             rejected == [cand EXCEPT !.status = "rejected"]
  <2>1. r \in AuditRecord /\ r.action = InstanceRejected
    BY <1>1, RecordTyped DEF Actions
  <2>2. ~IsDecision(r)
    BY <2>1, DecisionsAreNot
  <2>3. /\ rejected \in Instance /\ rejected.audit = cand.audit
        /\ rejected.node = cand.node /\ rejected.tasks = cand.tasks
    BY DEF Instance, InstanceStatuses
  <2>4. RejectInstance(cand) = AppendAudit(rejected, r)
    BY DEF RejectInstance
  <2> HIDE DEF r, rejected
  <2>5. Sound(rejected)
    BY <2>3, SoundSame
  <2> QED
    BY <1>4, <2>1, <2>2, <2>3, <2>4, <2>5, AppendAuditTyped, SoundRecords
<1> QED
  BY <1>2, <1>3, <1>4 DEF Dispose

\* A node just entered has an entry no decision has used (enterNode).
LEMMA EnterNodeSound ==
  ASSUME NEW inst \in Instance, Sound(inst), NEW node \in Nodes
  PROVE  Sound(EnterNode(inst, node)) /\ Fresh(EnterNode(inst, node))
<1> DEFINE r == Record(NodeEntered, node)
           entered == EnterNode(inst, node)
<1>1. /\ entered.node = node /\ entered.tasks = inst.tasks
      /\ entered.audit = Append(inst.audit, r) /\ r \in AuditRecord
  BY EnterNodeFacts
<1>2. r.action = NodeEntered /\ r.node = node
  BY DEF Record
<1>3. ~IsDecision(r)
  BY <1>2, DecisionsAreNot
<1> HIDE DEF entered, r
<1>4. Sound(entered) /\ Fresh(entered)
  BY <1>1, <1>2, <1>3, SoundRecords
<1> QED
  BY <1>4 DEF entered

\* Handle: at an approval node approval.go decides what changes; any other node's
\* handler touches none of the approval nodes' tasks (engine.go Handle).
LEMMA HandleSound ==
  ASSUME ApprovalsDecide, NEW base \in Instance, Sound(base), Runs(base),
         NEW name \in CommandNames, NEW actor \in Actors, NEW id,
         CommandAllowed(base, id, actor, name),
         NEW result \in HandleResults(base.node, NodeTasks(base.tasks, base.node), id, name),
         IsNodeResult(result), PreparedCommand(base, result)
  PROVE  Sound(ApplyCommand(RecordTaskCommand(base, name, id, actor), result))
<1> DEFINE r == [Record(TaskAction(name), base.node) EXCEPT !.task = id, !.actor = actor]
           rec == RecordTaskCommand(base, name, id, actor)
           cand == ReplaceTasks(rec, result)
           old == base.tasks
           ids == NodeIds(old, base.node)
           view == NodeTasks(old, base.node)
           config == Configs[base.node]
<1>1. /\ old \in Seq(Task) /\ base.node \in Nodes /\ base.audit \in Seq(AuditRecord)
      /\ DOMAIN old = 1..Len(old) /\ Len(old) \in Nat
      /\ \A k \in 1..Len(old) : old[k] \in Task
  BY LenProperties DEF Instance
<1>2. /\ id \in 1..Len(old) /\ id \in ids /\ old[id].node = base.node
      /\ old[id].status = "active" /\ old[id].assignee = actor
  BY <1>1 DEF CommandAllowed, NodeIds
<1>3. /\ r \in AuditRecord /\ r.action = TaskAction(name) /\ r.node = base.node
      /\ r.task = id /\ r.actor = actor
  <2>1. TaskAction(name) \in Actions
    BY DEF Actions
  <2>2. id \in Nat
    BY <1>1, <1>2
  <2> QED
    BY <1>1, <2>1, <2>2, RecordTyped DEF AuditRecord, Record
<1>4. r.action # NodeEntered
  BY <1>3 DEF TaskAction, NodeEntered
<1>5. rec = AppendAudit(base, r)
  BY DEF RecordTaskCommand
<1>6. /\ view \in [ids -> Task] /\ \A k \in ids : view[k] = old[k]
  BY <1>1 DEF NodeTasks, NodeIds
<1> HIDE DEF r, rec, view
<1>7. /\ rec \in Instance /\ rec.audit = Append(base.audit, r)
      /\ rec.status = base.status /\ rec.node = base.node /\ rec.tasks = old
  BY <1>3, <1>5, AppendAuditTyped
<1>8. Settled(rec) /\ PreparedCommand(rec, result)
  BY <1>7 DEF Runs, Settled, PreparedCommand, ValidReplacements
<1>9. /\ cand \in Instance /\ cand.audit = rec.audit /\ cand.node = rec.node
      /\ TasksForward(old, cand.tasks)
      /\ ActiveIds(cand.tasks) # {} <=> result.disposition = "waiting"
  BY <1>7, <1>8, ReplaceTasksForward
<1>10. DOMAIN result.tasks = ids
  BY DEF PreparedCommand, ValidReplacements
<1>11. /\ DOMAIN cand.tasks = 1..Len(old)
       /\ \A k \in 1..Len(old) : cand.tasks[k] = IF k \in ids THEN result.tasks[k] ELSE old[k]
  <2>1. cand.tasks = [k \in DOMAIN old |-> IF k \in ids THEN result.tasks[k] ELSE old[k]]
    BY <1>7, <1>10 DEF ReplaceTasks, Instance
  <2> HIDE DEF cand
  <2> QED BY <1>1, <2>1
<1>12. ApplyCommand(rec, result) = Dispose(cand, result)
  BY DEF ApplyCommand
<1> HIDE DEF cand
<1>13. Len(cand.tasks) = Len(old)
  <2>1. cand.tasks \in Seq(Task)
    BY <1>9 DEF Instance
  <2> QED BY <1>1, <1>11, <2>1, LenProperties
<1>14. \A k \in 1..Len(old) : old[k].node # base.node => cand.tasks[k] = old[k]
  BY <1>11 DEF NodeIds
<1>15. ASSUME base.node \in ApprovalNodes
       PROVE  Decides(config, view, id, name, result)
  <2>1. result \in HandleConfig(config, view, id, name)
    BY <1>15 DEF ApprovalsDecide, view
  <2> HIDE DEF config, ids
  <2> QED BY <1>2, <1>6, <2>1, HandledTasks
<1>15a. DOMAIN view = ids
  BY <1>6
<1>16. base.node \in OrSigns => ActiveIds(cand.tasks) = {}
  BY <1>9, <1>15 DEF OrSigns, Decides
<1>17. ASSUME base.node \in ApprovalNodes
       PROVE  /\ IsDecision(r) /\ Says(r, cand.tasks[id])
              /\ cand.tasks[id].status = "completed"
  <2>1. cand.tasks[id] = result.tasks[id]
    BY <1>2, <1>11
  <2>2. IsDecision(r)
    BY <1>3, <1>15, <1>17 DEF IsDecision, Decides
  <2>3. cand.tasks[id].node = base.node /\ cand.tasks[id].assignee = actor
    <3>1. ValidReplacement(old[id], cand.tasks[id])
      BY <1>1, <1>2, <1>9 DEF TasksForward
    <3> QED BY <1>2, <3>1 DEF ValidReplacement
  <2>4. CommandApprove # CommandReject
    BY DEF CommandApprove, CommandReject
  <2> QED
    BY <1>3, <1>15, <1>17, <2>1, <2>2, <2>3, <2>4 DEF Says, Decides
<1>18. ASSUME base.node \in ApprovalNodes, NEW k \in 1..Len(old) \ {id}
       PROVE  \/ cand.tasks[k].status = old[k].status
              \/ /\ old[k].status = "active" /\ cand.tasks[k].status = "closed"
                 /\ old[k].node = base.node => Explains(r, k, old[k])
  <2>1. CASE k \notin ids
    BY <1>11, <2>1
  <2>2. CASE k \in ids
    <3>1. cand.tasks[k] = result.tasks[k] /\ view[k] = old[k]
      BY <1>6, <1>11, <2>2
    <3>2. CASE cand.tasks[k].status = old[k].status
      BY <3>2
    <3>3. CASE /\ old[k].status = "active" /\ cand.tasks[k].status = "closed"
               /\ name = CommandReject \/ config.mode = ModeAny
      <4>1. name \in {CommandApprove, CommandReject}
        BY <1>15, <1>18 DEF Decides
      <4>2. ASSUME old[k].node = base.node PROVE Explains(r, k, old[k])
        BY <1>3, <1>18, <3>3, <4>1, <4>2 DEF Explains, OrSigns
      <4> QED BY <3>3, <4>2
    <3>4. \/ result.tasks[k].status = view[k].status
          \/ /\ view[k].status = "active" /\ result.tasks[k].status = "closed"
             /\ name = CommandReject \/ config.mode = ModeAny
      BY <1>15, <1>15a, <1>18, <2>2 DEF Decides
    <3> QED BY <3>1, <3>2, <3>3, <3>4
  <2> QED BY <2>1, <2>2
<1>19. Sound(cand)
  <2> HIDE DEF old, ids, config
  <2>1. /\ Len(cand.tasks) = Len(base.tasks) /\ TasksForward(base.tasks, cand.tasks)
        /\ id \in 1..Len(base.tasks) /\ base.tasks[id].node = base.node
        /\ base.tasks[id].status = "active"
        /\ \A k \in 1..Len(base.tasks) :
             base.tasks[k].node # base.node => cand.tasks[k] = base.tasks[k]
    BY <1>2, <1>9, <1>13, <1>14 DEF old
  <2>2. base.node \in ApprovalNodes =>
          /\ IsDecision(r) /\ Says(r, cand.tasks[id]) /\ cand.tasks[id].status = "completed"
          /\ \A k \in 1..Len(base.tasks) \ {id} :
               \/ cand.tasks[k].status = base.tasks[k].status
               \/ /\ base.tasks[k].status = "active" /\ cand.tasks[k].status = "closed"
                  /\ base.tasks[k].node = base.node => Explains(r, k, base.tasks[k])
    BY <1>17, <1>18 DEF old
  <2>3. cand \in Instance /\ cand.audit = Append(base.audit, r) /\ cand.node = base.node
    BY <1>7, <1>9
  <2> QED
    BY <1>3, <1>4, <1>16, <2>1, <2>2, <2>3, SoundDecides
<1>20. Sound(Dispose(cand, result))
  BY <1>9, <1>19, DisposeSound
<1> QED
  BY <1>12, <1>20 DEF rec

\* Closing tasks touches their status alone.
LEMMA ClosedStatus ==
  ASSUME NEW tasks \in Seq(Task), NEW ids, NEW k \in 1..Len(tasks)
  PROVE  CloseTasks(tasks, ids)[k].status = IF k \in ids THEN "closed" ELSE tasks[k].status
<1>1. k \in DOMAIN tasks /\ tasks[k] \in Task
  BY LenProperties
<1> QED
  BY <1>1 DEF CloseTasks, Task

\* A withdrawal is the reason for all it closes.
LEMMA WithdrawSound ==
  ASSUME NEW base \in Instance, Sound(base), Runs(base), NEW actor \in Actors
  PROVE  Sound(Withdrawn(RecordWithdrawal(base, actor)))
<1> DEFINE r == [Record(InstanceWithdrawn, base.node) EXCEPT !.actor = actor]
           rec == RecordWithdrawal(base, actor)
           active == ActiveIds(base.tasks)
           closed == CloseTasks(base.tasks, active)
           cand == Withdrawn(rec)
           n == Len(base.audit) + 1
<1>1. /\ base.tasks \in Seq(Task) /\ base.node \in Nodes /\ base.audit \in Seq(AuditRecord)
      /\ DOMAIN base.tasks = 1..Len(base.tasks) /\ Len(base.tasks) \in Nat
  BY LenProperties DEF Instance
<1>2. r \in AuditRecord /\ r.action = InstanceWithdrawn /\ r.node = base.node
  <2>1. InstanceWithdrawn \in Actions
    BY DEF Actions
  <2> QED
    BY <1>1, <2>1, RecordTyped DEF AuditRecord, Record
<1>3. ~IsDecision(r)
  BY <1>2, DecisionsAreNot
<1>4. rec = AppendAudit(base, r)
  BY DEF RecordWithdrawal
<1> HIDE DEF r, rec
<1>5. /\ rec \in Instance /\ rec.audit = Append(base.audit, r)
      /\ rec.node = base.node /\ rec.tasks = base.tasks
  BY <1>2, <1>4, AppendAuditTyped
<1>6. Sound(rec)
  BY <1>2, <1>3, <1>5, SoundRecords
<1>7. n \in DOMAIN rec.audit /\ rec.audit[n] = r
  BY <1>1, <1>2, <1>5, RecordAdds
<1>8. /\ closed \in Seq(Task) /\ Len(closed) = Len(base.tasks)
      /\ TasksForward(base.tasks, closed) /\ ActiveIds(closed) = {}
  BY <1>1, CloseTasksForward
<1>9. \A k \in 1..Len(base.tasks) :
        closed[k].status = IF k \in active THEN "closed" ELSE base.tasks[k].status
  BY <1>1, ClosedStatus
<1>10. cand = [rec EXCEPT !.status = "withdrawn", !.tasks = closed]
  BY <1>5 DEF Withdrawn
<1> HIDE DEF closed, cand, n
<1>11. /\ cand \in Instance /\ cand.tasks = closed
       /\ cand.audit = rec.audit /\ cand.node = rec.node
  BY <1>5, <1>8, <1>10 DEF Instance, InstanceStatuses
<1>12. \A k \in active : Explains(rec.audit[n], k, rec.tasks[k])
  BY <1>2, <1>5, <1>7 DEF Explains, Runs, Settled
<1>13. ASSUME NEW k \in 1..Len(rec.tasks)
       PROVE  \/ cand.tasks[k].status = rec.tasks[k].status
              \/ /\ rec.tasks[k].status = "active" /\ cand.tasks[k].status = "closed"
                 /\ \E j \in DOMAIN rec.audit : Explains(rec.audit[j], k, rec.tasks[k])
  BY <1>5, <1>7, <1>9, <1>11, <1>12 DEF ActiveIds
<1>14. \A k \in Len(rec.tasks)+1 .. Len(cand.tasks) : cand.tasks[k].status = "active"
  BY <1>1, <1>5, <1>8, <1>11
<1>15. Sound(cand)
  BY <1>5, <1>6, <1>8, <1>11, <1>13, <1>14, SoundMoves
<1> QED
  BY <1>15 DEF cand, rec

\* A transfer is the reason for the one task it closes; the round it happens in is
\* still undecided where that matters.
LEMMA TransferSound ==
  ASSUME NEW base \in Instance, Sound(base), NEW actor \in Actors, NEW newAssignee \in Actors,
         NEW id, TransferAllowed(base, id)
  PROVE  Sound(Transferred(RecordTransfer(base, id, actor, newAssignee), id, newAssignee))
<1> DEFINE r == [Record(TaskTransferred, base.tasks[id].node) EXCEPT
                   !.task = id, !.actor = actor, !.assignee = newAssignee]
           rec == RecordTransfer(base, id, actor, newAssignee)
           closed == CloseTasks(base.tasks, {id})
           task == [node |-> base.tasks[id].node, assignee |-> newAssignee,
                    status |-> "active", outcome |-> Empty]
           after == Append(closed, task)
           cand == Transferred(rec, id, newAssignee)
           n == Len(base.audit) + 1
<1>1. /\ base.tasks \in Seq(Task) /\ base.node \in Nodes /\ base.audit \in Seq(AuditRecord)
      /\ DOMAIN base.tasks = 1..Len(base.tasks) /\ Len(base.tasks) \in Nat
  BY LenProperties DEF Instance
<1>2. /\ id \in 1..Len(base.tasks) /\ id \in ActiveIds(base.tasks)
      /\ base.tasks[id].node = base.node /\ base.tasks[id].status = "active"
  BY <1>1 DEF TransferAllowed, NodeIds, ActiveIds
<1>3. base.tasks[id] \in Task
  BY <1>1, <1>2
<1>4. /\ r \in AuditRecord /\ r.action = TaskTransferred
      /\ r.node = base.tasks[id].node /\ r.task = id
  <2>1. TaskTransferred \in Actions
    BY DEF Actions
  <2>2. id \in Nat /\ base.tasks[id].node \in Nodes
    BY <1>1, <1>2
  <2> QED
    BY <1>1, <2>1, <2>2, RecordTyped DEF AuditRecord, Record
<1>5. ~IsDecision(r)
  BY <1>4, DecisionsAreNot
<1>6. rec = AppendAudit(base, r)
  BY DEF RecordTransfer
<1>7. task \in Task /\ task.status = "active"
  BY <1>3 DEF Task, TaskStatuses
<1> HIDE DEF r, rec, task
<1>8. /\ rec \in Instance /\ rec.audit = Append(base.audit, r)
      /\ rec.node = base.node /\ rec.tasks = base.tasks
  BY <1>4, <1>6, AppendAuditTyped
<1>9. Fresh(base)
  BY <1>2 DEF Sound, Counted
<1>10. Sound(rec) /\ Fresh(rec)
  BY <1>4, <1>5, <1>8, <1>9, SoundRecords
<1>11. n \in DOMAIN rec.audit /\ rec.audit[n] = r
  BY <1>1, <1>4, <1>8, RecordAdds
<1>12. /\ closed \in Seq(Task) /\ Len(closed) = Len(base.tasks)
       /\ TasksForward(base.tasks, closed)
  <2>1. {id} \in SUBSET ActiveIds(base.tasks)
    BY <1>2
  <2> QED
    BY <1>1, <2>1, CloseTasksForward
<1>13. \A k \in 1..Len(base.tasks) :
         closed[k].status = IF k = id THEN "closed" ELSE base.tasks[k].status
  BY <1>1, ClosedStatus
<1> HIDE DEF closed, n
<1>14. /\ after \in Seq(Task) /\ Len(after) = Len(closed) + 1
       /\ \A k \in 1..Len(closed) : after[k] = closed[k]
       /\ after[Len(closed) + 1] = task
  BY <1>7, <1>12, AppendProperties
<1> HIDE DEF after
<1>15. TasksForward(base.tasks, after)
  <2>1. Len(closed) <= Len(after)
    BY <1>1, <1>12, <1>14
  <2> QED
    BY <1>1, <1>12, <1>14, <2>1, ForwardExtends
<1>16. cand = [rec EXCEPT !.tasks = after]
  BY <1>8 DEF Transferred, after, closed, task
<1> HIDE DEF cand
<1>17. /\ cand \in Instance /\ cand.tasks = after
       /\ cand.audit = rec.audit /\ cand.node = rec.node
  BY <1>8, <1>14, <1>16 DEF Instance
<1>18. Explains(rec.audit[n], id, rec.tasks[id])
  BY <1>4, <1>8, <1>11 DEF Explains
<1>19. ASSUME NEW k \in 1..Len(rec.tasks)
       PROVE  \/ cand.tasks[k].status = rec.tasks[k].status
              \/ /\ rec.tasks[k].status = "active" /\ cand.tasks[k].status = "closed"
                 /\ \E j \in DOMAIN rec.audit : Explains(rec.audit[j], k, rec.tasks[k])
  <2>1. cand.tasks[k] = closed[k] /\ k \in 1..Len(base.tasks)
    BY <1>8, <1>12, <1>14, <1>17
  <2> QED
    BY <1>2, <1>8, <1>11, <1>13, <1>18, <2>1
<1>20. \A k \in Len(rec.tasks)+1 .. Len(cand.tasks) : cand.tasks[k].status = "active"
  BY <1>1, <1>7, <1>8, <1>12, <1>14, <1>17
<1>21. Sound(cand)
  BY <1>8, <1>10, <1>15, <1>17, <1>19, <1>20, SoundMoves
<1> QED
  BY <1>21 DEF cand, rec

\* A return is the reason for the round it closes, and the round it opens is fresh.
LEMMA ReturnSound ==
  ASSUME NEW base \in Instance, Sound(base), Runs(base), NEW actor \in Actors,
         NEW target, ReturnAllowed(base, target),
         NEW result, IsNodeResult(result), PreparedReturn(result)
  PROVE  Sound(ReturnTo(RecordReturn(base, target, actor), target, result))
<1> DEFINE r == [Record(InstanceReturned, base.node) EXCEPT
                   !.target = target, !.actor = actor, !.state = base.state]
           rec == RecordReturn(base, target, actor)
           source == ActiveIds(base.tasks) \intersect NodeIds(base.tasks, base.node)
           closed == CloseTasks(base.tasks, source)
           entered == EnterNode(rec, target)
           after == ActivateTasks(closed, target, result.tasks)
           cand == ReturnTo(rec, target, result)
           n == Len(base.audit) + 1
<1>1. /\ base.tasks \in Seq(Task) /\ base.node \in Nodes /\ base.audit \in Seq(AuditRecord)
      /\ DOMAIN base.tasks = 1..Len(base.tasks) /\ Len(base.tasks) \in Nat
      /\ base.state \in States \union {Empty}
  BY LenProperties DEF Instance
<1>2. target \in BusinessNodes /\ target \in Nodes
  BY DEF ReturnAllowed, BusinessNodes
<1>3. r \in AuditRecord /\ r.action = InstanceReturned /\ r.node = base.node
  <2>1. InstanceReturned \in Actions
    BY DEF Actions
  <2> QED
    BY <1>1, <1>2, <2>1, RecordTyped DEF AuditRecord, Record
<1>4. ~IsDecision(r)
  BY <1>3, DecisionsAreNot
<1>5. rec = AppendAudit(base, r)
  BY DEF RecordReturn
<1> HIDE DEF r, rec
<1>6. /\ rec \in Instance /\ rec.audit = Append(base.audit, r)
      /\ rec.node = base.node /\ rec.tasks = base.tasks
  BY <1>3, <1>5, AppendAuditTyped
<1>7. Sound(rec)
  BY <1>3, <1>4, <1>6, SoundRecords
<1>8. n \in DOMAIN rec.audit /\ rec.audit[n] = r
  BY <1>1, <1>3, <1>6, RecordAdds
<1>9. /\ entered \in Instance /\ entered.node = target /\ entered.tasks = base.tasks
      /\ entered.audit = Append(rec.audit, Record(NodeEntered, target))
      /\ Record(NodeEntered, target) \in AuditRecord
  BY <1>2, <1>6, EnterNodeFacts
<1>10. Sound(entered) /\ Fresh(entered)
  BY <1>2, <1>6, <1>7, EnterNodeSound
<1>11. n \in DOMAIN entered.audit /\ entered.audit[n] = r
  <2>1. rec.audit \in Seq(AuditRecord)
    BY <1>6 DEF Instance
  <2> HIDE DEF n
  <2> QED BY <1>8, <1>9, <2>1, RecordAdds
<1>12. source = ActiveIds(base.tasks)
  BY DEF Runs, Settled, ActiveIds, NodeIds
<1>13. /\ closed \in Seq(Task) /\ Len(closed) = Len(base.tasks)
       /\ TasksForward(base.tasks, closed)
  <2> HIDE DEF source
  <2> QED BY <1>1, <1>12, CloseTasksForward
<1>14. \A k \in 1..Len(base.tasks) :
         closed[k].status = IF k \in source THEN "closed" ELSE base.tasks[k].status
  BY <1>1, ClosedStatus
<1>15. ValidDrafts(result.tasks) /\ result.state \in States \union {Empty}
  BY DEF PreparedReturn, ValidResultFields, IsNodeResult
<1>16. cand = [entered EXCEPT !.state = result.state, !.tasks = after]
  BY <1>6 DEF ReturnTo
<1> HIDE DEF source, closed, entered, cand, n
<1>17. /\ after \in Seq(Task) /\ Len(after) = Len(closed) + Len(result.tasks)
       /\ Len(result.tasks) \in Nat
       /\ \A k \in 1..Len(closed) : after[k] = closed[k]
       /\ \A k \in Len(closed)+1 .. Len(after) : after[k].status = "active"
  <2> DEFINE drafts == result.tasks
  <2>1. ValidDrafts(drafts)
    BY <1>15
  <2> HIDE DEF drafts
  <2>2. LET new == ActivateTasks(closed, target, drafts) IN
        /\ new \in Seq(Task)
        /\ Len(new) = Len(closed) + Len(drafts)
        /\ Len(drafts) \in Nat
        /\ \A k \in 1..Len(closed) : new[k] = closed[k]
        /\ \A k \in Len(closed)+1 .. Len(new) : new[k].status = "active" /\ new[k].node = target
    BY <1>2, <1>13, <2>1, ActivateTasksExtends
  <2> QED
    BY <2>2 DEF drafts
<1> HIDE DEF after
<1>18. TasksForward(base.tasks, after)
  <2> DEFINE more == Len(result.tasks)
             size == Len(closed)
  <2>1. size \in Nat /\ more \in Nat /\ Len(after) = size + more
    BY <1>1, <1>13, <1>17
  <2> HIDE DEF more, size
  <2>2. size <= Len(after)
    BY <2>1
  <2> QED
    BY <1>1, <1>13, <1>17, <2>2, ForwardExtends DEF size
<1>19. /\ cand \in Instance /\ cand.tasks = after
       /\ cand.audit = entered.audit /\ cand.node = entered.node
  BY <1>9, <1>15, <1>16, <1>17 DEF Instance
<1>20. \A k \in source : Explains(entered.audit[n], k, entered.tasks[k])
  BY <1>3, <1>9, <1>11, <1>12 DEF Explains, Runs, Settled
<1>21. ASSUME NEW k \in 1..Len(entered.tasks)
       PROVE  \/ cand.tasks[k].status = entered.tasks[k].status
              \/ /\ entered.tasks[k].status = "active" /\ cand.tasks[k].status = "closed"
                 /\ \E j \in DOMAIN entered.audit : Explains(entered.audit[j], k, entered.tasks[k])
  <2>1. cand.tasks[k] = closed[k] /\ k \in 1..Len(base.tasks)
    BY <1>9, <1>13, <1>17, <1>19
  <2>2. k \in source => entered.tasks[k].status = "active"
    BY <1>9, <1>12 DEF ActiveIds
  <2> QED
    BY <1>9, <1>11, <1>14, <1>20, <2>1, <2>2
<1>22. \A k \in Len(entered.tasks)+1 .. Len(cand.tasks) : cand.tasks[k].status = "active"
  BY <1>9, <1>13, <1>17, <1>19
<1>23. Sound(cand)
  BY <1>9, <1>10, <1>18, <1>19, <1>21, <1>22, SoundMoves
<1> QED
  BY <1>23 DEF cand, rec

\* Reaching an end decides nothing.
LEMMA ReachEndSound ==
  ASSUME NEW cand \in Instance, Sound(cand), NEW node \in Nodes
  PROVE  Sound(Complete(EnterNode(cand, node)))
<1> DEFINE entered == EnterNode(cand, node)
           done == [entered EXCEPT !.status = "completed"]
           r == Record(InstanceCompleted, entered.node)
<1>1. entered \in Instance /\ Sound(entered)
  BY EnterNodeSound, EnterNodeFacts
<1>2. Complete(entered) = AppendAudit(done, r)
  BY DEF Complete
<1> HIDE DEF entered
<1>3. r \in AuditRecord /\ r.action = InstanceCompleted
  <2>1. InstanceCompleted \in Actions /\ entered.node \in Nodes
    BY <1>1 DEF Actions, Instance
  <2> QED
    BY <2>1, RecordTyped
<1>4. ~IsDecision(r)
  BY <1>3, DecisionsAreNot
<1>5. /\ done \in Instance /\ done.node = entered.node /\ done.audit = entered.audit
      /\ done.tasks = entered.tasks
  BY <1>1 DEF Instance, InstanceStatuses
<1> HIDE DEF done, r
<1>6. Sound(done)
  BY <1>1, <1>5, SoundSame
<1>7. Sound(Complete(entered))
  BY <1>2, <1>3, <1>4, <1>5, <1>6, AppendAuditTyped, SoundRecords
<1> QED
  BY <1>7 DEF entered

\* A node's first round is opened where its entry is fresh.
LEMMA EnterBusinessNodeSound ==
  ASSUME NEW cand \in Instance, Sound(cand), NEW node \in BusinessNodes,
         NEW result, IsNodeResult(result), PreparedActivation(result)
  PROVE  Sound(ApplyActivation(EnterNode(cand, node), result))
<1> DEFINE entered == EnterNode(cand, node)
           drafts == result.tasks
           after == ActivateTasks(entered.tasks, node, drafts)
           new == [entered EXCEPT !.tasks = after, !.state = result.state]
<1>1. node \in Nodes
  BY DEF BusinessNodes
<1>2. /\ entered \in Instance /\ entered.node = node
      /\ Sound(entered) /\ Fresh(entered)
  BY <1>1, EnterNodeSound, EnterNodeFacts
<1>3. ApplyActivation(entered, result) = Dispose(new, result)
  BY <1>2 DEF ApplyActivation
<1> HIDE DEF entered
<1>4. /\ ValidDrafts(drafts) /\ result.state \in States \union {Empty}
      /\ entered.tasks \in Seq(Task) /\ Len(entered.tasks) \in Nat
      /\ DOMAIN entered.tasks = 1..Len(entered.tasks)
  BY <1>2, LenProperties DEF Instance, PreparedActivation, ValidResultFields, IsNodeResult
<1> HIDE DEF drafts
<1>5. /\ after \in Seq(Task) /\ Len(after) = Len(entered.tasks) + Len(drafts)
      /\ Len(drafts) \in Nat
      /\ \A k \in 1..Len(entered.tasks) : after[k] = entered.tasks[k]
      /\ \A k \in Len(entered.tasks)+1 .. Len(after) : after[k].status = "active"
  BY <1>4, ActivateTasksExtends
<1> HIDE DEF after
<1>6. TasksForward(entered.tasks, after)
  <2>1. Len(entered.tasks) <= Len(after)
    BY <1>4, <1>5
  <2> QED
    BY <1>4, <1>5, <2>1, ForwardExtends, ForwardReflexive
<1>7. /\ new \in Instance /\ new.tasks = after
      /\ new.audit = entered.audit /\ new.node = entered.node
  BY <1>2, <1>4, <1>5 DEF Instance
<1> HIDE DEF new
<1>8. Sound(new)
  BY <1>2, <1>5, <1>6, <1>7, SoundMoves
<1>9. Sound(Dispose(new, result))
  BY <1>7, <1>8, DisposeSound
<1> QED
  BY <1>3, <1>9 DEF entered

\* A new instance has neither tasks nor decisions nor entries.
LEMMA StartedSound ==
  ASSUME NEW initiator
  PROVE  Sound(Started(initiator))
<1> DEFINE r == [Record(InstanceStarted, StartNode) EXCEPT !.actor = initiator]
           inst == Started(initiator)
<1>1. r.action = InstanceStarted
  BY DEF Record
<1> HIDE DEF r
<1>2. inst.tasks = << >> /\ inst.audit = <<r>>
  BY DEF Started, r
<1> HIDE DEF inst
<1>3. \A k \in DOMAIN inst.audit : inst.audit[k].action = InstanceStarted
  BY <1>1, <1>2
<1>4. /\ \A k \in DOMAIN inst.audit : ~IsDecision(inst.audit[k])
      /\ \A k \in DOMAIN inst.audit : inst.audit[k].action # NodeEntered
  BY <1>3, DecisionsAreNot DEF InstanceStarted, NodeEntered
<1>5. \A node : DecisionsAt(inst.audit, node) = {} /\ Entries(inst.audit, node) = {}
  BY <1>4 DEF DecisionsAt, Entries
<1>6. ActiveIds(inst.tasks) = {} /\ ApprovalIds(inst) = {}
  BY <1>2 DEF ActiveIds, ApprovalIds
<1>7. Counted(inst)
  BY <1>5, <1>6, FS_EmptySet DEF Counted
<1>8. Sound(inst)
  BY <1>4, <1>6, <1>7 DEF Sound, Recorded, DecidesTasks, Explained
<1> QED
  BY <1>8 DEF inst

-----------------------------------------------------------------------------
(* The invariant. *)

\* A step of one call that leaves the durable instance alone.
LEMMA OneCallSound ==
  ASSUME IInv, ApprovalInv, NEW c \in Clients, NEW call,
         call.base # NoInstance => Sound(call.base),
         call.pc \in {"advance", "save"} => Sound(call.cand),
         client' = [client EXCEPT ![c] = call], UNCHANGED store
  PROVE  ApprovalInv'
<1>1. client \in [Clients -> Call]
  BY DEF IInv, TypeOK
<1>2. \A d \in Clients : client'[d] = IF d = c THEN call ELSE client[d]
  BY <1>1
<1> QED
  BY <1>2 DEF ApprovalInv

\* A call that ends, having changed the durable instance to a sound one or not at all.
LEMMA EndSound ==
  ASSUME IInv, ApprovalInv, NEW c \in Clients, client' = [client EXCEPT ![c] = Idle],
         store' # NoInstance => Sound(store')
  PROVE  ApprovalInv'
<1>1. client \in [Clients -> Call]
  BY DEF IInv, TypeOK
<1>2. \A d \in Clients : client'[d] = IF d = c THEN Idle ELSE client[d]
  BY <1>1
<1> QED
  BY <1>2, IdleIsLegal, CallFields DEF ApprovalInv

\* One step per operation on a loaded snapshot.
LEMMA OperateSound ==
  ASSUME ApprovalsDecide, IInv, ApprovalInv, NEW c \in Clients, Operate(c)
  PROVE  ApprovalInv'
<1> DEFINE base == client[c].base
<1>1. base \in Instance /\ base # NoInstance /\ Runs(base)
  BY LoadedCall DEF Operate
<1>2. Sound(base)
  BY <1>1 DEF ApprovalInv
<1>3. ASSUME NEW actor \in Actors, NEW id \in DOMAIN base.tasks, NEW name \in CommandNames,
             CommandAllowed(base, id, actor, name),
             NEW result \in HandleResults(base.node, NodeTasks(base.tasks, base.node), id, name),
             Handle(c, id, actor, name, result)
      PROVE  ApprovalInv'
  <2> DEFINE cand == ApplyCommand(RecordTaskCommand(base, name, id, actor), result)
             call == AfterResult(base, cand, result)
  <2>1. Sound(cand)
    BY <1>1, <1>2, <1>3, HandleSound DEF Handle
  <2>2. client' = [client EXCEPT ![c] = call] /\ UNCHANGED store
    BY <1>3 DEF Handle
  <2>3. call.base = base /\ call.cand = cand
    BY CallFields
  <2> HIDE DEF cand, call
  <2> QED
    BY <1>2, <2>1, <2>2, <2>3, OneCallSound
<1>4. ASSUME NEW actor \in Operators, Withdraw(c, actor)
      PROVE  ApprovalInv'
  <2> DEFINE cand == Withdrawn(RecordWithdrawal(base, actor))
             call == Saving(base, cand)
  <2>1. Sound(cand)
    BY <1>1, <1>2, ActorAssumption, WithdrawSound
  <2>2. client' = [client EXCEPT ![c] = call] /\ UNCHANGED store
    BY <1>4 DEF Withdraw
  <2>3. call.base = base /\ call.cand = cand
    BY CallFields
  <2> HIDE DEF cand, call
  <2> QED
    BY <1>2, <2>1, <2>2, <2>3, OneCallSound
<1>5. ASSUME NEW actor \in Operators, NEW id \in DOMAIN base.tasks, NEW newAssignee \in Actors,
             Transfer(c, actor, id, newAssignee)
      PROVE  ApprovalInv'
  <2> DEFINE cand == Transferred(RecordTransfer(base, id, actor, newAssignee), id, newAssignee)
             call == Saving(base, cand)
  <2>1. Sound(cand)
    BY <1>1, <1>2, <1>5, ActorAssumption, TransferSound DEF Transfer
  <2>2. client' = [client EXCEPT ![c] = call] /\ UNCHANGED store
    BY <1>5 DEF Transfer
  <2>3. call.base = base /\ call.cand = cand
    BY CallFields
  <2> HIDE DEF cand, call
  <2> QED
    BY <1>2, <2>1, <2>2, <2>3, OneCallSound
<1>6. ASSUME NEW actor \in Operators, NEW target \in BusinessNodes, NEW result,
             Return(c, actor, target, result)
      PROVE  ApprovalInv'
  <2> DEFINE cand == ReturnTo(RecordReturn(base, target, actor), target, result)
             call == Saving(base, cand)
  <2>1. Sound(cand)
    BY <1>1, <1>2, <1>6, ActorAssumption, ReturnSound DEF Return
  <2>2. client' = [client EXCEPT ![c] = call] /\ UNCHANGED store
    BY <1>6 DEF Return
  <2>3. call.base = base /\ call.cand = cand
    BY CallFields
  <2> HIDE DEF cand, call
  <2> QED
    BY <1>2, <2>1, <2>2, <2>3, OneCallSound
<1> QED
  BY <1>3, <1>4, <1>5, <1>6 DEF Operate

\* One step per disjunct of the advance loop.
LEMMA AdvanceSound ==
  ASSUME IInv, ApprovalInv, NEW c \in Clients, Advance(c)
  PROVE  ApprovalInv'
<1> DEFINE base == client[c].base
           old == client[c].cand
           node == NextNode(old, client[c].outcome)
<1>1. old \in Instance /\ client[c].outcome \in Outcomes \union {Empty}
  BY RoutedCall DEF Advance, ReachEnd, IInv, TypeOK, Call
<1>2. Sound(old) /\ (base # NoInstance => Sound(base))
  BY DEF ApprovalInv, Advance, ReachEnd
<1>3. CASE ReachEnd(c)
  <2> DEFINE cand == Complete(EnterNode(old, node))
             call == Saving(base, cand)
  <2>1. node \in Nodes /\ HasRoute(old, client[c].outcome)
    BY <1>3, PlanAssumption DEF ReachEnd
  <2>2. Sound(cand)
    BY <1>1, <1>2, <2>1, ReachEndSound
  <2>3. client' = [client EXCEPT ![c] = call] /\ UNCHANGED store
    BY <1>3 DEF ReachEnd
  <2>4. call.base = base /\ call.cand = cand
    BY CallFields
  <2> HIDE DEF cand, call
  <2> QED
    BY <1>2, <2>2, <2>3, <2>4, OneCallSound
<1>4. ASSUME NEW result, EnterBusinessNode(c, result)
      PROVE  ApprovalInv'
  <2> DEFINE cand == ApplyActivation(EnterNode(old, node), result)
             call == AfterResult(base, cand, result)
  <2>1. /\ node \in BusinessNodes /\ HasRoute(old, client[c].outcome)
        /\ IsNodeResult(result) /\ PreparedActivation(result)
    BY <1>4 DEF EnterBusinessNode
  <2>2. Sound(cand)
    BY <1>1, <1>2, <2>1, EnterBusinessNodeSound
  <2>3. client' = [client EXCEPT ![c] = call] /\ UNCHANGED store
    BY <1>4 DEF EnterBusinessNode
  <2>4. call.base = base /\ call.cand = cand
    BY CallFields
  <2> HIDE DEF cand, call
  <2> QED
    BY <1>2, <2>2, <2>3, <2>4, OneCallSound
<1> QED
  BY <1>3, <1>4 DEF Advance

\* What a commit makes durable is sound: the version is all it adds to the candidate.
LEMMA FinishSound ==
  ASSUME IInv, ApprovalInv, NEW c \in Clients, Finish(c)
  PROVE  ApprovalInv'
<1>1. client' = [client EXCEPT ![c] = Idle]
  BY DEF Finish, Create, Commit, Fail
<1>2. CASE store' = store
  BY <1>1, <1>2, EndSound DEF ApprovalInv
<1>3. CASE store' # store
  <2>1. client[c].pc = "save" /\ Sound(client[c].cand)
    BY <1>3 DEF Finish, Create, Commit, Fail, ApprovalInv
  <2>2. CASE Create(c)
    BY <1>1, <1>3, <2>1, <2>2, CreateStores, EndSound
  <2>3. CASE Commit(c)
    <3>1. CanAdvanceVersion(client[c].cand) /\ store' = AdvanceVersion(client[c].cand)
      BY <1>3, <2>3 DEF Commit
    <3>2. client[c].cand \in Instance
      BY <2>1 DEF IInv, TypeOK, Call, CallInv
    <3>3. Sound(store')
      BY <2>1, <3>1, <3>2, CommittedFacts, SoundSame
    <3> QED
      BY <1>1, <3>3, EndSound
  <2> QED
    BY <1>3, <2>2, <2>3 DEF Finish, Fail
<1> QED
  BY <1>2, <1>3

\* Every step of any call keeps everything sound.
LEMMA NextSound ==
  ASSUME ApprovalsDecide, IInv, ApprovalInv, [Next]_vars
  PROVE  ApprovalInv'
<1>1. CASE UNCHANGED vars
  BY <1>1 DEF vars, ApprovalInv
<1>2. ASSUME NEW c \in Clients, NEW initiator \in Initiators, Start(c, initiator)
      PROVE  ApprovalInv'
  <2> DEFINE call == Advancing(NoInstance, Started(initiator), Empty)
  <2>1. call.base = NoInstance /\ call.cand = Started(initiator)
    BY DEF Advancing
  <2>2. client' = [client EXCEPT ![c] = call] /\ UNCHANGED store
    BY <1>2 DEF Start
  <2> HIDE DEF call
  <2> QED
    BY <2>1, <2>2, StartedSound, OneCallSound
<1>3. ASSUME NEW c \in Clients, Load(c)
      PROVE  ApprovalInv'
  <2> DEFINE call == Loaded(store)
  <2>1. call.base = store /\ call.pc = "loaded"
    BY DEF Loaded
  <2>2. client' = [client EXCEPT ![c] = call] /\ UNCHANGED store
    BY <1>3 DEF Load
  <2> HIDE DEF call
  <2> QED
    BY <2>1, <2>2, OneCallSound DEF ApprovalInv
<1> QED
  BY <1>1, <1>2, <1>3, OperateSound, AdvanceSound, FinishSound DEF Next

-----------------------------------------------------------------------------

LEMMA InitSound == Init => ApprovalInv
BY IdleIsLegal, CallFields DEF Init, ApprovalInv

\* Every decided task of an approval node has the one record of its decision, and no
\* other task has any, whatever retries and races there were (engine.go Handle).
THEOREM DecisionsRecorded ==
  ASSUME ApprovalsDecide
  PROVE  Spec => []DecisionsAreOnRecord
<1>1. IInv /\ ApprovalInv /\ [Next]_vars => ApprovalInv'
  BY NextSound
<1>2. ApprovalInv => DecisionsAreOnRecord
  BY DEF ApprovalInv, Sound, DecisionsAreOnRecord
<1> QED
  BY <1>1, <1>2, InitSound, Invariance, PTL DEF Spec

\* No approval node's task is closed without a record that explains it: at a
\* countersign an approval never closes anything (approval.go handleConfig).
THEOREM WorkIsTakenForAReason ==
  ASSUME ApprovalsDecide
  PROVE  Spec => []ClosedForAReason
<1>1. IInv /\ ApprovalInv /\ [Next]_vars => ApprovalInv'
  BY NextSound
<1>2. ApprovalInv => ClosedForAReason
  BY DEF ApprovalInv, Sound, ClosedForAReason
<1> QED
  BY <1>1, <1>2, InitSound, Invariance, PTL DEF Spec

\* An or-sign is decided at most once for each time it is entered, however many of
\* its owners decide at the same moment (approval.go ModeAny).
THEOREM OrSignsDecideOnce ==
  ASSUME ApprovalsDecide
  PROVE  Spec => []OrSignDecidesOnce
<1>1. IInv /\ ApprovalInv /\ [Next]_vars => ApprovalInv'
  BY NextSound
<1>2. ApprovalInv => OrSignDecidesOnce
  BY DEF ApprovalInv, Sound, Counted, OrSignDecidesOnce
<1> QED
  BY <1>1, <1>2, InitSound, Invariance, PTL DEF Spec
=============================================================================
