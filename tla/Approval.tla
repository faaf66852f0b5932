------------------------------- MODULE Approval -------------------------------
(***************************************************************************)
(* approval.go: the approval node handler, as the set of results it may    *)
(* return.  An error of the handler is the empty set: the engine call that *)
(* asked for it fails and nothing changes.  A Config value is              *)
(*   [mode, assignees, role, rejectedOutcome],                             *)
(* where role is NoPolicy for the static form.                             *)
(***************************************************************************)
EXTENDS Aggregate

CommandApprove == "approve"
CommandReject == "reject"
OutcomeApproved == "approved"
OutcomeRejected == "rejected"
ModeAny == "any"
ModeAll == "all"
NoPolicy == "no policy"

\* validateAssignees: somebody, nobody unnamed, nobody twice.
ValidAssignees(assignees) ==
  /\ assignees # << >>
  /\ \A k \in DOMAIN assignees : assignees[k] # Empty
  /\ IsInjective(assignees)

\* parseConfig, after decoding.
ValidConfig(config) ==
  /\ config.mode \in {ModeAny, ModeAll}
  /\ config.rejectedOutcome \in {Empty, OutcomeRejected}
  /\ config.assignees # << >> <=> config.role = NoPolicy
  /\ IF config.role = NoPolicy THEN ValidAssignees(config.assignees)
     ELSE config.role # Empty

\* The drafts omit their node; any node stands for the one the engine supplies.
WaitingRound(assignees) ==
  [disposition |-> "waiting", outcome |-> Empty, state |-> Empty,
   tasks |-> [k \in DOMAIN assignees |->
                [node |-> StartNode, assignee |-> assignees[k],
                 status |-> "active", outcome |-> Empty]]]

(* activateConfig.  directory is what the host's organization adapter may  *)
(* answer for the role of a dynamic policy; static assignees ask nobody.   *)
Activate(config, directory) ==
  IF ~ValidConfig(config) THEN {}
  ELSE IF config.role = NoPolicy THEN {WaitingRound(config.assignees)}
  ELSE {WaitingRound(resolved) : resolved \in {d \in directory : ValidAssignees(d)}}

Decide(tasks, id, outcome) ==
  [tasks EXCEPT ![id].status = "completed", ![id].outcome = outcome]

\* Whether an approval leaves the round waiting for its other owners.
AwaitsNobody(config, approved) == FALSE                        \* mutated
AwaitsEverybody(config, approved) == ActiveIds(approved) # {}    \* mutated
AwaitsOthers(config, approved) == config.mode = ModeAll /\ ActiveIds(approved) # {}

\* handleConfig, for a command whose task the engine found active and owned.
HandleConfig(config, tasks, id, name) ==
  LET approved == Decide(tasks, id, OutcomeApproved)
      rejected == Decide(tasks, id, OutcomeRejected)
      result(disposition, outcome, view) ==
        {[disposition |-> disposition, outcome |-> outcome, state |-> Empty, tasks |-> view]}
  IN
  IF ~ValidConfig(config) THEN {}
  ELSE IF name = CommandApprove THEN
    IF AwaitsOthers(config, approved)
    THEN result("waiting", Empty, approved)
    ELSE result("continue", OutcomeApproved, CloseTasks(approved, ActiveIds(approved)))
  ELSE IF name = CommandReject THEN
    result("reject", config.rejectedOutcome, CloseTasks(rejected, ActiveIds(rejected)))
  ELSE {}
=============================================================================
