------------------------------ MODULE MCApproval ------------------------------
(***************************************************************************)
(* Two approval nodes in a row, and calls racing on one instance of it:    *)
(*                                                                         *)
(*   start --> review --approved--> confirm --approved--> done             *)
(*               |                     |                                   *)
(*               +--rejected--> denied +--reject: the instance is rejected *)
(*                                                                         *)
(* review is a countersign of ann and bob with a rejected route; confirm   *)
(* is an or-sign whose role the directory resolves to ann and bob, to ann  *)
(* alone, or - by mistake - to nobody or to ann twice.                     *)
(***************************************************************************)
EXTENDS Approvals

CONSTANT Directory      \* what the organization adapter may answer

MCNodes == {"start", "review", "confirm", "done", "denied"}
MCEndNodes == {"done", "denied"}
MCOutcomes == {OutcomeApproved, OutcomeRejected}
MCActors == {"ann", "bob"}
MCRoute == (<<"start", "">> :> "review")
        @@ (<<"review", OutcomeApproved>> :> "confirm")
        @@ (<<"review", OutcomeRejected>> :> "denied")
        @@ (<<"confirm", OutcomeApproved>> :> "done")
MCCommandNames == {CommandApprove, CommandReject}
MCDirectory == {<<"ann">>, <<"ann", "bob">>, <<"ann", "ann">>, << >>}
SmallDirectory == {<<"bob">>, << >>}

MCConfigs ==
  [review |-> [mode |-> ModeAll, assignees |-> <<"ann", "bob">>,
               role |-> NoPolicy, rejectedOutcome |-> OutcomeRejected],
   confirm |-> [mode |-> ModeAny, assignees |-> << >>,
                role |-> "manager", rejectedOutcome |-> Empty]]

MCActivate(node) ==
  IF node \in ApprovalNodes THEN Activate(Configs[node], Directory) ELSE {}
MCHandle(node, tasks, id, name) == HandleConfig(Configs[node], tasks, id, name)

Symmetric == Permutations(Clients)
=============================================================================
