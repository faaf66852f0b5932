-------------------------------- MODULE MCHost --------------------------------
(***************************************************************************)
(* Handlers a host might write, sound or not, on a plan with a branch, a   *)
(* skip and a node whose rejection has no route:                           *)
(*                                                                         *)
(*   start --> a --go--> b --go--> done,   a --no--> done,                 *)
(*             a --""--> b                                                 *)
(*                                                                         *)
(* A handler may propose any mix of legal task updates, and each of the    *)
(* malformed results the engine has to refuse.                             *)
(***************************************************************************)
EXTENDS Engine

MCNodes == {"start", "a", "b", "done"}
MCEndNodes == {"done"}
MCOutcomes == {"go", "no"}
MCRoute == (<<"start", "">> :> "a") @@ (<<"a", "go">> :> "b") @@ (<<"a", "">> :> "b")
        @@ (<<"a", "no">> :> "done") @@ (<<"b", "go">> :> "done")
MCActors == {"ann", "bob"}
MCCommandNames == {"act", ReservedCommand}
MCStates == {"s1"}

Result(disposition, outcome, state, tasks) ==
  [disposition |-> disposition, outcome |-> outcome, state |-> state, tasks |-> tasks]

Draft(assignee, status, outcome) ==
  [node |-> "start", assignee |-> assignee, status |-> status, outcome |-> outcome]
Active(assignee) == Draft(assignee, "active", Empty)

MCActivate(node) ==
  {Result("waiting", Empty, "s1", IF node = "a" THEN <<Active("ann"), Active("bob")>>
                                                ELSE <<Active("ann")>>),
   Result("continue", "go", Empty, << >>),
   Result("reject", Empty, Empty, << >>),
   Result("reject", "no", Empty, << >>)}
  \union
  {Result("waiting", Empty, "s1", << >>),
   Result("waiting", "go", "s1", <<Active("ann")>>),
   Result("waiting", Empty, NotJSON, <<Active("ann")>>),
   Result("waiting", Empty, Empty, <<Draft(Empty, "active", Empty)>>),
   Result("waiting", Empty, Empty, <<Draft("ann", "completed", "go")>>),
   Result("continue", "go", Empty, <<Active("ann")>>),
   Result(Empty, "go", Empty, << >>)}

\* What a handler may make of one of its tasks.
Legal(task) ==
  IF task.status # "active" THEN {task}
  ELSE {task,
        [task EXCEPT !.status = "completed", !.outcome = "go"],
        [task EXCEPT !.status = "closed"]}
Illegal(task) ==
  {[task EXCEPT !.status = "completed", !.outcome = Empty],
   [task EXCEPT !.status = "closed", !.outcome = "no"],
   [task EXCEPT !.assignee = "bob"],
   [task EXCEPT !.node = "start"],
   [task EXCEPT !.status = Empty]}
  \union (IF task.status # "active" THEN {[task EXCEPT !.status = "active"]} ELSE {})

Views(tasks) ==
  LET legal == UNION {Legal(tasks[k]) : k \in DOMAIN tasks}
  IN  {view \in [DOMAIN tasks -> legal] : \A k \in DOMAIN tasks : view[k] \in Legal(tasks[k])}
      \union UNION {{[tasks EXCEPT ![k] = bad] : bad \in Illegal(tasks[k])} : k \in DOMAIN tasks}
      \union {[k \in DOMAIN tasks \ {omitted} |-> tasks[k]] : omitted \in DOMAIN tasks}

Decisions == {<<"waiting", Empty>>, <<"continue", "go">>, <<"reject", Empty>>, <<"reject", "no">>}

MCHandle(node, tasks, id, name) ==
  {Result(d[1], d[2], "s1", view) : d \in Decisions, view \in Views(tasks)}
  \union {Result("waiting", "go", "s1", tasks), Result("waiting", Empty, NotJSON, tasks)}
=============================================================================
