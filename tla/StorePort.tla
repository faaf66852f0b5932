------------------------------- MODULE StorePort -------------------------------
(***************************************************************************)
(* The promise of the Store interface (store.go) for one instance, whatever*)
(* the adapter: every call takes effect at one moment between its request  *)
(* and its return, Create is insert-only, Save is a compare-and-swap that  *)
(* only appends to the audit, and a call that takes no effect changes      *)
(* nothing.  The moment is Perform; the answer follows in Return.          *)
(*                                                                         *)
(* A snapshot is a version, an audit and a body that stands for every      *)
(* other field of the aggregate.                                           *)
(***************************************************************************)
EXTENDS Naturals, Sequences, SequencesExt

CONSTANTS
  Clients,     \* concurrent callers of the adapter
  Bodies,      \* contents of the aggregate
  Records,     \* audit records
  Absent       \* no such instance: not a snapshot

Snapshot == [version : Nat, audit : Seq(Records), body : Bodies]

VARIABLES
  durable,     \* the committed snapshot, or Absent
  call         \* the call each client is making

vars == <<durable, call>>

Ops == {"create", "load", "save"}
Answers == {"ok", "exists", "missing", "conflict", "rewrite", "failed"}

None == [state |-> "none"]
Performed(op, answer, loaded) ==
  [state |-> "performed", op |-> op, answer |-> answer, loaded |-> loaded]

Init ==
  /\ durable = Absent
  /\ call = [c \in Clients |-> None]

Requests == [state : {"pending"}, op : Ops, snapshot : Snapshot \union {Absent}, expected : Nat]

Request(c) ==
  /\ call[c] = None
  /\ call'[c] \in Requests
  /\ call' = [call EXCEPT ![c] = call'[c]]
  /\ UNCHANGED durable

\* The one answer, other than a failure, the port allows a request now.
Verdict(request) ==
  CASE request.op = "create" -> IF durable = Absent THEN "ok" ELSE "exists"
    [] request.op = "load" -> IF durable = Absent THEN "missing" ELSE "ok"
    [] OTHER -> IF durable = Absent THEN "missing"
                ELSE IF durable.version # request.expected THEN "conflict"
                ELSE IF ~IsPrefix(durable.audit, request.snapshot.audit) THEN "rewrite"
                ELSE "ok"

\* The call takes effect, or fails without one.
Perform(c, answer) ==
  LET request == call[c] IN
  /\ request.state = "pending"
  /\ answer \in {Verdict(request), "failed"}
  /\ durable' = IF answer = "ok" /\ request.op # "load" THEN request.snapshot ELSE durable
  /\ call' = [call EXCEPT ![c] =
       Performed(request.op, answer, IF answer = "ok" /\ request.op = "load" THEN durable ELSE Absent)]

\* A load may still fail after it has seen what it would have answered; nobody
\* can tell.  A create or save may not.
Forget(c) ==
  /\ call[c].state = "performed"
  /\ call[c].op = "load"
  /\ call' = [call EXCEPT ![c] = Performed("load", "failed", Absent)]
  /\ UNCHANGED durable

Return(c) ==
  /\ call[c].state = "performed"
  /\ call' = [call EXCEPT ![c] = None]
  /\ UNCHANGED durable

Next ==
  \E c \in Clients :
    \/ Request(c)
    \/ \E answer \in Answers : Perform(c, answer)
    \/ Forget(c)
    \/ Return(c)

Spec == Init /\ [][Next]_vars
=============================================================================
