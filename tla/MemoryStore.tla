------------------------------ MODULE MemoryStore ------------------------------
(***************************************************************************)
(* store.go: MemoryStore, one instance in it, and the goroutines that call *)
(* it.  The store and its callers share one memory: an Instance is an      *)
(* object, the map entry and the callers hold references, and a caller may *)
(* write to any object it owns whenever it is not inside a call.  The lock *)
(* is a spinning TryLock or TryRLock that gives up when ctx is canceled.   *)
(***************************************************************************)
EXTENDS Naturals, Sequences, FiniteSets, SequencesExt

CONSTANTS
  Clients,        \* goroutines
  Bodies,         \* contents of an Instance
  Objects,        \* addresses an Instance may have
  NoObject,       \* the nil pointer
  NewBody,        \* what Create is called with
  MaxVersion      \* bound of the model: no save beyond this version

VARIABLES
  heap,       \* the Instance at every address
  entry,      \* the map entry: an address, or NoObject
  readers,    \* clients inside the lock's shared mode
  writer,     \* clients inside its exclusive mode (at most one)
  client      \* every client's call, and the object it owns

vars == <<heap, entry, readers, writer, client>>

(* An audit record is named for the body it was written with. *)
Snapshot == [version : Nat, audit : Seq(Bodies), body : Bodies]
Blank == [version |-> 0, audit |-> << >>, body |-> NewBody]

Answers == {"", "ok", "exists", "missing", "conflict", "rewrite", "failed"}
Client == [pc : {"idle", "spin", "check", "write", "unlock"},
           op : {"create", "load", "save"},
           owns : Objects \union {NoObject},      \* the caller's Instance
           fresh : Objects \union {NoObject},     \* cloneInstance's result
           expected : Nat,
           canceled : BOOLEAN,                    \* ctx.Err() is not nil
           answer : Answers]

TypeOK ==
  /\ heap \in [Objects -> Snapshot]
  /\ entry \in Objects \union {NoObject}
  /\ readers \in SUBSET Clients
  /\ writer \in SUBSET Clients
  /\ client \in [Clients -> Client]

Idle == [pc |-> "idle", op |-> "load", owns |-> NoObject, fresh |-> NoObject,
         expected |-> 0, canceled |-> FALSE, answer |-> ""]

Init ==
  /\ heap = [o \in Objects |-> Blank]
  /\ entry = NoObject
  /\ readers = {}
  /\ writer = {}
  /\ client = [c \in Clients |-> Idle]

InUse == {entry} \union {client[c].owns : c \in Clients} \union {client[c].fresh : c \in Clients}
Unused == CHOOSE o \in Objects : o \notin InUse       \* what the allocator hands out

\* The garbage collector: an address nobody holds is blank again.
Collect == heap' = [o \in Objects |-> IF o \in InUse' THEN heap[o] ELSE Blank]

-----------------------------------------------------------------------------
(* The caller, between calls. *)

Compose(c) ==
  /\ client[c].pc = "idle"
  /\ client[c].owns = NoObject
  /\ heap' = [heap EXCEPT ![Unused] = [version |-> 1, audit |-> <<NewBody>>, body |-> NewBody]]
  /\ client' = [client EXCEPT ![c].owns = Unused]
  /\ UNCHANGED <<entry, readers, writer>>

\* An accepted command: what the engine makes of a loaded snapshot.
Edit(c, body) ==
  LET o == client[c].owns IN
  /\ client[c].pc = "idle"
  /\ o # NoObject
  /\ heap[o].version < MaxVersion
  /\ heap' = [heap EXCEPT ![o] = [version |-> @.version + 1,
                                  audit |-> Append(@.audit, body), body |-> body]]
  /\ UNCHANGED <<entry, readers, writer, client>>

\* Any other use of memory the caller owns: it overwrites the audit in place.
Scribble(c, body) ==
  LET o == client[c].owns IN
  /\ client[c].pc = "idle"
  /\ o # NoObject
  /\ heap' = [heap EXCEPT ![o].audit = <<body>>, ![o].body = body]
  /\ UNCHANGED <<entry, readers, writer, client>>

Drop(c) ==
  /\ client[c].pc = "idle"
  /\ client[c].owns # NoObject
  /\ client' = [client EXCEPT ![c].owns = NoObject]
  /\ UNCHANGED <<entry, readers, writer>>
  /\ Collect

\* The call itself; Save's expected version is any the caller may have loaded.
Invoke(c, op, expected) ==
  /\ client[c].pc = "idle"
  /\ (op = "load") <=> (client[c].owns = NoObject)
  /\ client' = [client EXCEPT ![c].pc = "spin", ![c].op = op, ![c].expected = expected]
  /\ UNCHANGED <<heap, entry, readers, writer>>

Cancel(c) ==
  /\ client[c].pc # "idle"
  /\ ~client[c].canceled
  /\ client' = [client EXCEPT ![c].canceled = TRUE]
  /\ UNCHANGED <<heap, entry, readers, writer>>

-----------------------------------------------------------------------------
(* Create, Load and Save. *)

Answer(c, answer) == [client EXCEPT ![c].pc = "unlock", ![c].answer = answer]

\* GiveUp, mutated: ctx is looked at only when the lock is free.
GiveUpWhenFree(c) ==
  /\ client[c].pc = "spin"
  /\ client[c].canceled
  /\ readers = {} /\ writer = {}
  /\ client' = Answer(c, "failed")
  /\ UNCHANGED <<heap, entry, readers, writer>>

\* acquireMemoryStoreLock leaves, without the lock, when ctx is canceled.
GiveUp(c) ==
  /\ client[c].pc = "spin"
  /\ client[c].canceled
  /\ client' = Answer(c, "failed")
  /\ UNCHANGED <<heap, entry, readers, writer>>

TryRLock(c) ==
  /\ client[c].op = "load"
  /\ writer = {}
  /\ readers' = readers \union {c}
  /\ UNCHANGED writer

\* TryLock, mutated: the lock keeps out readers only.
TryLockShared(c) ==
  /\ client[c].op # "load"
  /\ readers = {}
  /\ writer' = writer \union {c}
  /\ UNCHANGED readers

TryLock(c) ==
  /\ client[c].op # "load"
  /\ writer = {}
  /\ readers = {}
  /\ writer' = writer \union {c}
  /\ UNCHANGED readers

Acquire(c) ==
  /\ client[c].pc = "spin"
  /\ TryRLock(c) \/ TryLock(c)
  /\ client' = [client EXCEPT ![c].pc = "check"]
  /\ UNCHANGED <<heap, entry>>

\* The checks under the lock, in the code's order.
Refusal(c) ==
  IF client[c].canceled THEN "failed"
  ELSE IF client[c].op = "create" THEN IF entry # NoObject THEN "exists" ELSE ""
  ELSE IF entry = NoObject THEN "missing"
  ELSE IF client[c].op = "load" THEN ""
  ELSE IF heap[entry].version # client[c].expected THEN "conflict"
  ELSE IF ~IsPrefix(heap[entry].audit, heap[client[c].owns].audit) THEN "rewrite"
  ELSE ""

Refuse(c) ==
  /\ client[c].pc = "check"
  /\ Refusal(c) # ""
  /\ client' = Answer(c, Refusal(c))
  /\ UNCHANGED <<heap, entry, readers, writer>>

\* CloneInstance, mutated: the object itself crosses the boundary.
ShareInstance(c, source) ==
  /\ client' = [client EXCEPT ![c].pc = "write", ![c].fresh = source]
  /\ UNCHANGED heap

\* cloneInstance: a detached copy of what crosses the boundary.
CloneInstance(c, source) ==
  /\ heap' = [heap EXCEPT ![Unused] = heap[source]]
  /\ client' = [client EXCEPT ![c].pc = "write", ![c].fresh = Unused]

Clone(c) ==
  /\ client[c].pc = "check"
  /\ Refusal(c) = ""
  /\ CloneInstance(c, IF client[c].op = "load" THEN entry ELSE client[c].owns)
  /\ UNCHANGED <<entry, readers, writer>>

\* The last look at ctx, then the map assignment or Load's return value.
Take(c) ==
  LET me == client[c] IN
  /\ me.pc = "write"
  /\ IF me.canceled
     THEN /\ client' = [Answer(c, "failed") EXCEPT ![c].fresh = NoObject]
          /\ UNCHANGED entry
     ELSE IF me.op = "load"
     THEN /\ client' = [Answer(c, "ok") EXCEPT ![c].fresh = NoObject, ![c].owns = me.fresh]
          /\ UNCHANGED entry
     ELSE /\ entry' = me.fresh
          /\ client' = [Answer(c, "ok") EXCEPT ![c].fresh = NoObject]
  /\ UNCHANGED <<readers, writer>>
  /\ Collect

\* The deferred unlock and the return.
Leave(c) ==
  /\ client[c].pc = "unlock"
  /\ readers' = readers \ {c}
  /\ writer' = writer \ {c}
  /\ client' = [client EXCEPT ![c] = [Idle EXCEPT !.owns = client[c].owns]]
  /\ UNCHANGED <<heap, entry>>

-----------------------------------------------------------------------------

Use(c) ==
  \/ Compose(c)
  \/ \E body \in Bodies \ {NewBody} : Edit(c, body) \/ Scribble(c, body)
  \/ Drop(c)
  \/ Invoke(c, "load", 0) \/ Invoke(c, "create", 0)
  \/ \E expected \in 1..MaxVersion : Invoke(c, "save", expected)

Step(c) ==
  \/ GiveUp(c) \/ Acquire(c) \/ Refuse(c)
  \/ Clone(c) \/ Take(c) \/ Leave(c)

Next == \E c \in Clients : Use(c) \/ Cancel(c) \/ Step(c)

Spec == Init /\ [][Next]_vars

-----------------------------------------------------------------------------

Holds(c) == {client[c].owns, client[c].fresh} \ {NoObject}

MutualExclusion ==
  /\ Cardinality(writer) <= 1
  /\ writer # {} => readers = {}
  /\ \A c \in Clients : client[c].pc \in {"check", "write"} => c \in readers \union writer
NoSharing ==
  /\ \A c \in Clients : /\ entry \notin Holds(c)
                        /\ client[c].fresh \in Holds(c) => client[c].fresh # client[c].owns
  /\ \A c, d \in Clients : c # d => Holds(c) \intersect Holds(d) = {}

(***************************************************************************)
(* No two of the map entry, the callers and the calls in progress ever     *)
(* refer to the same Instance, and a call that looks at the entry holds    *)
(* the lock, exclusively unless it only reads (store.go cloneInstance and  *)
(* acquireMemoryStoreLock).                                                *)
(***************************************************************************)
HeapInv == TypeOK /\ MutualExclusion /\ NoSharing

-----------------------------------------------------------------------------
(* What the calls are to the port: pending, performed and not returned, over *)
(* the snapshot the map entry refers to.                                     *)

Request(c) ==
  [state |-> "pending", op |-> client[c].op, expected |-> client[c].expected,
   snapshot |-> IF client[c].op = "load" THEN NoObject ELSE heap[client[c].owns]]
Outcome(c) ==
  [state |-> "performed", op |-> client[c].op, answer |-> client[c].answer,
   loaded |-> IF client[c].op = "load" /\ client[c].answer = "ok"
              THEN heap[client[c].owns] ELSE NoObject]

Durable == IF entry = NoObject THEN NoObject ELSE heap[entry]
Calls == [c \in Clients |-> CASE client[c].pc = "idle" -> [state |-> "none"]
                              [] client[c].pc = "unlock" -> Outcome(c)
                              [] OTHER -> Request(c)]
=============================================================================
