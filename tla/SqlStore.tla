-------------------------------- MODULE SqlStore --------------------------------
(***************************************************************************)
(* postgres/store.go and mysql/store.go: the Store port over a SQL         *)
(* database, one statement of a transaction at a time, for one instance.   *)
(*                                                                         *)
(* The database is external: committed rows of four tables, and the lock   *)
(* on the instance's parent row.  What a transaction writes is its own     *)
(* until it commits; a statement that needs a lock somebody else holds     *)
(* waits.  PostgreSQL runs writers at READ COMMITTED; MySQL's statements   *)
(* that lock read the latest committed row, a duplicate key leaves a shared*)
(* lock on the row, and of two transactions that wait for each other one   *)
(* is rolled back.  A statement that fails rolls its transaction back and  *)
(* releases its locks at once (the 5s bound on rollback is left out).      *)
(*                                                                         *)
(* A body stands for the fields of the parent row, and again for the task  *)
(* rows; it is named for the client that composed it.                      *)
(***************************************************************************)
EXTENDS Naturals, Sequences, FiniteSets, SequencesExt

CONSTANTS
  Clients,
  Dialect,        \* "postgres" or "mysql"
  Faults,         \* which faults happen: "statement" errors, "ack" losses
  Absent,         \* no row
  MaxVersion      \* bound of the model: no edit beyond this version

VARIABLES
  db,         \* committed rows of the instance
  exclusive,  \* transactions holding the parent row's exclusive lock (at most one)
  shared,     \* transactions holding its shared lock (MySQL)
  client      \* every client's call and transaction

vars == <<db, exclusive, shared, client>>

Bodies == Clients
Snapshot == [version : Nat, audit : Seq(Bodies), body : Bodies]
Parent == [version : Nat, body : Bodies]
Rows == [parent : Parent \union {Absent}, tasks : Bodies \union {Absent},
         audit : Seq(Bodies), projection : Parent \union {Absent}]
NoRows == [parent |-> Absent, tasks |-> Absent, audit |-> << >>, projection |-> Absent]

Statements == {"insert", "probe", "update", "classify", "audit", "tasks", "append",
               "project", "commit", "parent", "loadTasks", "loadAudit"}
Client == [pc : {"idle", "committed", "done"} \union Statements,
           op : {"create", "load", "save"},
           owns : Snapshot \union {Absent},         \* the caller's last snapshot
           snapshot : Snapshot \union {Absent},     \* the call's argument
           expected : Nat,
           rows : Rows,                             \* the rows this transaction wrote or saw
           answer : {"", "ok", "exists", "missing", "conflict", "rewrite", "failed"}]

TypeOK ==
  /\ db \in Rows
  /\ exclusive \in SUBSET Clients
  /\ shared \in SUBSET Clients
  /\ client \in [Clients -> Client]

Idle == [pc |-> "idle", op |-> "load", owns |-> Absent, snapshot |-> Absent,
         expected |-> 0, rows |-> NoRows, answer |-> ""]

Init ==
  /\ db = NoRows
  /\ exclusive = {}
  /\ shared = {}
  /\ client = [c \in Clients |-> Idle]

ParentOf(snapshot) == [version |-> snapshot.version, body |-> snapshot.body]

-----------------------------------------------------------------------------
(* The caller. *)

Fresh(c) == [version |-> 1, audit |-> <<c>>, body |-> c]

\* A command on what was loaded, a candidate that rewrites history, and one
\* that changes nothing.
Candidates(c, base) ==
  {[version |-> base.version + 1, audit |-> Append(base.audit, c), body |-> c],
   [version |-> base.version + 1, audit |-> <<c, c>>, body |-> c],
   base}

Invoke(c, op, snapshot, expected, first) ==
  /\ client[c].pc = "idle"
  /\ client' = [client EXCEPT ![c].pc = first, ![c].op = op,
                              ![c].snapshot = snapshot, ![c].expected = expected]
  /\ UNCHANGED <<db, exclusive, shared>>

\* A caller that has loaded nothing expects the zero version.
InvokeSave(c) ==
  LET base == client[c].owns IN
  IF base = Absent
  THEN Invoke(c, "save", Fresh(c), 0, "update")
  ELSE \E candidate \in Candidates(c, base) :
         /\ candidate.version <= MaxVersion
         /\ Invoke(c, "save", candidate, base.version, "update")

-----------------------------------------------------------------------------
(* Transactions. *)

Others(clients, c) == clients \ {c}

\* The end of a transaction: its locks go, and the caller has its answer.
Finish(c, pc, answer) ==
  /\ client' = [client EXCEPT ![c].pc = pc, ![c].answer = answer]
  /\ exclusive' = exclusive \ {c}
  /\ shared' = shared \ {c}

Answer(c, answer) == Finish(c, "done", answer) /\ UNCHANGED db

Goto(c, pc) == client' = [client EXCEPT ![c].pc = pc]

\* Whether a lock on the row is granted at once.
RowIsFree(c) == Others(exclusive \union shared, c) = {}

\* Create's insert: a duplicate is an error at once, or after a probe.
Insert(c) ==
  /\ client[c].pc = "insert"
  /\ Others(exclusive, c) = {}
  /\ UNCHANGED db
  /\ IF db.parent = Absent
     THEN /\ exclusive' = exclusive \union {c}
          /\ client' = [client EXCEPT ![c].pc = "tasks",
                                      ![c].rows.parent = ParentOf(client[c].snapshot)]
          /\ UNCHANGED shared
     ELSE IF Dialect = "postgres"
     THEN Finish(c, "done", "exists")
     ELSE /\ shared' = shared \union {c}
          /\ Goto(c, "probe")
          /\ UNCHANGED exclusive

\* MySQL probes after any error of the insert, whether the row is there or not.
InsertFails(c) ==
  /\ Dialect = "mysql" /\ "statement" \in Faults
  /\ client[c].pc = "insert"
  /\ Goto(c, "probe")
  /\ UNCHANGED <<db, exclusive, shared>>

\* instanceExists: SELECT ... FOR UPDATE.  Where no row is there, Create
\* reports the insert's raw error.
Probe(c) ==
  /\ client[c].pc = "probe"
  /\ RowIsFree(c)
  /\ Answer(c, IF db.parent = Absent THEN "failed" ELSE "exists")

\* Two probes wait for each other's shared lock, or one waits behind another
\* request that waits for the probe's own: the database fails either of them.
\* A Create that is failed so reports the insert's raw error.
Deadlock(c) ==
  /\ Dialect = "mysql"
  /\ \E d \in Others(Clients, c) :
       /\ {client[c].pc, client[d].pc} \subseteq {"probe", "update"}
       /\ {c, d} \intersect shared # {}
  /\ Answer(c, "failed")

\* Save's conditional update.  PostgreSQL counts matched rows, and waits for
\* and locks only those; MySQL locks the row it looks up and counts changed rows.
Update(c) ==
  LET matched == db.parent # Absent /\ db.parent.version = client[c].expected
      new == ParentOf(client[c].snapshot)
      affected == matched /\ (Dialect = "postgres" \/ new # db.parent)
      locked == IF Dialect = "postgres" THEN matched ELSE db.parent # Absent
  IN
  /\ client[c].pc = "update"
  /\ Dialect = "mysql" \/ matched => RowIsFree(c)
  /\ client' = [client EXCEPT ![c].pc = IF affected THEN "audit" ELSE "classify",
                              ![c].rows.parent = new]
  /\ exclusive' = IF locked THEN exclusive \union {c} ELSE exclusive
  /\ UNCHANGED <<db, shared>>

ClassifyFailedCAS(c) ==
  /\ client[c].pc = "classify"
  /\ Dialect = "mysql" => RowIsFree(c)
  /\ IF db.parent = Absent THEN Answer(c, "missing")
     ELSE IF Dialect = "postgres" \/ db.parent.version # client[c].expected
     THEN Answer(c, "conflict")
     ELSE Goto(c, "audit") /\ UNCHANGED <<db, exclusive, shared>>

\* The offset of the new suffix is the length of rows.audit from here on.
ValidateAuditAppend(c) ==
  /\ client[c].pc = "audit"
  /\ IF IsPrefix(db.audit, client[c].snapshot.audit)
     THEN /\ client' = [client EXCEPT ![c].pc = "tasks", ![c].rows.audit = db.audit]
          /\ UNCHANGED <<db, exclusive, shared>>
     ELSE Answer(c, "rewrite")

\* WriteTasks, mutated: the task rows of the last commit stay.
KeepTasks(c) ==
  /\ client[c].pc = "tasks"
  /\ client' = [client EXCEPT ![c].pc = "append", ![c].rows.tasks = db.tasks]
  /\ UNCHANGED <<db, exclusive, shared>>

WriteTasks(c) ==
  /\ client[c].pc = "tasks"
  /\ client' = [client EXCEPT ![c].pc = "append", ![c].rows.tasks = client[c].snapshot.body]
  /\ UNCHANGED <<db, exclusive, shared>>

AppendAudit(c) ==
  LET offset == Len(client[c].rows.audit)
      audit == client[c].snapshot.audit
  IN
  /\ client[c].pc = "append"
  /\ client' = [client EXCEPT
       ![c].pc = IF Dialect = "postgres" THEN "project" ELSE "commit",
       ![c].rows.audit = @ \o SubSeq(audit, offset + 1, Len(audit))]
  /\ UNCHANGED <<db, exclusive, shared>>

\* ReplaceQueryProjection, mutated: the rows of the last commit stay.
KeepQueryProjection(c) ==
  /\ client[c].pc = "project"
  /\ client' = [client EXCEPT ![c].pc = "commit", ![c].rows.projection = db.projection]
  /\ UNCHANGED <<db, exclusive, shared>>

ReplaceQueryProjection(c) ==
  /\ client[c].pc = "project"
  /\ client' = [client EXCEPT ![c].pc = "commit",
                              ![c].rows.projection = ParentOf(client[c].snapshot)]
  /\ UNCHANGED <<db, exclusive, shared>>

Commit(c) ==
  /\ client[c].pc = "commit"
  /\ db' = client[c].rows
  /\ Finish(c, "committed", "ok")

\* Load reads three tables from the snapshot its first query takes.
LoadParent(c) ==
  /\ client[c].pc = "parent"
  /\ UNCHANGED <<db, exclusive, shared>>
  /\ IF db.parent = Absent
     THEN client' = [client EXCEPT ![c].pc = "done", ![c].answer = "missing"]
     ELSE client' = [client EXCEPT ![c].pc = "loadTasks", ![c].rows = db]

\* The rows a later query of the same transaction sees.
Visible(c) == client[c].rows

LoadTasks(c) ==
  /\ client[c].pc = "loadTasks"
  /\ client' = [client EXCEPT ![c].pc = "loadAudit", ![c].rows.tasks = Visible(c).tasks]
  /\ UNCHANGED <<db, exclusive, shared>>

\* The aggregate decoded from rows read one table at a time.
Assembled(rows) ==
  IF rows.parent = Absent THEN Absent
  ELSE [version |-> rows.parent.version, audit |-> rows.audit,
        body |-> IF rows.tasks = rows.parent.body THEN rows.tasks ELSE "torn"]

LoadAudit(c) ==
  LET rows == [client[c].rows EXCEPT !.audit = Visible(c).audit] IN
  /\ client[c].pc = "loadAudit"
  /\ client' = [client EXCEPT ![c].pc = "done", ![c].answer = "ok",
                              ![c].rows = rows, ![c].owns = Assembled(rows)]
  /\ UNCHANGED <<db, exclusive, shared>>

-----------------------------------------------------------------------------
(* Faults and returns. *)

\* A canceled context, a broken connection, a rejected row: rolled back.
StatementFails(c) ==
  /\ "statement" \in Faults
  /\ client[c].pc \in Statements
  /\ Answer(c, "failed")

\* The server has committed; the answer may not arrive.
Acknowledge(c) ==
  /\ client[c].pc = "committed"
  /\ \E answer \in {"ok"} \union (IF "ack" \in Faults THEN {"failed"} ELSE {}) :
       client' = [client EXCEPT ![c].pc = "done", ![c].answer = answer]
  /\ UNCHANGED <<db, exclusive, shared>>

Return(c) ==
  /\ client[c].pc = "done"
  /\ client' = [client EXCEPT ![c] = [Idle EXCEPT !.owns = client[c].owns]]
  /\ UNCHANGED <<db, exclusive, shared>>

Next ==
  \E c \in Clients :
    \/ Invoke(c, "create", Fresh(c), 0, "insert")
    \/ Invoke(c, "load", Absent, 0, "parent")
    \/ InvokeSave(c)
    \/ Insert(c) \/ InsertFails(c) \/ Probe(c) \/ Deadlock(c)
    \/ Update(c) \/ ClassifyFailedCAS(c) \/ ValidateAuditAppend(c)
    \/ WriteTasks(c) \/ AppendAudit(c) \/ ReplaceQueryProjection(c) \/ Commit(c)
    \/ LoadParent(c) \/ LoadTasks(c) \/ LoadAudit(c)
    \/ StatementFails(c) \/ Acknowledge(c) \/ Return(c)

Spec == Init /\ [][Next]_vars

-----------------------------------------------------------------------------

(* What the calls are to the port: pending until their transaction commits *)
(* or has taken its snapshot, over the aggregate assembled from the rows.   *)

Loaded(c) == IF client[c].op = "load" /\ client[c].answer \in {"", "ok"}
             THEN Assembled(client[c].rows) ELSE Absent

Durable == Assembled(db)
Calls == [c \in Clients |->
  IF client[c].pc = "idle" THEN [state |-> "none"]
  ELSE IF client[c].pc \in {"committed", "done", "loadTasks", "loadAudit"}
  THEN [state |-> "performed", op |-> client[c].op, loaded |-> Loaded(c),
        answer |-> IF client[c].answer = "" THEN "ok" ELSE client[c].answer]
  ELSE [state |-> "pending", op |-> client[c].op,
        snapshot |-> client[c].snapshot, expected |-> client[c].expected]]

MutualExclusion ==
  /\ Cardinality(exclusive) <= 1
  /\ exclusive # {} => shared \subseteq exclusive
RowsAgree ==
  db.parent # Absent => /\ db.tasks = db.parent.body
                        /\ db.audit # << >> /\ Last(db.audit) = db.parent.body

(***************************************************************************)
(* The committed rows of the three tables are those of one call - parent,  *)
(* tasks and the end of the audit - and of two transactions that lock the  *)
(* parent row one waits (Store.Create and Store.Save of both adapters).    *)
(***************************************************************************)
SqlInv == TypeOK /\ MutualExclusion /\ RowsAgree

(***************************************************************************)
(* The query projection is the committed aggregate's own, at every commit  *)
(* and after every failure (postgres replaceQueryProjection).              *)
(***************************************************************************)
ProjectionIsCurrent == Dialect = "postgres" => db.projection = db.parent

(***************************************************************************)
(* "every failure preserves the previously committed aggregate and query   *)
(* rows" (postgres Store.Save): when a save has failed, what it would have *)
(* written is not what is durable.                                         *)
(***************************************************************************)
FailurePreservesAggregate ==
  \A c \in Clients :
    /\ client[c].pc = "done"
    /\ client[c].answer = "failed"
    /\ client[c].op = "save"
    /\ client[c].snapshot # client[c].owns
    => Assembled(db) # client[c].snapshot

(***************************************************************************)
(* "Duplicate IDs wrap workflow.ErrInstanceExists" (mysql Store.Create):   *)
(* where no statement fails of itself, a create answers ok or exists.      *)
(***************************************************************************)
DuplicateIsReported ==
  \A c \in Clients :
    client[c].pc = "done" /\ client[c].op = "create" => client[c].answer \in {"ok", "exists"}
=============================================================================
