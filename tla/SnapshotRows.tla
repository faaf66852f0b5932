----------------------------- MODULE SnapshotRows -----------------------------
(***************************************************************************)
(* What the SQL adapters make of an aggregate: encodeSnapshot detaches and *)
(* encodes it, the statements of one transaction spread it over a parent   *)
(* row and rows by ordinal, and loadSnapshot puts it together again        *)
(* (codec.go and store.go of postgres and mysql).  SqlStore models how the *)
(* transactions of several callers interleave; here one caller at a time   *)
(* writes and what matters is what the values become.                      *)
(*                                                                         *)
(* Strings are model values: Invalid ones are not UTF-8, Long ones exceed  *)
(* 255 characters.  A task without an assignee stands for one that has no  *)
(* node or status either.  A time is represented by whether it carries the        *)
(* monotonic clock reading of time.Now; audit times are UTC.               *)
(***************************************************************************)
EXTENDS Naturals, Sequences, SequencesExt

CONSTANTS
  Enforcing,       \* the adapters whose server enforces CHECK constraints
  Batch,           \* maxInsertBatchSize
  Strings,
  Invalid, Long,   \* sets of strings
  Blank,           \* ""
  Replaced,        \* what json.Marshal makes of a string: U+FFFD for each byte that is not UTF-8
  Nil,             \* a nil slice, no slice of any length
  Fresh,           \* aggregates a host creates,
  Extensions,      \* records it appends,
  TaskLists, Payloads, \* and tasks and data it replaces
  MaxVersion       \* bound of the versions

VARIABLES
  adapter,         \* the one a behaviour is about
  db, tx,          \* the rows that are committed, and those of the transaction
  candidate,       \* the aggregate the caller passes and may later change
  call,            \* how it came about
  snapshot,        \* encodedSnapshot
  auditOffset,     \* audit rows the database already has
  written,         \* rows of the collection the transaction has written
  pc, answer,
  loaded,          \* the aggregate the caller last loaded, or Nil
  kept             \* the aggregate of the last commit, as it was passed

vars == <<adapter, db, tx, candidate, call, snapshot, auditOffset, written, pc, answer, loaded, kept>>

Adapters == {"postgres", "mysql"}
NoRows == << >>
Absent == [exists |-> FALSE, parent |-> Nil, tasks |-> NoRows, audit |-> NoRows]
Task(id, assignee) == [id |-> id, assignee |-> assignee]
Record(action, reason, monotonic) == [action |-> action, reason |-> reason, monotonic |-> monotonic]

Tasks == [id : Strings, assignee : Strings]
Records == [action : Strings, reason : Strings, monotonic : BOOLEAN]

List(slice) == IF slice = Nil THEN << >> ELSE slice

\* A field of lists of bytes may be nil; so may the lists of tasks and records.
IsAggregate(a) ==
  /\ a = [initiator |-> a.initiator, nodes |-> a.nodes, data |-> a.data,
          tasks |-> a.tasks, audit |-> a.audit, version |-> a.version]
  /\ a.initiator \in Strings /\ a.version \in Nat
  /\ a.nodes = Nil \/ a.nodes \in Seq(ToSet(a.nodes))
  /\ a.tasks \in {Nil} \union Seq(Tasks) /\ a.audit \in {Nil} \union Seq(Records)

\* U+FFFD is text and one character, as the byte it replaces counts for one;
\* PostgreSQL always enforces the constraints.
RowsAreOfAggregates ==
  /\ Batch \in Nat \ {0}
  /\ Blank \in Strings \ Invalid
  /\ \A s \in Strings \intersect Invalid :
       /\ Replaced[s] \in Strings \ (Invalid \union {Blank})
       /\ Replaced[s] \in Long <=> s \in Long
  /\ "postgres" \in Enforcing
  /\ Nil \notin Seq(Tasks) /\ Nil \notin Seq(Records)
  /\ \A a \in Fresh : IsAggregate(a)
  /\ TaskLists \subseteq {Nil} \union Seq(Tasks)
  /\ Extensions \subseteq Seq(Records)

-----------------------------------------------------------------------------
(* Encoding. *)

Text(s) == IF s \in Invalid THEN Replaced[s] ELSE s

\* A payload after json.Marshal and decodeJSON.
StoredTask(task) == Task(Text(task.id), Text(task.assignee))
StoredRecord(record) == Record(Text(record.action), Text(record.reason), FALSE)

Each(Op(_), slice) == [i \in DOMAIN List(slice) |-> Op(List(slice)[i])]

\* nullableBytes, and the base64 text of []byte in JSON: nil is NULL, or null.
Null == [null |-> TRUE]
Nullable(bytes) == IF bytes = Nil THEN Null ELSE [null |-> FALSE, bytes |-> bytes]
Bytes(column) == IF column = Null THEN Nil ELSE column.bytes

\* encodeDefinition and decodeDefinition: a nil list is null, an empty one is not.
EncodeDefinition(nodes) == IF nodes = Nil THEN Null ELSE [null |-> FALSE, configs |-> Each(Nullable, nodes)]
DecodeDefinition(json) == IF json = Null THEN Nil ELSE [i \in DOMAIN json.configs |-> Bytes(json.configs[i])]

Ids(tasks) == [i \in DOMAIN List(tasks) |-> List(tasks)[i].id]
Actions(audit) == [i \in DOMAIN List(audit) |-> List(audit)[i].action]

\* The other columns are text columns.  The parent row is written from the
\* aggregate, the columns of a task or a record from its decoded payload.
Columns(a) ==
  {a.initiator}
  \union ToSet(Ids(Each(StoredTask, a.tasks))) \union ToSet(Actions(Each(StoredRecord, a.audit)))
\* replaceQueryProjection has no payloads: its columns are the aggregate's own.
ProjectedColumns(a) ==
  LET projected == {task \in ToSet(List(a.tasks)) : task.assignee # Blank} IN
  IF adapter = "postgres" THEN UNION {{task.id, task.assignee} : task \in projected} ELSE {}

NonEmpty(a) ==
  /\ \A i \in DOMAIN List(a.tasks) : List(a.tasks)[i].id # Blank
  /\ \A i \in DOMAIN List(a.audit) : List(a.audit)[i].action # Blank

\* The strings as they are before encoding.
Measured(a) == {a.initiator} \union ToSet(Ids(a.tasks)) \union ToSet(Actions(a.audit))

\* Storable, mutated: only the columns of the parent are measured.
StorableParent(a) ==
  adapter = "mysql" => NonEmpty(a) /\ a.initiator \notin Long
\* validateStoredValues and validateStoredStringLengths, of MySQL alone.
Storable(a) ==
  adapter = "mysql" => NonEmpty(a) /\ Measured(a) \intersect Long = {}

EncodeSnapshot(a) ==
  [aggregate |-> a,
   initiator |-> a.initiator, definition |-> EncodeDefinition(a.nodes), data |-> Nullable(a.data),
   tasksNil |-> a.tasks = Nil, auditNil |-> a.audit = Nil, version |-> a.version,
   tasks |-> Each(StoredTask, a.tasks), audit |-> Each(StoredRecord, a.audit)]

-----------------------------------------------------------------------------
(* Decoding. *)

\* ORDER BY ordinal; ordinals count from zero.
Ordered(rows) ==
  LET before(i) == {j \in DOMAIN rows : j < i} IN
  [n \in 1 .. Cardinality(DOMAIN rows) |->
     rows[CHOOSE i \in DOMAIN rows : Cardinality(before(i)) = n - 1]]

\* loadTasks, loadAudit.
Slice(rows, isNil) == IF isNil /\ DOMAIN rows = {} THEN Nil ELSE Ordered(rows)

Assembled(rows) ==
  [initiator |-> rows.parent.initiator, nodes |-> DecodeDefinition(rows.parent.definition),
   data |-> Bytes(rows.parent.data),
   tasks |-> Slice(rows.tasks, rows.parent.tasksNil),
   audit |-> Slice(rows.audit, rows.parent.auditNil),
   version |-> rows.parent.version]

-----------------------------------------------------------------------------

Init ==
  /\ adapter \in Adapters
  /\ db = Absent /\ tx = Absent
  /\ candidate = Nil /\ call = Nil /\ snapshot = Nil
  /\ auditOffset = 0 /\ written = 0
  /\ pc = "idle" /\ answer = "none"
  /\ loaded = Nil /\ kept = Nil

CallCreate ==
  /\ pc = "idle" /\ ~db.exists
  /\ \E aggregate \in Fresh : candidate' = aggregate
  /\ call' = [op |-> "create", expected |-> 0, extends |-> TRUE]
  /\ pc' = "encode" /\ answer' = "none"
  /\ UNCHANGED <<db, tx, snapshot, auditOffset, written, loaded, kept>>

\* A snapshot with what a command changes, or with a history of its own.
Retold(record) == [record EXCEPT !.reason = Blank]
Changed(tasks, data, audit) ==
  [loaded EXCEPT !.tasks = tasks, !.data = data, !.version = @ + 1,
                 !.audit = IF audit = << >> THEN @ ELSE audit]
CallSave ==
  /\ pc = "idle" /\ loaded # Nil /\ loaded.version < MaxVersion
  /\ \E tasks \in TaskLists, data \in Payloads, extension \in Extensions,
        history \in {List(loaded.audit), << >>, Each(Retold, loaded.audit)} :
       candidate' = Changed(tasks, data, history \o extension)
  /\ call' = [op |-> "save", expected |-> loaded.version,
              extends |-> IsPrefix(List(loaded.audit), List(candidate'.audit))]
  /\ pc' = "encode" /\ answer' = "none"
  /\ UNCHANGED <<db, tx, snapshot, auditOffset, written, loaded, kept>>

\* The call is over, and with it the transaction.
Answer(a) ==
  /\ answer' = a /\ pc' = "idle"
  /\ tx' = Absent /\ candidate' = Nil /\ snapshot' = Nil
  /\ auditOffset' = 0 /\ written' = 0

Encode ==
  /\ pc = "encode"
  /\ IF Storable(candidate)
     THEN /\ pc' = "parent" /\ snapshot' = EncodeSnapshot(candidate) /\ tx' = db
          /\ UNCHANGED <<candidate, auditOffset, written, answer>>
     ELSE Answer("invalid")
  /\ UNCHANGED <<db, call, loaded, kept>>

\* The caller's own slices, once the adapter has its copy.
Scribble ==
  /\ pc \notin {"idle", "encode"}
  /\ candidate' = [candidate EXCEPT !.data = Nil, !.tasks = Nil, !.audit = Nil]
  /\ UNCHANGED <<db, tx, call, snapshot, auditOffset, written, pc, answer, loaded, kept>>

\* What the server refuses: bytes that are no text, tasks whose ids became one,
\* and what a CHECK excludes.
Refused(a) ==
  \/ (Columns(a) \union ProjectedColumns(a)) \intersect Invalid # {}
  \/ ~IsInjective(Ids(Each(StoredTask, a.tasks)))
  \/ adapter \in Enforcing /\ ~NonEmpty(a)

ParentArguments ==
  [initiator |-> snapshot.initiator, definition |-> snapshot.definition, data |-> snapshot.data,
   tasksNil |-> snapshot.tasksNil, auditNil |-> snapshot.auditNil, version |-> snapshot.version]

WriteParent ==
  /\ pc = "parent"
  /\ IF call.op = "save" /\ tx.parent.version # call.expected
     THEN Answer("conflict")
     ELSE /\ tx' = [tx EXCEPT !.exists = TRUE, !.parent = ParentArguments]
          /\ pc' = IF call.op = "save" THEN "history" ELSE "tasks"
          /\ UNCHANGED <<candidate, snapshot, auditOffset, written, answer>>
  /\ UNCHANGED <<db, call, loaded, kept>>

\* Rewrites, mutated: a save must add a record.
RewritesOrKeeps(durable, audit) ==
  Len(audit) <= Len(durable) \/ ~IsPrefix(durable, audit)
\* validateAuditAppend: the durable prefix, compared value by value.
Rewrites(durable, audit) ==
  Len(audit) < Len(durable) \/ ~IsPrefix(durable, audit)

DeleteRows(rows) == [rows EXCEPT !.tasks = NoRows]

ReplaceCollections ==
  /\ pc = "history"
  /\ IF Rewrites(Ordered(tx.audit), List(snapshot.aggregate.audit))
     THEN Answer("rewrite")
     ELSE /\ auditOffset' = Cardinality(DOMAIN tx.audit)
          /\ tx' = DeleteRows(tx) /\ pc' = "tasks"
          /\ UNCHANGED <<candidate, snapshot, written, answer>>
  /\ UNCHANGED <<db, call, loaded, kept>>

\* Insert, mutated: every batch counts its rows from the first.
InsertFromZero(table, payloads, first) ==
  [i \in DOMAIN table \union 0 .. Len(payloads) - 1 |->
     IF i < Len(payloads) THEN payloads[i + 1] ELSE table[i]]
\* Rows at the ordinals from first on.
Insert(table, payloads, first) ==
  [i \in DOMAIN table \union first .. first + Len(payloads) - 1 |->
     IF i >= first /\ i < first + Len(payloads) THEN payloads[i - first + 1] ELSE table[i]]

\* One INSERT of MySQL takes a batch; COPY takes everything.
Rest(payloads) == SubSeq(payloads, written + 1, Len(payloads))
Statement(payloads) ==
  IF adapter = "mysql" /\ Len(Rest(payloads)) > Batch THEN SubSeq(Rest(payloads), 1, Batch) ELSE Rest(payloads)

InsertTasks ==
  /\ pc = "tasks"
  /\ LET rows == Statement(snapshot.tasks)
         done == written + Len(rows) = Len(snapshot.tasks)
     IN  /\ tx' = [tx EXCEPT !.tasks = Insert(@, rows, written)]
         /\ pc' = IF done THEN "audit" ELSE pc
         /\ written' = IF done THEN auditOffset ELSE written + Len(rows)
  /\ UNCHANGED <<db, candidate, call, snapshot, auditOffset, answer, loaded, kept>>

\* The suffix the database does not have.
InsertAudit ==
  /\ pc = "audit"
  /\ LET rows == Statement(snapshot.audit)
         done == written + Len(rows) = Len(snapshot.audit)
     IN  /\ tx' = [tx EXCEPT !.audit = Insert(@, rows, written)]
         /\ pc' = IF done THEN "commit" ELSE pc
         /\ written' = written + Len(rows)
  /\ UNCHANGED <<db, candidate, call, snapshot, auditOffset, answer, loaded, kept>>

\* Had the server refused a value, a statement would have failed before.
Commit ==
  /\ pc = "commit" /\ ~Refused(snapshot.aggregate)
  /\ db' = tx
  /\ kept' = snapshot.aggregate
  /\ Answer("ok")
  /\ UNCHANGED <<call, loaded>>

\* A statement fails, for the values it carries or otherwise: rollback.
Fail ==
  /\ pc \in {"parent", "history", "tasks", "audit", "commit"}
  /\ Answer("failed")
  /\ UNCHANGED <<db, call, loaded, kept>>

Load ==
  /\ pc = "idle" /\ db.exists
  /\ loaded' = Assembled(db)
  /\ call' = Nil /\ answer' = "none"
  /\ UNCHANGED <<db, tx, candidate, snapshot, auditOffset, written, pc, kept>>

Next ==
  /\ \/ CallCreate \/ CallSave \/ Encode \/ Scribble
     \/ WriteParent \/ ReplaceCollections \/ InsertTasks \/ InsertAudit
     \/ Commit \/ Fail \/ Load
  /\ UNCHANGED adapter

Spec == Init /\ [][Next]_vars

-----------------------------------------------------------------------------

\* But for the monotonic clock reading, which no reader can want, and for bytes
\* that are no text: no string of a payload keeps them, ids and actions included.
DurableTask(task) == Task(Text(task.id), Text(task.assignee))
DurableRecord(record) == Record(Text(record.action), Text(record.reason), FALSE)
Durable(a) ==
  [a EXCEPT !.tasks = IF a.tasks = Nil THEN Nil ELSE Each(DurableTask, a.tasks),
            !.audit = IF a.audit = Nil THEN Nil ELSE Each(DurableRecord, a.audit)]

(***************************************************************************)
(* What a load gives is the aggregate of the last commit as it was when it *)
(* was passed, whatever its caller did to it since, nil slices as nil      *)
(* slices and no row lost between two batches or between the durable       *)
(* prefix and the suffix; strings of payloads that are no text come back   *)
(* replaced, all others as they were (codec.go of both adapters).          *)
(***************************************************************************)
LoadedIsWhatWasSaved == db.exists => Assembled(db) = Durable(kept)

(***************************************************************************)
(* A caller that adds to what it loaded is never told that it rewrites the *)
(* history: records compare equal although a stored one is another value   *)
(* than the one that was passed (validateAuditAppend).                     *)
(***************************************************************************)
NoFalseRewrite == answer = "rewrite" => ~call.extends

(***************************************************************************)
(* "Invalid aggregates are rejected even when a host connects to a MySQL   *)
(* version that does not enforce CHECK constraints" (validateStoredValues),*)
(* no column is longer than the schema has it, and no two tasks of an      *)
(* instance have one id, be it that replacing bytes made them equal.       *)
(***************************************************************************)
RowsMeetTheSchema ==
  db.exists =>
    /\ NonEmpty(Assembled(db)) /\ IsInjective(Ids(Assembled(db).tasks))
    /\ adapter = "mysql" => Columns(Assembled(db)) \intersect Long = {}
=============================================================================
