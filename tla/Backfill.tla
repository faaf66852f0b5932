-------------------------------- MODULE Backfill --------------------------------
(***************************************************************************)
(* postgres/migrations/0003_query_projection_backfill.up.sql: one statement*)
(* that derives the query rows of all existing aggregates, beside hosts    *)
(* that save.  Hosts of the earlier adapter write aggregates only; hosts of*)
(* this one replace the query rows of what they save (projection_write.go).*)
(*                                                                         *)
(* The statement reads one snapshot (READ COMMITTED), then writes instance *)
(* after instance; it waits for an instance's row while a save holds it,   *)
(* and overwrites what it then finds with what it read before.  A save     *)
(* locks the instance row before it touches the task rows, and so does the *)
(* statement; hence each writes an instance's rows in one step here.       *)
(*                                                                         *)
(* A version stands for the columns of an instance row; of its task rows   *)
(* the status is kept, by ordinal.                                         *)
(***************************************************************************)
EXTENDS Naturals, Sequences, SequencesExt

CONSTANTS
  Instances,
  Savers,      \* transactions that hosts of this adapter may have open at once
  Absent,      \* no row, no snapshot, no transaction
  MaxVersion   \* bound of the model

ASSUME BackfillAssumption ==
  /\ MaxVersion \in Nat
  /\ Absent \notin Nat

VARIABLES
  earlier,     \* whether hosts of the earlier adapter run
  rolling,     \* this adapter or the migration began to write while they did
  version,     \* committed aggregates: the version,
  tasks,       \* and the tasks' statuses
  row,         \* committed query rows: the version an instance row was made from,
  taskRows,    \* and its task rows
  save,        \* open transactions of Store.Save: what each will commit
  fill,        \* the open migration
  migrated,    \* it has run since hosts of the earlier adapter stopped
  excuse       \* for each instance, what has happened to its query rows

vars == <<earlier, rolling, version, tasks, row, taskRows, save, fill, migrated, excuse>>

Statuses == Seq({"active", "completed"})
Save == [instance : Instances, version : Nat, tasks : Statuses, locks : BOOLEAN]
Fill == [version : [Instances -> Nat \union {Absent}],      \* its snapshot
         tasks : [Instances -> Statuses],
         row : [Instances -> Nat \union {Absent}],          \* what it has written
         taskRows : [Instances -> Statuses],
         final : BOOLEAN]

TypeOK ==
  /\ earlier \in BOOLEAN
  /\ rolling \in BOOLEAN
  /\ version \in [Instances -> Nat \union {Absent}]
  /\ tasks \in [Instances -> Statuses]
  /\ row \in [Instances -> Nat \union {Absent}]
  /\ taskRows \in [Instances -> Statuses]
  /\ save \in [Savers -> Save \union {Absent}]
  /\ fill \in Fill \union {Absent}
  /\ migrated \in BOOLEAN
  /\ excuse \in [Instances -> SUBSET {"unprojected", "overtaken", "kept"}]

Init ==
  /\ earlier = TRUE
  /\ rolling = FALSE
  /\ version = [i \in Instances |-> Absent]
  /\ tasks = [i \in Instances |-> << >>]
  /\ row = [i \in Instances |-> Absent]
  /\ taskRows = [i \in Instances |-> << >>]
  /\ save = [s \in Savers |-> Absent]
  /\ fill = Absent
  /\ migrated = FALSE
  /\ excuse = [i \in Instances |-> {}]

-----------------------------------------------------------------------------
(* Aggregates and their writers. *)

NextVersion(i) == IF version[i] = Absent THEN 1 ELSE version[i] + 1

\* A command completes the active task and may open another.
Decided(history) == [t \in DOMAIN history |-> "completed"]
NextTasks(i) == {Decided(tasks[i]), Append(Decided(tasks[i]), "active")}

\* The parent row of the instance is locked by an open save.
Saving(i) == \E s \in Savers : save[s] # Absent /\ save[s].instance = i

\* Its query row is locked: by a save that has upserted it, or by the migration.
RowIsLocked(i) ==
  \/ \E s \in Savers : save[s] # Absent /\ save[s].instance = i /\ save[s].locks
  \/ fill # Absent /\ fill.row[i] # Absent

\* Create or Save of the earlier adapter: one transaction, no query rows.
EarlierCommit(i) ==
  /\ earlier
  /\ NextVersion(i) <= MaxVersion
  /\ ~Saving(i)
  /\ version' = [version EXCEPT ![i] = NextVersion(i)]
  /\ \E history \in NextTasks(i) : tasks' = [tasks EXCEPT ![i] = history]
  /\ excuse' = [excuse EXCEPT ![i] = @ \union {"unprojected"}]
  /\ UNCHANGED <<earlier, row, taskRows, save, fill, migrated, rolling>>

StopEarlier ==
  /\ earlier
  /\ earlier' = FALSE
  /\ UNCHANGED <<version, tasks, row, taskRows, save, fill, migrated, excuse, rolling>>

\* The conditional update, which locks the parent row.  Create's insert is the
\* same with a row nobody else sees.
SaveAggregate(s, i) ==
  /\ save[s] = Absent
  /\ NextVersion(i) <= MaxVersion
  /\ ~Saving(i)
  /\ \E history \in NextTasks(i) :
       save' = [save EXCEPT ![s] = [instance |-> i, version |-> NextVersion(i),
                                    tasks |-> history, locks |-> FALSE]]
  /\ rolling' = (rolling \/ earlier)
  /\ UNCHANGED <<earlier, version, tasks, row, taskRows, fill, migrated, excuse>>

\* upsertInstanceProjectionSQL: waits for the row, then holds it.
UpsertRow(s) ==
  /\ save[s] # Absent
  /\ ~save[s].locks
  /\ ~RowIsLocked(save[s].instance)
  /\ save' = [save EXCEPT ![s].locks = TRUE]
  /\ UNCHANGED <<earlier, version, tasks, row, taskRows, fill, migrated, excuse, rolling>>

\* The delete and the copy of the task rows, and COMMIT.
CommitSave(s) ==
  /\ save[s] # Absent
  /\ save[s].locks
  /\ LET i == save[s].instance IN
     /\ version' = [version EXCEPT ![i] = save[s].version]
     /\ tasks' = [tasks EXCEPT ![i] = save[s].tasks]
     /\ row' = [row EXCEPT ![i] = save[s].version]
     /\ taskRows' = [taskRows EXCEPT ![i] = save[s].tasks]
     /\ excuse' = [excuse EXCEPT ![i] = {}]
  /\ save' = [save EXCEPT ![s] = Absent]
  /\ UNCHANGED <<earlier, fill, migrated, rolling>>

\* SaveFails, mutated: the query rows are written outside the transaction.
KeepQueryRows(s) ==
  /\ save[s] # Absent
  /\ LET i == save[s].instance IN
     IF save[s].locks
     THEN /\ row' = [row EXCEPT ![i] = save[s].version]
          /\ taskRows' = [taskRows EXCEPT ![i] = save[s].tasks]
     ELSE UNCHANGED <<row, taskRows>>
  /\ save' = [save EXCEPT ![s] = Absent]
  /\ UNCHANGED <<earlier, version, tasks, fill, migrated, excuse, rolling>>

SaveFails(s) ==
  /\ save[s] # Absent
  /\ save' = [save EXCEPT ![s] = Absent]
  /\ UNCHANGED <<earlier, version, tasks, row, taskRows, fill, migrated, excuse, rolling>>

-----------------------------------------------------------------------------
(* The migration. *)

\* Its snapshot; a host's tooling runs one at a time, and may run it again.
StartFill ==
  /\ fill = Absent
  /\ fill' = [version |-> version, tasks |-> tasks, row |-> [i \in Instances |-> Absent],
              taskRows |-> [i \in Instances |-> << >>], final |-> ~earlier]
  /\ rolling' = (rolling \/ earlier)
  /\ UNCHANGED <<earlier, version, tasks, row, taskRows, save, migrated, excuse>>

\* FillInstance, mutated: the task rows that exist are replaced from the snapshot.
FillReplacing(i) ==
  /\ fill # Absent
  /\ fill.version[i] # Absent /\ fill.row[i] = Absent
  /\ ~RowIsLocked(i)
  /\ fill' = [fill EXCEPT !.row[i] = fill.version[i], !.taskRows[i] = fill.tasks[i]]
  /\ UNCHANGED <<earlier, version, tasks, row, taskRows, save, migrated, excuse, rolling>>

\* FillInstance, mutated: an instance that has a row is left alone.
FillMissing(i) ==
  /\ fill # Absent
  /\ fill.version[i] # Absent /\ fill.row[i] = Absent
  /\ ~RowIsLocked(i)
  /\ fill' = [fill EXCEPT !.row[i] = IF row[i] = Absent THEN fill.version[i] ELSE row[i],
                          !.taskRows[i] = IF row[i] = Absent THEN fill.tasks[i] ELSE taskRows[i]]
  /\ UNCHANGED <<earlier, version, tasks, row, taskRows, save, migrated, excuse, rolling>>

\* ON CONFLICT DO NOTHING: a task row that exists stays.
InsertMissing(existing, read) == existing \o SubSeq(read, Len(existing) + 1, Len(read))

\* ON CONFLICT DO UPDATE for the instance row.
FillInstance(i) ==
  /\ fill # Absent
  /\ fill.version[i] # Absent /\ fill.row[i] = Absent
  /\ ~RowIsLocked(i)
  /\ fill' = [fill EXCEPT !.row[i] = fill.version[i],
                          !.taskRows[i] = InsertMissing(taskRows[i], fill.tasks[i])]
  /\ UNCHANGED <<earlier, version, tasks, row, taskRows, save, migrated, excuse, rolling>>

\* What the migration leaves to explain: it has read the aggregate as it is and
\* finds no old task rows, or keeps them, or a writer has overtaken it.
ExcuseAfterFill(i) ==
  IF fill.version[i] # version[i]
  THEN excuse[i] \union {"overtaken"}
  ELSE (excuse[i] \ {"unprojected", "overtaken"})
       \union IF "unprojected" \in excuse[i] /\ taskRows[i] # << >> THEN {"kept"} ELSE {}

CommitFill ==
  /\ fill # Absent
  /\ \A i \in Instances : fill.version[i] # Absent => fill.row[i] # Absent
  /\ row' = [i \in Instances |-> IF fill.row[i] = Absent THEN row[i] ELSE fill.row[i]]
  /\ taskRows' = [i \in Instances |->
                    IF fill.row[i] = Absent THEN taskRows[i] ELSE fill.taskRows[i]]
  /\ excuse' = [i \in Instances |->
                  IF fill.row[i] = Absent THEN excuse[i] ELSE ExcuseAfterFill(i)]
  /\ migrated' = (migrated \/ fill.final)
  /\ fill' = Absent
  /\ UNCHANGED <<earlier, version, tasks, save, rolling>>

\* Interrupted: the statement is undone as a whole.
FillFails ==
  /\ fill # Absent
  /\ fill' = Absent
  /\ UNCHANGED <<earlier, version, tasks, row, taskRows, save, migrated, excuse, rolling>>

Next ==
  \/ \E i \in Instances : EarlierCommit(i) \/ FillInstance(i)
  \/ \E s \in Savers :
       \/ \E i \in Instances : SaveAggregate(s, i)
       \/ UpsertRow(s) \/ CommitSave(s) \/ SaveFails(s)
  \/ StopEarlier \/ StartFill \/ CommitFill \/ FillFails

Spec == Init /\ [][Next]_vars

-----------------------------------------------------------------------------

RowIsCurrent(i) == row[i] = version[i]
TasksAreCurrent(i) == taskRows[i] = tasks[i]

(***************************************************************************)
(* Query rows lag behind their aggregate for three reasons only: its last  *)
(* writer knows no query rows; the migration, overtaken by a commit after  *)
(* its snapshot, put an older instance row back; or it kept task rows that *)
(* were stale when it ran.  The first save of this adapter ends all three. *)
(* In particular a race with saves never makes a task row stale, since the *)
(* migration waits for the row a save holds and then inserts only what is  *)
(* missing (0003, replaceQueryProjection).                                 *)
(***************************************************************************)
LagIsExplained ==
  \A i \in Instances :
    /\ RowIsCurrent(i) \/ excuse[i] \intersect {"unprojected", "overtaken"} # {}
    /\ TasksAreCurrent(i) \/ excuse[i] \intersect {"unprojected", "kept"} # {}

RowNeverLeads(i) == row[i] # Absent => version[i] # Absent /\ row[i] <= version[i]
TasksNeverLead(i) ==
  /\ Len(taskRows[i]) <= Len(tasks[i])
  /\ \A t \in DOMAIN taskRows[i] : taskRows[i][t] = "completed" => tasks[i][t] = "completed"

(***************************************************************************)
(* Query rows are never ahead of the aggregate: no listing shows a decision*)
(* or a task of a transaction that has not committed (replaceQueryProjection*)
(* and 0003 write inside transactions, from committed facts).              *)
(***************************************************************************)
QueryRowsNeverLead == \A i \in Instances : RowNeverLeads(i) /\ TasksNeverLead(i)

\* Two saves of an instance exclude each other, and one that holds its query
\* row excludes the migration.
LocksExclude ==
  /\ \A s, t \in Savers :
       save[s] # Absent /\ save[t] # Absent /\ save[s].instance = save[t].instance => s = t
  /\ \A s \in Savers :
       save[s] # Absent /\ save[s].locks /\ fill # Absent => fill.row[save[s].instance] = Absent

\* An open save holds the next step of its instance.
SaveIsNext(s) == /\ save[s].version = NextVersion(save[s].instance)
                 /\ save[s].tasks \in NextTasks(save[s].instance)

\* What the migration knows of an instance while it is open: a snapshot that is
\* not newer, and, once it holds the rows, what was committed before.
FillIsBehind(i) ==
  LET old == fill.tasks[i] IN
  /\ fill.version[i] = Absent => fill.row[i] = Absent
  /\ fill.version[i] # Absent =>
       /\ version[i] # Absent /\ fill.version[i] <= version[i]
       /\ Len(old) <= Len(tasks[i])
       /\ \A t \in DOMAIN old : old[t] = "completed" => tasks[i][t] = "completed"
       /\ fill.version[i] = version[i] => old = tasks[i]
  /\ fill.row[i] # Absent =>
       /\ fill.row[i] = fill.version[i]
       /\ fill.taskRows[i] = InsertMissing(taskRows[i], old)

(***************************************************************************)
(* The inductive invariant: the lag is explained, no query row leads, the  *)
(* locks on the rows exclude, and an open migration is behind what is      *)
(* committed (0003 beside Store.Save).                                     *)
(***************************************************************************)
BackfillInv ==
  /\ TypeOK
  /\ LagIsExplained
  /\ QueryRowsNeverLead
  /\ LocksExclude
  /\ \A s \in Savers : save[s] # Absent => SaveIsNext(s)
  /\ fill # Absent => \A i \in Instances : FillIsBehind(i)

(***************************************************************************)
(* Where the migration and this adapter's hosts start only after the       *)
(* earlier hosts stopped, the worklists are right as soon as the migration *)
(* has run, and stay so whatever saves run beside it and however often it  *)
(* runs again (0003).                                                      *)
(***************************************************************************)
WorklistsAreRight ==
  migrated /\ ~rolling => \A i \in Instances : TasksAreCurrent(i)

\* Why: until the earlier hosts stop there is no query row, and then only the
\* migration reads what they wrote.
CutoverInv ==
  ~rolling =>
    /\ earlier => /\ fill = Absent /\ ~migrated
                  /\ \A s \in Savers : save[s] = Absent
                  /\ \A i \in Instances : taskRows[i] = << >>
    /\ \A i \in Instances :
         /\ "kept" \notin excuse[i]
         /\ "unprojected" \in excuse[i] =>
              /\ version[i] # Absent /\ taskRows[i] = << >> /\ ~migrated
              /\ fill # Absent => fill.version[i] = version[i]

Settled == fill = Absent /\ \A s \in Savers : save[s] = Absent

(***************************************************************************)
(* "This migration is intentionally idempotent so hosts can resume an      *)
(* interrupted upgrade safely" (0003): when it has run and nothing is in   *)
(* progress, the task rows follow their aggregates.  The code: task rows   *)
(* that exist are kept as they are, so what the earlier adapter committed  *)
(* after them is never listed.                                             *)
(***************************************************************************)
ResumedTasksAreCurrent == migrated /\ Settled => \A i \in Instances : TasksAreCurrent(i)
=============================================================================
