------------------------------ MODULE BackfillProofs ------------------------------
(***************************************************************************)
(* The invariant of Backfill, for any number of instances, open saves and  *)
(* versions.                                                               *)
(***************************************************************************)
EXTENDS Backfill, SequenceTheorems, TLAPS

(***************************************************************************)
(* Inserting the task rows that are missing: those that exist stay, and    *)
(* what is added is the snapshot's (ON CONFLICT DO NOTHING).               *)
(***************************************************************************)
LEMMA InsertMissingFacts ==
  ASSUME NEW a \in Statuses, NEW b \in Statuses
  PROVE  /\ InsertMissing(a, b) \in Statuses
         /\ Len(b) <= Len(a) => InsertMissing(a, b) = a
         /\ Len(a) < Len(b) => Len(InsertMissing(a, b)) = Len(b)
         /\ \A t \in DOMAIN InsertMissing(a, b) :
              IF t \in DOMAIN a THEN InsertMissing(a, b)[t] = a[t]
              ELSE t \in DOMAIN b /\ InsertMissing(a, b)[t] = b[t]
         /\ a = << >> => InsertMissing(a, b) = b
<1> DEFINE S == {"active", "completed"}
           rest == SubSeq(b, Len(a) + 1, Len(b))
<1>0. a \in Seq(S) /\ b \in Seq(S) /\ Len(a) \in Nat /\ Len(b) \in Nat
  BY LenProperties DEF Statuses
<1>1. /\ rest \in Seq(S)
      /\ Len(rest) = IF Len(a) + 1 <= Len(b) THEN Len(b) - Len(a) ELSE 0
      /\ \A t \in 1..(Len(b) - Len(a)) : rest[t] = b[Len(a) + t]
  <2>1. \A t \in (Len(a) + 1)..Len(b) : b[t] \in S
    BY <1>0, ElementOfSeq
  <2> HIDE DEF S
  <2> QED
    BY <1>0, <2>1, SubSeqProperties
<1>2. /\ a \o rest \in Seq(S)
      /\ Len(a \o rest) = Len(a) + Len(rest)
      /\ \A t \in 1..Len(a) + Len(rest) :
           (a \o rest)[t] = IF t <= Len(a) THEN a[t] ELSE rest[t - Len(a)]
  <2> HIDE DEF S, rest
  <2> QED
    BY <1>0, <1>1, ConcatProperties
<1>3. Len(b) <= Len(a) => a \o rest = a
  <2>1. Len(b) <= Len(a) => rest = << >>
    BY <1>0, SubSeqEmpty
  <2> HIDE DEF rest, S
  <2> QED
    BY <1>0, <2>1, ConcatEmptySeq
<1>4. Len(a) < Len(b) => Len(a \o rest) = Len(b)
  BY <1>0, <1>1, <1>2
<1>5. ASSUME NEW t \in DOMAIN (a \o rest)
      PROVE  IF t \in DOMAIN a THEN (a \o rest)[t] = a[t]
             ELSE t \in DOMAIN b /\ (a \o rest)[t] = b[t]
  <2>1. /\ DOMAIN a = 1..Len(a) /\ DOMAIN b = 1..Len(b)
        /\ DOMAIN (a \o rest) = 1..Len(a) + Len(rest)
    BY <1>0, <1>2, LenProperties
  <2>2. CASE t <= Len(a)
    BY <1>0, <1>1, <1>2, <2>1, <2>2
  <2>3. CASE ~(t <= Len(a))
    <3>1. t \in Int /\ t > Len(a) /\ t <= Len(a) + Len(rest) /\ Len(a) + 1 <= Len(b)
      BY <1>0, <1>1, <2>1, <2>3
    <3>2. t - Len(a) \in 1..(Len(b) - Len(a)) /\ t <= Len(b)
      BY <1>0, <1>1, <3>1
    <3>3. (a \o rest)[t] = rest[t - Len(a)]
      BY <1>0, <1>1, <1>2, <2>1, <3>1
    <3>4. rest[t - Len(a)] = b[t]
      <4>1. rest[t - Len(a)] = b[Len(a) + (t - Len(a))]
        BY <1>1, <3>2
      <4>2. Len(a) + (t - Len(a)) = t
        BY <1>0, <3>1
      <4> QED
        BY <4>1, <4>2
    <3> QED
      BY <1>0, <2>1, <3>1, <3>2, <3>3, <3>4
  <2> QED
    BY <2>2, <2>3
<1>6. a = << >> => a \o rest = b
  <2> SUFFICES ASSUME a = << >> PROVE a \o rest = b
    OBVIOUS
  <2>1. Len(a) = 0 /\ rest = SubSeq(b, 1, Len(b))
    <3>1. Len(a) = 0
      OBVIOUS
    <3> QED
      BY <3>1
  <2>2. rest = b
    BY <1>0, <2>1, SubSeqFull
  <2> HIDE DEF rest, S
  <2> QED
    BY <1>0, <2>2, ConcatEmptySeq
<1> QED
  BY <1>2, <1>3, <1>4, <1>5, <1>6 DEF InsertMissing, Statuses

(***************************************************************************)
(* A command only moves tasks forward (NextTasks: completes, appends).     *)
(***************************************************************************)
LEMMA NextTasksForward ==
  ASSUME TypeOK, NEW i \in Instances, NEW next \in NextTasks(i)
  PROVE  /\ next \in Statuses
         /\ Len(tasks[i]) <= Len(next)
         /\ \A t \in DOMAIN tasks[i] : next[t] = "completed"
<1> DEFINE S == {"active", "completed"}
           done == Decided(tasks[i])
<1>1. tasks[i] \in Seq(S) /\ Len(tasks[i]) \in Nat /\ DOMAIN tasks[i] = 1..Len(tasks[i])
  BY LenProperties DEF TypeOK, Statuses
<1>2. /\ done \in Seq(S) /\ Len(done) = Len(tasks[i])
      /\ \A t \in DOMAIN tasks[i] : done[t] = "completed"
  <2>1. done \in [1..Len(tasks[i]) -> S]
    BY <1>1 DEF Decided
  <2> QED
    BY <1>1, <2>1 DEF Decided
<1>3. CASE next = done
  BY <1>1, <1>2, <1>3 DEF Statuses
<1>4. CASE next = Append(done, "active")
  <2>1. /\ next \in Seq(S) /\ Len(next) = Len(done) + 1
        /\ \A t \in 1..Len(done) : next[t] = done[t]
    <3> HIDE DEF done
    <3> QED
      BY <1>2, <1>4, AppendProperties
  <2> QED
    BY <1>1, <1>2, <2>1 DEF Statuses
<1> QED
  BY <1>3, <1>4 DEF NextTasks

LEMMA NextVersionIsNewer ==
  ASSUME TypeOK, NEW i \in Instances
  PROVE  NextVersion(i) \in Nat /\ (version[i] # Absent => version[i] < NextVersion(i))
  BY DEF TypeOK, NextVersion

LEMMA InitInv == Init => BackfillInv
<1> SUFFICES ASSUME Init PROVE BackfillInv
  OBVIOUS
<1>1. << >> \in Statuses /\ Len(<< >>) = 0 /\ DOMAIN << >> = {}
  BY EmptySeq DEF Statuses
<1>2. TypeOK
  BY <1>1 DEF Init, TypeOK
<1>3. LagIsExplained /\ QueryRowsNeverLead
  BY <1>1 DEF Init, LagIsExplained, QueryRowsNeverLead, RowIsCurrent, TasksAreCurrent,
              RowNeverLeads, TasksNeverLead
<1>4. LocksExclude /\ (\A s \in Savers : save[s] = Absent) /\ fill = Absent
  BY DEF Init, LocksExclude
<1> QED
  BY <1>2, <1>3, <1>4 DEF BackfillInv

\* What a commit of the aggregate of i leaves of an open migration.
LEMMA FillStaysBehind ==
  ASSUME BackfillInv, TypeOK', fill # Absent, fill' = fill,
         NEW i \in Instances, NEW next \in NextTasks(i),
         version' = [version EXCEPT ![i] = NextVersion(i)],
         tasks' = [tasks EXCEPT ![i] = next],
         \A j \in Instances : fill.row[j] # Absent => taskRows'[j] = taskRows[j]
  PROVE  \A j \in Instances : FillIsBehind(j)'
<1>1. TypeOK /\ fill \in Fill /\ \A j \in Instances : FillIsBehind(j)
  BY DEF BackfillInv, TypeOK
<1>2. SUFFICES ASSUME NEW j \in Instances PROVE FillIsBehind(j)'
  OBVIOUS
<1>3. /\ fill.version[j] \in Nat \union {Absent} /\ fill.tasks[j] \in Statuses
      /\ version[j] \in Nat \union {Absent} /\ tasks[j] \in Statuses
      /\ Len(fill.tasks[j]) \in Nat /\ Len(tasks[j]) \in Nat
      /\ DOMAIN fill.tasks[j] = 1..Len(fill.tasks[j]) /\ DOMAIN tasks[j] = 1..Len(tasks[j])
  BY <1>1, LenProperties DEF TypeOK, Fill, Statuses
<1>4. CASE j # i
  <2>1. version'[j] = version[j] /\ tasks'[j] = tasks[j]
    BY <1>1, <1>4 DEF TypeOK
  <2> QED
    BY <1>1, <2>1 DEF FillIsBehind
<1>5. CASE j = i
  <2>1. version'[j] = NextVersion(j) /\ tasks'[j] = next
    BY <1>1, <1>5 DEF TypeOK
  <2>2. /\ next \in Statuses /\ Len(tasks[j]) <= Len(next) /\ Len(next) \in Nat
        /\ \A t \in DOMAIN tasks[j] : next[t] = "completed"
    BY <1>1, <1>5, NextTasksForward, LenProperties DEF Statuses
  <2>3. NextVersion(j) \in Nat /\ NextVersion(j) # Absent
        /\ (version[j] # Absent => version[j] < NextVersion(j))
    BY <1>1, NextVersionIsNewer, BackfillAssumption
  <2>4. fill.version[j] # Absent => fill.version[j] < NextVersion(j)
    BY <1>1, <1>3, <2>3 DEF FillIsBehind
  <2> QED
    BY <1>1, <1>3, <2>1, <2>2, <2>3, <2>4 DEF FillIsBehind
<1> QED
  BY <1>4, <1>5

LEMMA EarlierCommitPreserves ==
  ASSUME BackfillInv, NEW i \in Instances, EarlierCommit(i)
  PROVE  BackfillInv'
<1>1. PICK next \in NextTasks(i) : tasks' = [tasks EXCEPT ![i] = next]
  BY DEF EarlierCommit
<1>2. /\ TypeOK
      /\ version' = [version EXCEPT ![i] = NextVersion(i)]
      /\ excuse' = [excuse EXCEPT ![i] = @ \union {"unprojected"}]
      /\ ~Saving(i)
      /\ UNCHANGED <<earlier, row, taskRows, save, fill, migrated, rolling>>
  BY DEF EarlierCommit, BackfillInv
<1>3. next \in Statuses /\ NextVersion(i) \in Nat
  BY <1>2, NextTasksForward, NextVersionIsNewer
<1>4. TypeOK'
  BY <1>1, <1>2, <1>3 DEF TypeOK
<1>5. LagIsExplained'
  <2>1. SUFFICES ASSUME NEW j \in Instances
                 PROVE  /\ RowIsCurrent(j)' \/ excuse'[j] \intersect {"unprojected", "overtaken"} # {}
                        /\ TasksAreCurrent(j)' \/ excuse'[j] \intersect {"unprojected", "kept"} # {}
    BY DEF LagIsExplained
  <2>2. CASE j = i
    <3>1. "unprojected" \in excuse'[j]
      BY <1>2, <2>2 DEF TypeOK
    <3> QED
      BY <3>1
  <2>3. CASE j # i
    BY <1>1, <1>2, <2>3 DEF TypeOK, BackfillInv, LagIsExplained, RowIsCurrent, TasksAreCurrent
  <2> QED
    BY <2>2, <2>3
<1>6. QueryRowsNeverLead'
  <2>1. SUFFICES ASSUME NEW j \in Instances PROVE RowNeverLeads(j)' /\ TasksNeverLead(j)'
    BY DEF QueryRowsNeverLead
  <2>2. RowNeverLeads(j) /\ TasksNeverLead(j)
    BY DEF BackfillInv, QueryRowsNeverLead
  <2>3. CASE j # i
    BY <1>1, <1>2, <2>2, <2>3 DEF TypeOK, RowNeverLeads, TasksNeverLead
  <2>4. CASE j = i
    <3>1. version'[j] = NextVersion(j) /\ tasks'[j] = next /\ row'[j] = row[j] /\ taskRows'[j] = taskRows[j]
      BY <1>1, <1>2, <2>4 DEF TypeOK
    <3>2. RowNeverLeads(j)'
      BY <1>2, <1>3, <2>2, <2>4, <3>1, NextVersionIsNewer, BackfillAssumption DEF RowNeverLeads, TypeOK
    <3>3. /\ Len(taskRows[j]) \in Nat /\ DOMAIN taskRows[j] = 1..Len(taskRows[j])
          /\ Len(tasks[j]) \in Nat /\ DOMAIN tasks[j] = 1..Len(tasks[j]) /\ Len(next) \in Nat
      BY <1>2, <1>3, LenProperties DEF TypeOK, Statuses
    <3>4. Len(tasks[j]) <= Len(next) /\ \A t \in DOMAIN tasks[j] : next[t] = "completed"
      BY <1>2, <2>4, NextTasksForward
    <3>5. TasksNeverLead(j)'
      BY <2>2, <3>1, <3>3, <3>4 DEF TasksNeverLead
    <3> QED
      BY <3>2, <3>5
  <2> QED
    BY <2>3, <2>4
<1>7. LocksExclude'
  BY <1>2 DEF BackfillInv, LocksExclude
<1>8. \A s \in Savers : save'[s] # Absent => SaveIsNext(s)'
  <2>1. SUFFICES ASSUME NEW s \in Savers, save[s] # Absent PROVE SaveIsNext(s)'
    BY <1>2
  <2>2. save[s].instance # i /\ save[s] \in Save /\ SaveIsNext(s)
    BY <1>2, <2>1 DEF Saving, TypeOK, BackfillInv
  <2> QED
    BY <1>1, <1>2, <2>2 DEF SaveIsNext, NextVersion, NextTasks, TypeOK, Save
<1>9. fill' # Absent => \A j \in Instances : FillIsBehind(j)'
  BY <1>1, <1>2, <1>4, FillStaysBehind
<1> QED
  BY <1>4, <1>5, <1>6, <1>7, <1>8, <1>9 DEF BackfillInv

\* Steps that change nothing an aggregate or its rows consist of.
LEMMA QuietPreserves ==
  ASSUME BackfillInv, TypeOK', UNCHANGED <<version, tasks, row, taskRows, excuse>>
  PROVE  /\ LagIsExplained' /\ QueryRowsNeverLead'
         /\ (\A s \in Savers : save'[s] # Absent => save'[s] = save[s])
              => \A s \in Savers : save'[s] # Absent => SaveIsNext(s)'
         /\ fill' = fill => (fill' # Absent => \A i \in Instances : FillIsBehind(i)')
<1>1. LagIsExplained'
  BY DEF BackfillInv, LagIsExplained, RowIsCurrent, TasksAreCurrent
<1>2. QueryRowsNeverLead'
  BY DEF BackfillInv, QueryRowsNeverLead, RowNeverLeads, TasksNeverLead
<1>3. ASSUME \A s \in Savers : save'[s] # Absent => save'[s] = save[s]
      PROVE  \A s \in Savers : save'[s] # Absent => SaveIsNext(s)'
  BY <1>3 DEF BackfillInv, SaveIsNext, NextVersion, NextTasks
<1>4. ASSUME fill' = fill, fill' # Absent PROVE \A i \in Instances : FillIsBehind(i)'
  BY <1>4 DEF BackfillInv, FillIsBehind
<1> QED
  BY <1>1, <1>2, <1>3, <1>4

LEMMA StopEarlierPreserves ==
  ASSUME BackfillInv, StopEarlier \/ UNCHANGED vars
  PROVE  BackfillInv'
<1>1. TypeOK' /\ UNCHANGED <<version, tasks, row, taskRows, save, fill, excuse, rolling>>
  BY DEF StopEarlier, vars, BackfillInv, TypeOK
<1>2. LocksExclude'
  BY <1>1 DEF BackfillInv, LocksExclude
<1> QED
  BY <1>1, <1>2, QuietPreserves DEF BackfillInv

LEMMA SaveAggregatePreserves ==
  ASSUME BackfillInv, NEW s \in Savers, NEW i \in Instances, SaveAggregate(s, i)
  PROVE  BackfillInv'
<1>1. PICK next \in NextTasks(i) :
        save' = [save EXCEPT ![s] = [instance |-> i, version |-> NextVersion(i),
                                     tasks |-> next, locks |-> FALSE]]
  BY DEF SaveAggregate
<1>2. /\ TypeOK /\ ~Saving(i) /\ save[s] = Absent
      /\ rolling' = (rolling \/ earlier)
      /\ UNCHANGED <<earlier, version, tasks, row, taskRows, fill, migrated, excuse>>
  BY DEF SaveAggregate, BackfillInv
<1>3. next \in Statuses /\ NextVersion(i) \in Nat
  BY <1>2, NextTasksForward, NextVersionIsNewer
<1>4. TypeOK'
  BY <1>1, <1>2, <1>3 DEF TypeOK, Save
<1>5. /\ save'[s].instance = i /\ ~save'[s].locks
      /\ save'[s].version = NextVersion(i) /\ save'[s].tasks = next
      /\ \A r \in Savers \ {s} : save'[r] = save[r]
  BY <1>1, <1>2 DEF TypeOK
<1>6. LocksExclude'
  BY <1>2, <1>5 DEF BackfillInv, LocksExclude, Saving
<1>7. \A r \in Savers : save'[r] # Absent => SaveIsNext(r)'
  BY <1>2, <1>5 DEF BackfillInv, SaveIsNext, NextVersion, NextTasks
<1> QED
  BY <1>2, <1>4, <1>6, <1>7, QuietPreserves DEF BackfillInv

LEMMA UpsertRowPreserves ==
  ASSUME BackfillInv, NEW s \in Savers, UpsertRow(s)
  PROVE  BackfillInv'
<1>1. /\ TypeOK /\ save[s] \in Save /\ save[s] # Absent
      /\ save' = [save EXCEPT ![s].locks = TRUE]
      /\ ~RowIsLocked(save[s].instance)
      /\ UNCHANGED <<earlier, version, tasks, row, taskRows, fill, migrated, excuse, rolling>>
  BY DEF UpsertRow, BackfillInv, TypeOK
<1>2. /\ save'[s] \in Save
      /\ save'[s].instance = save[s].instance
      /\ save'[s].version = save[s].version /\ save'[s].tasks = save[s].tasks
      /\ \A r \in Savers \ {s} : save'[r] = save[r]
  BY <1>1 DEF TypeOK, Save
<1>3. TypeOK'
  BY <1>1, <1>2 DEF TypeOK
<1>4. LocksExclude'
  <2>1. fill # Absent => fill.row[save[s].instance] = Absent
    BY <1>1 DEF RowIsLocked
  <2>2. \A r \in Savers : /\ save'[r] # Absent => save[r] # Absent
                          /\ save[r] # Absent => save'[r].instance = save[r].instance
    BY <1>1, <1>2
  <2> QED
    BY <1>1, <1>2, <2>1, <2>2 DEF BackfillInv, LocksExclude
<1>5. \A r \in Savers : save'[r] # Absent => SaveIsNext(r)'
  BY <1>1, <1>2 DEF BackfillInv, SaveIsNext, NextVersion, NextTasks
<1> QED
  BY <1>1, <1>3, <1>4, <1>5, QuietPreserves DEF BackfillInv

LEMMA SaveFailsPreserves ==
  ASSUME BackfillInv, NEW s \in Savers, SaveFails(s)
  PROVE  BackfillInv'
<1>1. /\ TypeOK
      /\ save' = [save EXCEPT ![s] = Absent]
      /\ UNCHANGED <<earlier, version, tasks, row, taskRows, fill, migrated, excuse, rolling>>
  BY DEF SaveFails, BackfillInv
<1>2. TypeOK' /\ \A r \in Savers : save'[r] # Absent => save'[r] = save[r]
  BY <1>1 DEF TypeOK
<1>3. LocksExclude'
  BY <1>1, <1>2 DEF BackfillInv, LocksExclude
<1> QED
  BY <1>1, <1>2, <1>3, QuietPreserves DEF BackfillInv

LEMMA CommitSavePreserves ==
  ASSUME BackfillInv, NEW s \in Savers, CommitSave(s)
  PROVE  BackfillInv'
<1>0. PICK i, next : i = save[s].instance /\ next = save[s].tasks
  OBVIOUS
<1>1. /\ TypeOK /\ save[s] \in Save /\ save[s] # Absent /\ save[s].locks
      /\ i \in Instances /\ next \in NextTasks(i) /\ save[s].version = NextVersion(i)
  BY <1>0 DEF CommitSave, BackfillInv, TypeOK, Save, SaveIsNext
<1>2. /\ version' = [version EXCEPT ![i] = NextVersion(i)]
      /\ tasks' = [tasks EXCEPT ![i] = next]
      /\ row' = [row EXCEPT ![i] = NextVersion(i)]
      /\ taskRows' = [taskRows EXCEPT ![i] = next]
      /\ excuse' = [excuse EXCEPT ![i] = {}]
      /\ save' = [save EXCEPT ![s] = Absent]
      /\ UNCHANGED <<earlier, fill, migrated, rolling>>
  BY <1>0, <1>1 DEF CommitSave
<1>3. next \in Statuses /\ NextVersion(i) \in Nat /\ NextVersion(i) # Absent
  BY <1>1, NextTasksForward, NextVersionIsNewer, BackfillAssumption
<1>4. TypeOK'
  BY <1>1, <1>2, <1>3 DEF TypeOK
<1>5. /\ version'[i] = NextVersion(i) /\ row'[i] = NextVersion(i)
      /\ tasks'[i] = next /\ taskRows'[i] = next /\ excuse'[i] = {}
      /\ \A j \in Instances \ {i} :
           /\ version'[j] = version[j] /\ row'[j] = row[j]
           /\ tasks'[j] = tasks[j] /\ taskRows'[j] = taskRows[j] /\ excuse'[j] = excuse[j]
  BY <1>1, <1>2 DEF TypeOK
<1>6. LagIsExplained'
  BY <1>5 DEF BackfillInv, LagIsExplained, RowIsCurrent, TasksAreCurrent
<1>7. QueryRowsNeverLead'
  <2>1. Len(next) \in Nat
    BY <1>3, LenProperties DEF Statuses
  <2>2. RowNeverLeads(i)' /\ TasksNeverLead(i)'
    BY <1>3, <1>5, <2>1 DEF RowNeverLeads, TasksNeverLead
  <2>3. \A j \in Instances \ {i} : RowNeverLeads(j)' /\ TasksNeverLead(j)'
    BY <1>5 DEF BackfillInv, QueryRowsNeverLead, RowNeverLeads, TasksNeverLead
  <2> QED
    BY <2>2, <2>3 DEF QueryRowsNeverLead
<1>8. \A r \in Savers : save'[r] # Absent =>
         save'[r] = save[r] /\ save[r] # Absent /\ save[r].instance # i
  BY <1>0, <1>1, <1>2 DEF BackfillInv, LocksExclude, TypeOK
<1>9. LocksExclude'
  BY <1>2, <1>8 DEF BackfillInv, LocksExclude
<1>10. \A r \in Savers : save'[r] # Absent => SaveIsNext(r)'
  <2>1. SUFFICES ASSUME NEW r \in Savers, save'[r] # Absent PROVE SaveIsNext(r)'
    OBVIOUS
  <2>2. save'[r] = save[r] /\ save[r].instance \in Instances \ {i} /\ SaveIsNext(r)
    BY <1>1, <1>8, <2>1 DEF BackfillInv, TypeOK, Save
  <2> QED
    BY <1>5, <2>2 DEF SaveIsNext, NextVersion, NextTasks
<1>11. fill' # Absent => \A j \in Instances : FillIsBehind(j)'
  <2>1. fill # Absent => fill.row[i] = Absent
    BY <1>0, <1>1 DEF BackfillInv, LocksExclude
  <2> QED
    BY <1>1, <1>2, <1>4, <1>5, <2>1, FillStaysBehind
<1> QED
  BY <1>4, <1>6, <1>7, <1>9, <1>10, <1>11 DEF BackfillInv

LEMMA StartFillPreserves ==
  ASSUME BackfillInv, StartFill
  PROVE  BackfillInv'
<1>1. /\ TypeOK
      /\ fill' = [version |-> version, tasks |-> tasks,
                  row |-> [i \in Instances |-> Absent],
                  taskRows |-> [i \in Instances |-> << >>], final |-> ~earlier]
      /\ rolling' = (rolling \/ earlier)
      /\ UNCHANGED <<earlier, version, tasks, row, taskRows, save, migrated, excuse>>
  BY DEF StartFill, BackfillInv
<1>2. << >> \in Statuses
  BY EmptySeq DEF Statuses
<1>3. TypeOK'
  BY <1>1, <1>2 DEF TypeOK, Fill
<1>4. LocksExclude'
  BY <1>1 DEF BackfillInv, LocksExclude, TypeOK, Save
<1>5. ASSUME NEW i \in Instances PROVE FillIsBehind(i)'
  <2>1. /\ fill'.version[i] = version[i] /\ fill'.tasks[i] = tasks[i] /\ fill'.row[i] = Absent
        /\ version'[i] = version[i] /\ tasks'[i] = tasks[i]
    BY <1>1
  <2>2. /\ version[i] # Absent => version[i] \in Nat
        /\ Len(tasks[i]) \in Nat /\ DOMAIN tasks[i] = 1..Len(tasks[i])
    BY <1>1, LenProperties DEF TypeOK, Statuses
  <2> QED
    BY <2>1, <2>2 DEF FillIsBehind
<1> QED
  BY <1>1, <1>3, <1>4, <1>5, QuietPreserves DEF BackfillInv

LEMMA FillInstancePreserves ==
  ASSUME BackfillInv, NEW i \in Instances, FillInstance(i)
  PROVE  BackfillInv'
<1>1. /\ TypeOK /\ fill \in Fill /\ fill # Absent
      /\ fill.version[i] # Absent /\ ~RowIsLocked(i)
      /\ fill' = [fill EXCEPT !.row[i] = fill.version[i],
                              !.taskRows[i] = InsertMissing(taskRows[i], fill.tasks[i])]
      /\ UNCHANGED <<earlier, version, tasks, row, taskRows, save, migrated, excuse, rolling>>
  BY DEF FillInstance, BackfillInv, TypeOK
<1>2. InsertMissing(taskRows[i], fill.tasks[i]) \in Statuses
  BY <1>1, InsertMissingFacts DEF TypeOK, Fill
<1>3. /\ fill' \in Fill
      /\ fill'.version = fill.version /\ fill'.tasks = fill.tasks
      /\ fill'.row[i] = fill.version[i]
      /\ fill'.taskRows[i] = InsertMissing(taskRows[i], fill.tasks[i])
      /\ \A j \in Instances \ {i} : fill'.row[j] = fill.row[j] /\ fill'.taskRows[j] = fill.taskRows[j]
  BY <1>1, <1>2 DEF Fill
<1>4. TypeOK'
  BY <1>1, <1>3 DEF TypeOK
<1>5. LocksExclude'
  <2>1. \A s \in Savers : save[s] # Absent /\ save[s].locks => save[s].instance # i
    BY <1>1 DEF RowIsLocked
  <2> QED
    BY <1>1, <1>3, <2>1 DEF BackfillInv, LocksExclude, TypeOK, Save
<1>6. ASSUME NEW j \in Instances PROVE FillIsBehind(j)'
  <2>1. FillIsBehind(j)
    BY <1>1 DEF BackfillInv
  <2>2. CASE j = i
    BY <1>1, <1>3, <2>1, <2>2 DEF FillIsBehind
  <2>3. CASE j # i
    BY <1>1, <1>3, <2>1, <2>3 DEF FillIsBehind
  <2> QED
    BY <2>2, <2>3
<1> QED
  BY <1>1, <1>4, <1>5, <1>6, QuietPreserves DEF BackfillInv

LEMMA FillFailsPreserves ==
  ASSUME BackfillInv, FillFails
  PROVE  BackfillInv'
<1>1. /\ TypeOK' /\ fill' = Absent
      /\ UNCHANGED <<version, tasks, row, taskRows, save, excuse, rolling>>
  BY DEF FillFails, BackfillInv, TypeOK
<1>2. LocksExclude'
  BY <1>1 DEF BackfillInv, LocksExclude
<1> QED
  BY <1>1, <1>2, QuietPreserves DEF BackfillInv

(***************************************************************************)
(* The commit of the migration: an instance it has read as it still is has *)
(* its rows made current, except for task rows that were stale and kept.   *)
(***************************************************************************)
LEMMA CommitFillPreserves ==
  ASSUME BackfillInv, CommitFill
  PROVE  BackfillInv'
<1>1. /\ TypeOK /\ fill \in Fill /\ fill # Absent
      /\ \A i \in Instances : FillIsBehind(i)
      /\ row' = [i \in Instances |-> IF fill.row[i] = Absent THEN row[i] ELSE fill.row[i]]
      /\ taskRows' = [i \in Instances |->
                        IF fill.row[i] = Absent THEN taskRows[i] ELSE fill.taskRows[i]]
      /\ excuse' = [i \in Instances |->
                      IF fill.row[i] = Absent THEN excuse[i] ELSE ExcuseAfterFill(i)]
      /\ migrated' = (migrated \/ fill.final)
      /\ fill' = Absent
      /\ UNCHANGED <<earlier, version, tasks, save, rolling>>
  BY DEF CommitFill, BackfillInv, TypeOK
<1>2. TypeOK'
  <2>1. \A i \in Instances : ExcuseAfterFill(i) \in SUBSET {"unprojected", "overtaken", "kept"}
    BY <1>1 DEF TypeOK, ExcuseAfterFill
  <2> QED
    BY <1>1, <2>1 DEF TypeOK, Fill
<1>3. LocksExclude'
  BY <1>1 DEF BackfillInv, LocksExclude
<1>4. \A s \in Savers : save'[s] # Absent => SaveIsNext(s)'
  BY <1>1 DEF BackfillInv, SaveIsNext, NextVersion, NextTasks
<1>5. ASSUME NEW i \in Instances
      PROVE  /\ RowIsCurrent(i)' \/ excuse'[i] \intersect {"unprojected", "overtaken"} # {}
             /\ TasksAreCurrent(i)' \/ excuse'[i] \intersect {"unprojected", "kept"} # {}
             /\ RowNeverLeads(i)' /\ TasksNeverLead(i)'
  <2> DEFINE old == fill.tasks[i]
             kept == taskRows[i]
  <2>1. /\ RowIsCurrent(i) \/ excuse[i] \intersect {"unprojected", "overtaken"} # {}
        /\ TasksAreCurrent(i) \/ excuse[i] \intersect {"unprojected", "kept"} # {}
        /\ RowNeverLeads(i) /\ TasksNeverLead(i) /\ FillIsBehind(i)
    BY <1>1 DEF BackfillInv, LagIsExplained, QueryRowsNeverLead
  <2>2. CASE fill.row[i] = Absent
    <3>1. /\ row'[i] = row[i] /\ taskRows'[i] = taskRows[i] /\ excuse'[i] = excuse[i]
          /\ version'[i] = version[i] /\ tasks'[i] = tasks[i]
      BY <1>1, <2>2
    <3> QED
      BY <2>1, <3>1 DEF RowIsCurrent, TasksAreCurrent, RowNeverLeads, TasksNeverLead
  <2>3. CASE fill.row[i] # Absent
    <3>1. /\ row'[i] = fill.version[i] /\ taskRows'[i] = InsertMissing(kept, old)
          /\ excuse'[i] = ExcuseAfterFill(i)
          /\ version'[i] = version[i] /\ tasks'[i] = tasks[i]
          /\ fill.version[i] # Absent
      BY <1>1, <2>1, <2>3 DEF FillIsBehind
    <3>2. /\ kept \in Statuses /\ old \in Statuses /\ tasks[i] \in Statuses
          /\ fill.version[i] \in Nat
          /\ Len(kept) \in Nat /\ Len(old) \in Nat /\ Len(tasks[i]) \in Nat
          /\ DOMAIN kept = 1..Len(kept) /\ DOMAIN old = 1..Len(old)
          /\ DOMAIN tasks[i] = 1..Len(tasks[i])
      BY <1>1, <3>1, LenProperties DEF TypeOK, Fill, Statuses
    <3>3. /\ Len(old) <= Len(kept) => InsertMissing(kept, old) = kept
          /\ Len(kept) < Len(old) => Len(InsertMissing(kept, old)) = Len(old)
          /\ \A t \in DOMAIN InsertMissing(kept, old) :
               IF t \in DOMAIN kept THEN InsertMissing(kept, old)[t] = kept[t]
               ELSE t \in DOMAIN old /\ InsertMissing(kept, old)[t] = old[t]
          /\ kept = << >> => InsertMissing(kept, old) = old
      BY <3>2, InsertMissingFacts
    <3>4. RowIsCurrent(i)' \/ excuse'[i] \intersect {"unprojected", "overtaken"} # {}
      BY <3>1 DEF ExcuseAfterFill, RowIsCurrent
    <3>5. TasksAreCurrent(i)' \/ excuse'[i] \intersect {"unprojected", "kept"} # {}
      <4>1. CASE TasksAreCurrent(i)
        <5>1. Len(old) <= Len(kept)
          BY <2>1, <3>1, <4>1 DEF FillIsBehind, TasksAreCurrent
        <5> QED
          BY <3>1, <3>3, <4>1, <5>1 DEF TasksAreCurrent
      <4>2. CASE fill.version[i] # version[i] \/ "kept" \in excuse[i]
        BY <2>1, <3>1, <3>3, <4>1, <4>2 DEF ExcuseAfterFill
      <4>3. CASE /\ ~TasksAreCurrent(i)
                 /\ fill.version[i] = version[i] /\ "kept" \notin excuse[i]
        <5>1. "unprojected" \in excuse[i] /\ old = tasks[i]
          BY <2>1, <3>1, <4>3 DEF FillIsBehind
        <5>2. CASE kept = << >>
          BY <3>1, <3>3, <5>1, <5>2 DEF TasksAreCurrent
        <5>3. CASE kept # << >>
          BY <3>1, <4>3, <5>1, <5>3 DEF ExcuseAfterFill
        <5> QED
          BY <5>2, <5>3
      <4> QED
        BY <4>1, <4>2, <4>3
    <3>6. RowNeverLeads(i)'
      BY <2>1, <3>1 DEF RowNeverLeads, FillIsBehind
    <3>7. TasksNeverLead(i)'
      <4>1. Len(InsertMissing(kept, old)) <= Len(tasks[i])
        BY <2>1, <3>1, <3>2, <3>3 DEF TasksNeverLead, FillIsBehind
      <4>2. ASSUME NEW t \in DOMAIN InsertMissing(kept, old),
                   InsertMissing(kept, old)[t] = "completed"
            PROVE  tasks[i][t] = "completed"
        BY <2>1, <3>1, <3>3, <4>2 DEF TasksNeverLead, FillIsBehind
      <4> QED
        BY <3>1, <4>1, <4>2 DEF TasksNeverLead
    <3> QED
      BY <3>4, <3>5, <3>6, <3>7
  <2> QED
    BY <2>2, <2>3
<1> QED
  BY <1>1, <1>2, <1>3, <1>4, <1>5 DEF BackfillInv, LagIsExplained, QueryRowsNeverLead

-----------------------------------------------------------------------------

(***************************************************************************)
(* The inductive invariant always holds, whatever runs beside migration    *)
(* 0003: any number of saves, of hosts of the earlier adapter, and of runs *)
(* of the migration.                                                       *)
(***************************************************************************)
THEOREM UpgradeInvariance == Spec => []BackfillInv
<1>1. Init => BackfillInv
  BY InitInv
<1>2. ASSUME BackfillInv, [Next]_vars PROVE BackfillInv'
  <2>1. CASE \E i \in Instances : EarlierCommit(i) \/ FillInstance(i)
    BY <1>2, <2>1, EarlierCommitPreserves, FillInstancePreserves
  <2>2. CASE \E s \in Savers : \E i \in Instances : SaveAggregate(s, i)
    BY <1>2, <2>2, SaveAggregatePreserves
  <2>3. CASE \E s \in Savers : UpsertRow(s) \/ CommitSave(s) \/ SaveFails(s)
    BY <1>2, <2>3, UpsertRowPreserves, CommitSavePreserves, SaveFailsPreserves
  <2>4. CASE StopEarlier \/ UNCHANGED vars
    BY <1>2, <2>4, StopEarlierPreserves
  <2>5. CASE StartFill \/ CommitFill \/ FillFails
    BY <1>2, <2>5, StartFillPreserves, CommitFillPreserves, FillFailsPreserves
  <2> QED
    BY <1>2, <2>1, <2>2, <2>3, <2>4, <2>5 DEF Next
<1> QED
  BY <1>1, <1>2, PTL DEF Spec

(***************************************************************************)
(* Query rows lag for the stated reasons only.                             *)
(***************************************************************************)
THEOREM OnlyExplainedLag == Spec => []LagIsExplained
<1>1. BackfillInv => LagIsExplained
  BY DEF BackfillInv
<1> QED
  BY <1>1, UpgradeInvariance, PTL

(***************************************************************************)
(* Query rows never show what has not been committed.                      *)
(***************************************************************************)
THEOREM NoRowLeads == Spec => []QueryRowsNeverLead
<1>1. BackfillInv => QueryRowsNeverLead
  BY DEF BackfillInv
<1> QED
  BY <1>1, UpgradeInvariance, PTL

LEMMA CutoverPreserved ==
  ASSUME BackfillInv, CutoverInv, [Next]_vars
  PROVE  CutoverInv'
<1> SUFFICES ASSUME ~rolling' PROVE CutoverInv'
  BY DEF CutoverInv
<1>0. TypeOK /\ ~rolling
  <2>1. ~rolling \/ rolling' = TRUE
    BY DEF BackfillInv, TypeOK, Next, vars, EarlierCommit, StopEarlier, SaveAggregate, UpsertRow,
           CommitSave, SaveFails, StartFill, FillInstance, CommitFill, FillFails
  <2> QED
    BY <2>1 DEF BackfillInv
<1>1. ASSUME NEW i \in Instances, EarlierCommit(i) PROVE CutoverInv'
  <2>1. /\ version' = [version EXCEPT ![i] = NextVersion(i)]
        /\ excuse' = [excuse EXCEPT ![i] = @ \union {"unprojected"}]
        /\ earlier /\ fill = Absent /\ ~migrated
        /\ UNCHANGED <<earlier, taskRows, save, fill, migrated, rolling>>
    BY <1>0, <1>1 DEF EarlierCommit, CutoverInv
  <2>2. NextVersion(i) # Absent
    BY <1>0, NextVersionIsNewer, BackfillAssumption
  <2> QED
    BY <1>0, <2>1, <2>2 DEF CutoverInv, TypeOK
<1>2. ASSUME NEW s \in Savers, CommitSave(s) PROVE CutoverInv'
  <2>1. PICK i, next : i = save[s].instance /\ next = save[s].tasks
    OBVIOUS
  <2>2. /\ version' = [version EXCEPT ![i] = save[s].version]
        /\ taskRows' = [taskRows EXCEPT ![i] = next]
        /\ excuse' = [excuse EXCEPT ![i] = {}]
        /\ UNCHANGED <<earlier, fill, migrated, rolling>> /\ ~earlier
    BY <1>0, <1>2, <2>1 DEF CommitSave, CutoverInv
  <2> QED
    BY <1>0, <2>2 DEF CutoverInv, TypeOK
<1>3. ASSUME CommitFill PROVE CutoverInv'
  <2>1. /\ excuse' = [i \in Instances |->
                        IF fill.row[i] = Absent THEN excuse[i] ELSE ExcuseAfterFill(i)]
        /\ fill # Absent /\ fill' = Absent /\ ~earlier
        /\ \A i \in Instances : fill.version[i] # Absent => fill.row[i] # Absent
        /\ UNCHANGED <<earlier, version, rolling>>
    BY <1>0, <1>3 DEF CommitFill, CutoverInv
  <2>2. ASSUME NEW i \in Instances
        PROVE  "kept" \notin excuse'[i] /\ "unprojected" \notin excuse'[i]
    <3>1. CASE fill.row[i] = Absent
      BY <1>0, <2>1, <3>1 DEF CutoverInv
    <3>2. CASE fill.row[i] # Absent
      BY <1>0, <2>1, <3>2 DEF CutoverInv, ExcuseAfterFill
    <3> QED
      BY <3>1, <3>2
  <2> QED
    BY <1>0, <2>1, <2>2 DEF CutoverInv
<1>4. CASE StartFill
  <2>1. ~earlier
    BY <1>4 DEF StartFill
  <2> QED
    BY <1>0, <1>4, <2>1 DEF StartFill, CutoverInv
<1>5. ASSUME NEW i \in Instances, FillInstance(i) PROVE CutoverInv'
  <2>1. /\ fill # Absent /\ fill \in Fill /\ fill'.version = fill.version
        /\ UNCHANGED <<earlier, version, taskRows, save, migrated, excuse, rolling>>
    BY <1>0, <1>5 DEF FillInstance, TypeOK, Fill
  <2> QED
    BY <1>0, <2>1 DEF CutoverInv
<1>6. CASE FillFails
  BY <1>0, <1>6 DEF FillFails, CutoverInv
<1>7. ASSUME NEW s \in Savers, SaveFails(s) \/ UpsertRow(s) \/ \E i \in Instances : SaveAggregate(s, i)
      PROVE  CutoverInv'
  <2>1. ~earlier /\ UNCHANGED <<earlier, version, taskRows, fill, migrated, excuse>>
    BY <1>0, <1>7 DEF SaveFails, UpsertRow, SaveAggregate, CutoverInv
  <2> QED
    BY <1>0, <2>1 DEF CutoverInv
<1>8. CASE StopEarlier \/ UNCHANGED vars
  BY <1>0, <1>8 DEF StopEarlier, vars, CutoverInv
<1> QED
  BY <1>1, <1>2, <1>3, <1>4, <1>5, <1>6, <1>7, <1>8 DEF Next

(***************************************************************************)
(* After a clean cut-over the worklists are right once the migration has   *)
(* run, for any number of instances and of saves beside it.                *)
(***************************************************************************)
THEOREM CutoverIsRight == Spec => []WorklistsAreRight
<1>1. Init => CutoverInv
  BY DEF Init, CutoverInv
<1>2. BackfillInv /\ CutoverInv /\ [Next]_vars => CutoverInv'
  BY CutoverPreserved
<1>3. BackfillInv /\ CutoverInv => WorklistsAreRight
  BY DEF BackfillInv, CutoverInv, LagIsExplained, WorklistsAreRight
<1> QED
  BY <1>1, <1>2, <1>3, UpgradeInvariance, PTL DEF Spec
=============================================================================
