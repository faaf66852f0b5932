---------------------------- MODULE SqlStoreProofs ----------------------------
(***************************************************************************)
(* Proofs about SqlStore, for any number of clients and for both dialects: *)
(* the committed rows are those of one call, the query projection is theirs*)
(* and, where no acknowledgement is lost, the adapter implements StorePort.*)
(* What is assumed of the constants is a hypothesis of every theorem,      *)
(* because SqlStore is only used through instances.                        *)
(***************************************************************************)
EXTENDS SqlStore, FiniteSetTheorems, SequenceTheorems, TLAPS

CONSTANT Values      \* contents that snapshots of the port may have

Port == INSTANCE StorePort WITH
  Bodies <- Values, Records <- Values, durable <- Durable, call <- Calls

\* "No row" is neither a row nor a snapshot.
SqlAssumption ==
  /\ IsFiniteSet(Clients)
  /\ Dialect \in {"postgres", "mysql"}
  /\ Absent \notin Parent
  /\ Absent \notin [version : Nat, audit : Seq(Values), body : Values]
  /\ Clients \subseteq Values

\* The transactions that hold the parent row's lock and have written it.
Writing == {"audit", "tasks", "append", "project", "commit"}

\* A snapshot of the engine's: versions start at 1, and the audit ends with the
\* command that made it.
Good(s) ==
  /\ s \in Snapshot
  /\ s.version >= 1
  /\ s.audit # << >>
  /\ Last(s.audit) = s.body

\* The rows of one call, or none.
RowsInv(rows) ==
  /\ rows \in Rows
  /\ rows.parent = Absent => rows = NoRows
  /\ rows.parent # Absent => /\ rows.parent.version >= 1
                             /\ rows.tasks = rows.parent.body
                             /\ rows.audit # << >>
                             /\ Last(rows.audit) = rows.parent.body
  /\ Dialect = "postgres" => rows.projection = rows.parent

\* A version somebody was told of: versions never go back.
Seen(version) == version # 0 => db.parent # Absent /\ version <= db.parent.version

\* What the call was made with.
ArgumentInv(c) ==
  LET me == client[c] IN
  /\ me.owns # Absent => Good(me.owns) /\ Seen(me.owns.version)
  /\ me.pc # "idle" /\ me.op # "load" => Good(me.snapshot)
  /\ me.pc # "idle" /\ me.op = "save" => Seen(me.expected) /\ me.expected <= me.snapshot.version

\* Where the transaction is.
PlaceInv(c) ==
  LET me == client[c] IN
  /\ me.pc \in {"insert", "probe"} => me.op = "create"
  /\ me.pc \in {"update", "classify", "audit"} => me.op = "save"
  /\ me.pc \in {"tasks", "append", "project", "commit", "committed"} => me.op # "load"
  /\ me.pc \in {"parent", "loadTasks", "loadAudit"} => me.op = "load"
  /\ me.pc = "project" => Dialect = "postgres"

\* Whether it has its answer.
AnswerInv(c) ==
  LET me == client[c] IN
  /\ me.pc = "done" => me.answer # ""
  /\ me.pc = "committed" => me.answer = "ok"
  /\ me.pc \notin {"done", "committed"} => me.answer = ""

\* The locks it holds there, and what they tell it.
LockInv(c) ==
  LET me == client[c] IN
  /\ me.pc \in Writing => c \in exclusive
  /\ c \in exclusive => me.pc \in Writing \union {"classify"}
  /\ c \in shared => me.pc = "probe" /\ db.parent # Absent
  /\ me.pc = "classify" /\ Dialect = "postgres" =>
       /\ c \notin exclusive
       /\ db.parent = Absent => me.expected = 0
       /\ db.parent # Absent => me.expected < db.parent.version
  /\ me.pc = "classify" /\ Dialect = "mysql" /\ me.expected # 0 => c \in exclusive

\* What the transaction has written or read so far.
RowInv(c) ==
  LET me == client[c] IN
  /\ me.pc \in {"idle", "insert"} => me.rows.audit = << >>
  /\ me.pc \in Writing \union {"classify"} => me.rows.parent = ParentOf(me.snapshot)
  /\ me.pc \in Writing => IF me.op = "create" THEN db.parent = Absent
                          ELSE db.parent # Absent /\ db.parent.version = me.expected
  /\ me.pc \in {"tasks", "append"} => /\ me.rows.audit = db.audit
                                      /\ IsPrefix(db.audit, me.snapshot.audit)
  /\ me.pc \in {"append", "project", "commit"} => me.rows.tasks = me.snapshot.body
  /\ me.pc \in {"project", "commit"} => /\ me.rows.audit = me.snapshot.audit
                                        /\ IsPrefix(db.audit, me.snapshot.audit)
  /\ me.pc = "commit" /\ Dialect = "postgres" => me.rows.projection = ParentOf(me.snapshot)
  /\ me.pc \in {"loadTasks", "loadAudit"} =>
       RowsInv(me.rows) /\ me.rows.parent # Absent /\ Seen(me.rows.parent.version)

CallInv(c) == ArgumentInv(c) /\ PlaceInv(c) /\ AnswerInv(c) /\ LockInv(c) /\ RowInv(c)

\* The inductive invariant.
IndInv == TypeOK /\ MutualExclusion /\ RowsInv(db) /\ \A c \in Clients : CallInv(c)

-----------------------------------------------------------------------------
(* Sequences and snapshots. *)

\* What is appended behind a prefix makes the whole.
LEMMA PrefixAndRest ==
  ASSUME NEW S, NEW s \in Seq(S), NEW t \in Seq(S), IsPrefix(s, t)
  PROVE  s \o SubSeq(t, Len(s) + 1, Len(t)) = t
<1> DEFINE rest == SubSeq(t, Len(s) + 1, Len(t))
<1>1. /\ Len(s) \in Nat /\ Len(t) \in Nat /\ Len(s) <= Len(t)
      /\ SubSeq(s, 1, Len(s)) = SubSeq(t, 1, Len(s))
  BY DEF IsPrefix
<1>2. rest \in Seq(S) /\ Len(rest) = Len(t) - Len(s) /\ \A i \in 1 .. Len(rest) : rest[i] = t[Len(s) + i]
  BY <1>1
<1>3. \A i \in 1 .. Len(s) : s[i] = t[i]
  <2> SUFFICES ASSUME NEW i \in 1 .. Len(s) PROVE s[i] = t[i]
    OBVIOUS
  <2>1. SubSeq(s, 1, Len(s))[i] = s[i] /\ SubSeq(t, 1, Len(s))[i] = t[i]
    BY <1>1
  <2> QED BY <2>1, <1>1
<1> HIDE DEF rest
<1>4. /\ s \o rest \in Seq(S) /\ Len(s \o rest) = Len(t)
      /\ \A i \in 1 .. Len(t) : (s \o rest)[i] = IF i <= Len(s) THEN s[i] ELSE rest[i - Len(s)]
  BY <1>1, <1>2
<1>5. \A i \in 1 .. Len(t) : (s \o rest)[i] = t[i]
  <2> SUFFICES ASSUME NEW i \in 1 .. Len(t) PROVE (s \o rest)[i] = t[i]
    OBVIOUS
  <2>1. CASE i <= Len(s)
    BY <2>1, <1>1, <1>3, <1>4
  <2>2. CASE ~(i <= Len(s))
    <3>1. i - Len(s) \in 1 .. Len(rest) /\ Len(s) + (i - Len(s)) = i
      BY <2>2, <1>1, <1>2
    <3> QED BY <2>2, <3>1, <1>1, <1>2, <1>4
  <2> QED BY <2>1, <2>2
<1> QED
  BY <1>4, <1>5, SeqEqual DEF rest

\* What rows of one call are assembled to.
LEMMA AssembledRows ==
  ASSUME SqlAssumption, NEW rows, RowsInv(rows), rows.parent # Absent
  PROVE  /\ Assembled(rows) = [version |-> rows.parent.version, audit |-> rows.audit,
                               body |-> rows.parent.body]
         /\ Good(Assembled(rows))
         /\ Assembled(rows) # Absent
<1>1. rows.parent \in Parent /\ rows.audit \in Seq(Bodies)
  BY DEF RowsInv, Rows
<1>2. Assembled(rows) = [version |-> rows.parent.version, audit |-> rows.audit, body |-> rows.parent.body]
  BY DEF RowsInv, Assembled
<1>3. Assembled(rows) \in Snapshot
  BY <1>1, <1>2 DEF Parent, Snapshot
<1>4. Good(Assembled(rows))
  BY <1>1, <1>2, <1>3 DEF RowsInv, Good
<1>5. \A s \in Snapshot : s # Absent
  BY DEF SqlAssumption, Snapshot, Bodies
<1> QED
  BY <1>2, <1>3, <1>4, <1>5

\* The store has a snapshot when the parent row is there.
LEMMA DurableType ==
  ASSUME SqlAssumption, IndInv
  PROVE  /\ Durable = Absent <=> db.parent = Absent
         /\ db.parent # Absent => Durable = [version |-> db.parent.version, audit |-> db.audit,
                                             body |-> db.parent.body]
<1>1. RowsInv(db)
  BY DEF IndInv
<1> QED
  BY <1>1, AssembledRows DEF Durable, Assembled

-----------------------------------------------------------------------------
(* Steps that commit nothing. *)

\* What is known of a client's record.
LEMMA ClientType ==
  ASSUME IndInv, NEW c \in Clients
  PROVE  /\ client \in [Clients -> Client] /\ client[c] \in Client
         /\ exclusive \subseteq Clients /\ shared \subseteq Clients
         /\ db \in Rows /\ RowsInv(db) /\ MutualExclusion
         /\ ArgumentInv(c) /\ PlaceInv(c) /\ AnswerInv(c) /\ LockInv(c) /\ RowInv(c)
BY DEF IndInv, TypeOK, CallInv

\* A step of one transaction that leaves the committed rows and the locks of the
\* others alone keeps the invariant, and the store is what it was.
LEMMA QuietStep ==
  ASSUME SqlAssumption, IndInv, NEW c \in Clients, NEW me \in Client,
         client' = [client EXCEPT ![c] = me], db' = db,
         exclusive' \subseteq Clients, shared' \subseteq Clients,
         \A d \in Clients \ {c} : /\ d \in exclusive' <=> d \in exclusive
                                  /\ d \in shared' <=> d \in shared,
         MutualExclusion', ArgumentInv(c)', PlaceInv(c)', AnswerInv(c)', LockInv(c)', RowInv(c)'
  PROVE  /\ IndInv' /\ Durable' = Durable
         /\ \A d \in Clients \ {c} : Calls'[d] = Calls[d]
<1>1. client \in [Clients -> Client] /\ db \in Rows /\ RowsInv(db)
  BY DEF IndInv, TypeOK
<1>2. client'[c] = me /\ \A d \in Clients \ {c} : client'[d] = client[d]
  BY <1>1
<1>3. TypeOK'
  BY <1>1 DEF TypeOK
<1>4. RowsInv(db)'
  BY <1>1 DEF RowsInv
<1>5. \A d \in Clients \ {c} : CallInv(d)'
  <2> SUFFICES ASSUME NEW d \in Clients \ {c} PROVE CallInv(d)'
    OBVIOUS
  <2>1. /\ client'[d] = client[d] /\ db' = db
        /\ d \in exclusive' <=> d \in exclusive
        /\ d \in shared' <=> d \in shared
    BY <1>2
  <2>2. ArgumentInv(d) /\ PlaceInv(d) /\ AnswerInv(d) /\ LockInv(d) /\ RowInv(d)
    BY ClientType
  <2>3. ArgumentInv(d)'
    BY <2>1, <2>2 DEF ArgumentInv, Seen
  <2>4. PlaceInv(d)'
    BY <2>1, <2>2 DEF PlaceInv
  <2>4b. AnswerInv(d)'
    BY <2>1, <2>2 DEF AnswerInv
  <2>4a. LockInv(d)'
    BY <2>1, <2>2 DEF LockInv
  <2>5. RowInv(d)'
    BY <2>1, <2>2 DEF RowInv, Seen
  <2> QED BY <2>3, <2>4, <2>4a, <2>4b, <2>5 DEF CallInv
<1>6. IndInv'
  BY <1>3, <1>4, <1>5 DEF IndInv, CallInv
<1>7. \A d \in Clients \ {c} : Calls'[d] = Calls[d]
  BY <1>2 DEF Calls, Loaded
<1> QED
  BY <1>6, <1>7 DEF Durable

\* What the port sees of the calls it sees unchanged.
LEMMA Unseen ==
  ASSUME Durable' = Durable, \A d \in Clients : Calls'[d] = Calls[d]
  PROVE  UNCHANGED Port!vars
<1>1. Calls' = [d \in Clients |-> Calls'[d]] /\ Calls = [d \in Clients |-> Calls[d]]
  BY DEF Calls
<1>2. Calls' = Calls
  BY <1>1
<1> QED
  BY <1>2 DEF Port!vars

\* One call changes.
LEMMA OneCall ==
  ASSUME NEW c \in Clients, \A d \in Clients \ {c} : Calls'[d] = Calls[d]
  PROVE  Calls' = [Calls EXCEPT ![c] = Calls'[c]]
<1>1. Calls' = [d \in Clients |-> Calls'[d]] /\ Calls = [d \in Clients |-> Calls[d]]
  BY DEF Calls
<1> QED
  BY <1>1

\* A transaction goes on: it writes rows of its own, and keeps the locks it has.
LEMMA OwnStep ==
  ASSUME SqlAssumption, IndInv, NEW c \in Clients, NEW me \in Client,
         client' = [client EXCEPT ![c] = me], UNCHANGED <<db, exclusive, shared>>,
         ArgumentInv(c)', PlaceInv(c)', AnswerInv(c)', LockInv(c)', RowInv(c)'
  PROVE  /\ IndInv' /\ Durable' = Durable
         /\ \A d \in Clients \ {c} : Calls'[d] = Calls[d]
<1>1. exclusive \subseteq Clients /\ shared \subseteq Clients /\ MutualExclusion
  BY DEF IndInv, TypeOK
<1>2. MutualExclusion'
  BY <1>1 DEF MutualExclusion
<1> QED
  BY <1>1, <1>2, QuietStep

\* Releasing locks leaves at most one transaction with the exclusive one.
LEMMA Release ==
  ASSUME SqlAssumption, IndInv, NEW c \in Clients,
         exclusive' = exclusive \ {c}, shared' = shared \ {c}
  PROVE  MutualExclusion'
<1>1. MutualExclusion /\ exclusive \subseteq Clients
  BY DEF IndInv, TypeOK
<1>2. IsFiniteSet(exclusive) /\ exclusive' \subseteq exclusive
  BY <1>1, FS_Subset DEF SqlAssumption
<1>3. /\ Cardinality(exclusive') <= Cardinality(exclusive)
      /\ Cardinality(exclusive') \in Nat /\ Cardinality(exclusive) \in Nat
  BY <1>2, FS_Subset, FS_CardinalityType
<1>4. Cardinality(exclusive') <= 1
  BY <1>1, <1>3 DEF MutualExclusion
<1>5. exclusive' # {} => shared' \subseteq exclusive'
  BY <1>1 DEF MutualExclusion
<1> QED
  BY <1>4, <1>5 DEF MutualExclusion

\* A call that ends without having committed changes nothing.
LEMMA EndStep ==
  ASSUME SqlAssumption, IndInv, NEW c \in Clients, client[c].pc \in Statements,
         NEW answer \in {"exists", "missing", "conflict", "rewrite", "failed"},
         Finish(c, "done", answer), db' = db
  PROVE  /\ IndInv' /\ Durable' = Durable
         /\ \A d \in Clients \ {c} : Calls'[d] = Calls[d]
         /\ Calls'[c] = Port!Performed(client[c].op, answer, Absent)
<1> DEFINE me == [client[c] EXCEPT !.pc = "done", !.answer = answer]
<1>1. client \in [Clients -> Client] /\ client[c] \in Client /\ ArgumentInv(c)
      /\ exclusive \subseteq Clients /\ shared \subseteq Clients
  BY ClientType
<1>2. client' = [client EXCEPT ![c] = me] /\ exclusive' = exclusive \ {c} /\ shared' = shared \ {c}
  BY DEF Finish
<1>3. /\ me \in Client /\ me.pc = "done" /\ me.op = client[c].op /\ me.owns = client[c].owns
      /\ me.snapshot = client[c].snapshot /\ me.expected = client[c].expected /\ me.answer = answer
  BY <1>1 DEF Client
<1> HIDE DEF me
<1>4. client'[c] = me
  BY <1>1, <1>2
<1>5. client[c].pc # "idle"
  BY DEF Statements
<1>6. ArgumentInv(c)'
  BY <1>1, <1>3, <1>4, <1>5 DEF ArgumentInv, Seen
<1>7. PlaceInv(c)' /\ AnswerInv(c)' /\ LockInv(c)'
  BY <1>2, <1>3, <1>4 DEF PlaceInv, AnswerInv, LockInv, Writing
<1>8. RowInv(c)'
  BY <1>3, <1>4 DEF RowInv, Writing
<1>9. MutualExclusion'
  BY <1>2, Release
<1>10. /\ IndInv' /\ Durable' = Durable /\ \A d \in Clients \ {c} : Calls'[d] = Calls[d]
  BY <1>1, <1>2, <1>3, <1>6, <1>7, <1>8, <1>9, QuietStep
<1>11. Calls'[c] = Port!Performed(client[c].op, answer, Absent)
  BY <1>3, <1>4 DEF Calls, Loaded, Port!Performed
<1> QED
  BY <1>10, <1>11

\* ... which to the port is the moment it performed and found that answer, or
\* failed.
LEMMA RefuseStep ==
  ASSUME SqlAssumption, IndInv, NEW c \in Clients,
         client[c].pc \in Statements \ {"loadTasks", "loadAudit"},
         NEW answer \in {"exists", "missing", "conflict", "rewrite", "failed"},
         Finish(c, "done", answer), db' = db,
         answer \in {Port!Verdict(Calls[c]), "failed"}
  PROVE  IndInv' /\ Port!Next
<1>1. /\ IndInv' /\ Durable' = Durable /\ \A d \in Clients \ {c} : Calls'[d] = Calls[d]
      /\ Calls'[c] = Port!Performed(client[c].op, answer, Absent)
  BY EndStep
<1>2. Calls[c].state = "pending" /\ Calls[c].op = client[c].op
  BY DEF Calls, Statements
<1>3. Calls' = [Calls EXCEPT ![c] = Port!Performed(client[c].op, answer, Absent)]
  BY <1>1, OneCall
<1>4. Port!Perform(c, answer)
  BY <1>1, <1>2, <1>3 DEF Port!Perform
<1> QED
  BY <1>1, <1>4 DEF Port!Next, Port!Answers

-----------------------------------------------------------------------------
(* The caller. *)

\* A request is made: of nothing, or with a snapshot of the engine's and a
\* version the caller was told of.
LEMMA InvokeStep ==
  ASSUME SqlAssumption, IndInv, NEW c \in Clients,
         NEW op \in {"create", "load", "save"}, NEW snapshot \in Snapshot \union {Absent},
         NEW expected \in Nat, NEW first \in {"insert", "parent", "update"},
         op = "create" <=> first = "insert", op = "load" <=> first = "parent",
         op # "load" => Good(snapshot),
         op = "save" => Seen(expected) /\ expected <= snapshot.version,
         Invoke(c, op, snapshot, expected, first)
  PROVE  IndInv' /\ Port!Next
<1> DEFINE me == [client[c] EXCEPT !.pc = first, !.op = op, !.snapshot = snapshot, !.expected = expected]
<1>1. /\ client \in [Clients -> Client] /\ client[c] \in Client
      /\ ArgumentInv(c) /\ PlaceInv(c) /\ AnswerInv(c) /\ LockInv(c) /\ RowInv(c)
  BY ClientType
<1>2. /\ client' = [client EXCEPT ![c] = me] /\ UNCHANGED <<db, exclusive, shared>>
      /\ client[c].pc = "idle"
  BY DEF Invoke
<1>3. /\ me \in Client /\ me.pc = first /\ me.op = op /\ me.snapshot = snapshot
      /\ me.expected = expected /\ me.owns = client[c].owns /\ me.rows = client[c].rows
      /\ me.answer = client[c].answer
  BY <1>1 DEF Client, Statements
<1> HIDE DEF me
<1>4. client'[c] = me
  BY <1>1, <1>2
<1>5. ArgumentInv(c)'
  BY <1>1, <1>2, <1>3, <1>4 DEF ArgumentInv, Seen
<1>6. PlaceInv(c)'
  BY <1>3, <1>4 DEF PlaceInv
<1>7. AnswerInv(c)'
  BY <1>1, <1>2, <1>3, <1>4 DEF AnswerInv
<1>8. LockInv(c)'
  <2>1. c \notin exclusive /\ c \notin shared
    BY <1>1, <1>2 DEF LockInv, Writing
  <2> QED BY <2>1, <1>2, <1>3, <1>4 DEF LockInv, Writing
<1>9. RowInv(c)'
  <2>1. client[c].rows.audit = << >>
    BY <1>1, <1>2 DEF RowInv
  <2> QED BY <2>1, <1>3, <1>4 DEF RowInv, Writing
<1>10. /\ IndInv' /\ Durable' = Durable /\ \A d \in Clients \ {c} : Calls'[d] = Calls[d]
  BY <1>2, <1>3, <1>5, <1>6, <1>7, <1>8, <1>9, OwnStep
<1>11. Calls[c] = Port!None
  BY <1>2 DEF Calls, Port!None
<1>12. Calls'[c] = [state |-> "pending", op |-> op, snapshot |-> snapshot, expected |-> expected]
  BY <1>3, <1>4 DEF Calls
<1>13. Calls'[c] \in Port!Requests
  <2>1. snapshot \in Port!Snapshot \union {Absent}
    BY DEF Snapshot, Port!Snapshot, SqlAssumption, Bodies
  <2> QED BY <2>1, <1>12 DEF Port!Requests, Port!Ops
<1>14. Calls' = [Calls EXCEPT ![c] = Calls'[c]]
  BY <1>10, OneCall
<1>15. Port!Request(c)
  BY <1>10, <1>11, <1>13, <1>14 DEF Port!Request
<1> QED
  BY <1>10, <1>15 DEF Port!Next

\* What a caller composes out of nothing.
LEMMA FreshIsGood ==
  ASSUME NEW c \in Clients
  PROVE  Good(Fresh(c)) /\ Fresh(c).version = 1
<1>1. <<c>> \in Seq(Bodies) /\ <<c>> # << >> /\ Last(<<c>>) = c
  BY DEF Bodies, Last
<1> QED
  BY <1>1 DEF Good, Fresh, Snapshot, Bodies

\* What a caller makes of a snapshot it loaded.
LEMMA CandidatesAreGood ==
  ASSUME NEW c \in Clients, NEW base, Good(base), NEW s \in Candidates(c, base)
  PROVE  Good(s) /\ base.version <= s.version
<1>1. base \in Snapshot /\ base.version \in Nat /\ base.audit \in Seq(Bodies) /\ c \in Bodies
  BY DEF Good, Snapshot, Bodies
<1>2. CASE s = [version |-> base.version + 1, audit |-> Append(base.audit, c), body |-> c]
  <2>1. /\ Append(base.audit, c) \in Seq(Bodies) /\ Append(base.audit, c) # << >>
        /\ Last(Append(base.audit, c)) = c
    BY <1>1, AppendProperties DEF Last
  <2>2. s.version = base.version + 1 /\ s.audit = Append(base.audit, c) /\ s.body = c
    BY <1>2
  <2>3. s \in Snapshot
    BY <1>1, <1>2, <2>1 DEF Snapshot
  <2> QED BY <1>1, <2>1, <2>2, <2>3 DEF Good
<1>3. CASE s = [version |-> base.version + 1, audit |-> <<c, c>>, body |-> c]
  <2>1. <<c, c>> \in Seq(Bodies) /\ <<c, c>> # << >> /\ Last(<<c, c>>) = c
    BY <1>1 DEF Last
  <2>2. s.version = base.version + 1 /\ s.audit = <<c, c>> /\ s.body = c
    BY <1>3
  <2>3. s \in Snapshot
    BY <1>1, <1>3, <2>1 DEF Snapshot
  <2> QED BY <1>1, <2>1, <2>2, <2>3 DEF Good
<1>4. CASE s = base
  BY <1>1, <1>4
<1> QED
  BY <1>2, <1>3, <1>4 DEF Candidates

LEMMA InvokeSaveStep ==
  ASSUME SqlAssumption, IndInv, NEW c \in Clients, InvokeSave(c)
  PROVE  IndInv' /\ Port!Next
<1> DEFINE base == client[c].owns
<1>1. client[c] \in Client /\ ArgumentInv(c)
  BY ClientType
<1>2. CASE base = Absent
  <2>1. Invoke(c, "save", Fresh(c), 0, "update")
    BY <1>2 DEF InvokeSave
  <2>2. Good(Fresh(c)) /\ Fresh(c) \in Snapshot /\ Seen(0) /\ 0 <= Fresh(c).version
    BY FreshIsGood DEF Good, Seen
  <2> QED BY <2>1, <2>2, InvokeStep
<1>3. CASE base # Absent
  <2>1. Good(base) /\ Seen(base.version) /\ base.version \in Nat
    BY <1>1, <1>3 DEF ArgumentInv, Good, Snapshot
  <2>2. PICK s \in Candidates(c, base) : Invoke(c, "save", s, base.version, "update")
    BY <1>3 DEF InvokeSave
  <2>3. Good(s) /\ s \in Snapshot /\ base.version <= s.version
    BY <2>1, CandidatesAreGood DEF Good
  <2> QED BY <2>1, <2>2, <2>3, InvokeStep
<1> QED
  BY <1>2, <1>3

LEMMA ReturnStep ==
  ASSUME SqlAssumption, IndInv, NEW c \in Clients, Return(c)
  PROVE  IndInv' /\ Port!Next
<1> DEFINE me == [Idle EXCEPT !.owns = client[c].owns]
<1>1. /\ client \in [Clients -> Client] /\ client[c] \in Client
      /\ ArgumentInv(c) /\ LockInv(c)
  BY ClientType
<1>2. /\ client' = [client EXCEPT ![c] = me] /\ UNCHANGED <<db, exclusive, shared>>
      /\ client[c].pc = "done"
  BY DEF Return
<1>3. me \in Client
  <2>1. NoRows \in Rows
    BY DEF NoRows, Rows
  <2>2. client[c].owns \in Snapshot \union {Absent}
    BY <1>1 DEF Client
  <2> QED BY <2>1, <2>2 DEF Client, Idle
<1>4. /\ me.pc = "idle" /\ me.op = "load" /\ me.owns = client[c].owns /\ me.rows = NoRows
      /\ me.answer = ""
  BY DEF Idle
<1> HIDE DEF me
<1>5. client'[c] = me
  BY <1>1, <1>2
<1>6. ArgumentInv(c)'
  BY <1>1, <1>2, <1>4, <1>5 DEF ArgumentInv, Seen
<1>7. PlaceInv(c)' /\ AnswerInv(c)'
  BY <1>4, <1>5 DEF PlaceInv, AnswerInv
<1>8. LockInv(c)'
  <2>1. c \notin exclusive /\ c \notin shared
    BY <1>1, <1>2 DEF LockInv, Writing
  <2> QED BY <2>1, <1>2, <1>4, <1>5 DEF LockInv, Writing
<1>9. RowInv(c)'
  <2>1. client'[c].pc = "idle"
    BY <1>4, <1>5
  <2>2. NoRows.audit = << >>
    BY DEF NoRows
  <2>3. client'[c].rows.audit = << >>
    BY <1>4, <1>5, <2>2
  <2> QED BY <2>1, <2>3 DEF RowInv, Writing
<1>10. /\ IndInv' /\ Durable' = Durable /\ \A d \in Clients \ {c} : Calls'[d] = Calls[d]
  BY <1>2, <1>3, <1>6, <1>7, <1>8, <1>9, OwnStep
<1>11. Calls'[c] = Port!None /\ Calls[c].state = "performed"
  BY <1>2, <1>4, <1>5 DEF Calls, Port!None
<1>12. Calls' = [Calls EXCEPT ![c] = Port!None]
  BY <1>10, <1>11, OneCall
<1> QED
  BY <1>10, <1>11, <1>12 DEF Port!Return, Port!Next

-----------------------------------------------------------------------------
(* Locks. *)

\* The exclusive lock goes to one transaction.
LEMMA TakeLock ==
  ASSUME NEW c, exclusive' = {c}, shared' \subseteq {c}
  PROVE  MutualExclusion'
<1>1. Cardinality({c}) = 1
  BY FS_Singleton
<1> QED
  BY <1>1 DEF MutualExclusion

\* Who holds the exclusive lock holds it alone.
LEMMA Alone ==
  ASSUME SqlAssumption, IndInv, NEW c \in exclusive
  PROVE  exclusive = {c} /\ shared = {}
<1>1. exclusive \subseteq Clients /\ shared \subseteq Clients /\ MutualExclusion /\ c \in Clients
  BY DEF IndInv, TypeOK
<1>2. IsFiniteSet(exclusive) /\ Cardinality(exclusive) <= 1 /\ Cardinality(exclusive) \in Nat
  BY <1>1, FS_Subset, FS_CardinalityType DEF SqlAssumption, MutualExclusion
<1>3. exclusive = {c}
  <2> SUFFICES ASSUME exclusive # {c} PROVE FALSE
    OBVIOUS
  <2>1. {c} \in SUBSET exclusive
    OBVIOUS
  <2>2. Cardinality({c}) <= Cardinality(exclusive) /\ Cardinality({c}) # Cardinality(exclusive)
    BY <2>1, <1>2, FS_Subset
  <2>3. Cardinality({c}) = 1
    BY FS_Singleton
  <2> QED BY <2>2, <2>3, <1>2
<1>4. c \notin shared
  BY <1>1, ClientType DEF LockInv, Writing
<1>5. shared \subseteq exclusive
  BY <1>1 DEF MutualExclusion
<1> QED
  BY <1>3, <1>4, <1>5

\* The empty sequence begins every sequence.
LEMMA EmptyIsPrefix ==
  ASSUME NEW S, NEW t \in Seq(S)
  PROVE  IsPrefix(<< >>, t)
<1>1. SubSeq(<< >>, 1, 0) = << >> /\ SubSeq(t, 1, 0) = << >>
  BY SubSeqEmpty
<1>2. Len(<< >>) = 0 /\ Len(t) \in Nat
  OBVIOUS
<1> QED
  BY <1>1, <1>2 DEF IsPrefix

-----------------------------------------------------------------------------
(* Create. *)

\* The parent row is inserted where there was none.
LEMMA InsertNewStep ==
  ASSUME SqlAssumption, IndInv, NEW c \in Clients, Insert(c), db.parent = Absent
  PROVE  IndInv' /\ UNCHANGED Port!vars
<1> DEFINE rows == [client[c].rows EXCEPT !.parent = ParentOf(client[c].snapshot)]
           me == [client[c] EXCEPT !.pc = "tasks", !.rows = rows]
<1>1. /\ client \in [Clients -> Client] /\ client[c] \in Client
      /\ ArgumentInv(c) /\ PlaceInv(c) /\ AnswerInv(c) /\ LockInv(c) /\ RowInv(c) /\ RowsInv(db)
      /\ exclusive \subseteq Clients /\ shared \subseteq Clients
  BY ClientType
<1>2. /\ client' = [client EXCEPT ![c] = me] /\ db' = db /\ shared' = shared
      /\ exclusive' = exclusive \union {c} /\ Others(exclusive, c) = {}
      /\ client[c].pc = "insert"
  <2>1. /\ client' = [client EXCEPT ![c].pc = "tasks",
                                   ![c].rows.parent = ParentOf(client[c].snapshot)]
        /\ db' = db /\ shared' = shared
        /\ exclusive' = exclusive \union {c} /\ Others(exclusive, c) = {}
        /\ client[c].pc = "insert"
    BY DEF Insert
  <2>2. client \in [Clients -> Client] /\ client[c] \in Client
    BY <1>1
  <2>3. client' = [client EXCEPT ![c] = me]
    BY <2>1, <2>2 DEF Client
  <2> QED BY <2>1, <2>3
<1>3. client[c].op = "create" /\ Good(client[c].snapshot) /\ client[c].rows \in Rows
  BY <1>1, <1>2 DEF PlaceInv, ArgumentInv, Client
<1>4. ParentOf(client[c].snapshot) \in Parent /\ client[c].snapshot.audit \in Seq(Bodies)
  BY <1>3 DEF ParentOf, Parent, Good, Snapshot
<1>5. rows \in Rows /\ rows.parent = ParentOf(client[c].snapshot) /\ rows.audit = client[c].rows.audit
  BY <1>3, <1>4 DEF Rows
<1> HIDE DEF rows
<1>6. /\ me \in Client /\ me.pc = "tasks" /\ me.op = "create" /\ me.rows = rows
      /\ me.snapshot = client[c].snapshot /\ me.owns = client[c].owns /\ me.answer = client[c].answer
  BY <1>1, <1>3, <1>5 DEF Client, Statements
<1> HIDE DEF me
<1>7. client'[c] = me
  BY <1>1, <1>2
<1>8. exclusive' = {c} /\ shared = {}
  <2>1. exclusive' = {c}
    BY <1>2 DEF Others
  <2>2. \A d \in Clients : d \notin shared
    BY ClientType DEF LockInv
  <2> QED BY <2>1, <2>2, <1>1
<1>9. MutualExclusion'
  BY <1>2, <1>8, TakeLock
<1>10. ArgumentInv(c)'
  BY <1>1, <1>2, <1>3, <1>6, <1>7 DEF ArgumentInv, Seen
<1>11. PlaceInv(c)' /\ AnswerInv(c)'
  BY <1>1, <1>2, <1>6, <1>7 DEF PlaceInv, AnswerInv
<1>12. LockInv(c)'
  BY <1>2, <1>6, <1>7, <1>8 DEF LockInv, Writing
<1>13. RowInv(c)'
  <2>1. db.audit = << >> /\ client[c].rows.audit = << >>
    BY <1>1, <1>2 DEF RowsInv, NoRows, RowInv
  <2>2. IsPrefix(db.audit, client[c].snapshot.audit)
    BY <2>1, <1>4, EmptyIsPrefix
  <2> QED BY <2>1, <2>2, <1>2, <1>5, <1>6, <1>7 DEF RowInv, Writing
<1>14. /\ IndInv' /\ Durable' = Durable /\ \A d \in Clients \ {c} : Calls'[d] = Calls[d]
  <2>1. exclusive' \subseteq Clients /\ shared' \subseteq Clients
        /\ \A d \in Clients \ {c} : (d \in exclusive' <=> d \in exclusive) /\ (d \in shared' <=> d \in shared)
    BY <1>1, <1>2
  <2> QED BY <2>1, <1>2, <1>6, <1>9, <1>10, <1>11, <1>12, <1>13, QuietStep
<1>15. Calls'[c] = Calls[c]
  <2>1. client'[c].op = client[c].op /\ client'[c].expected = client[c].expected
    BY <1>1, <1>7 DEF me, Client
  <2> QED BY <2>1, <1>2, <1>6, <1>7 DEF Calls
<1> QED
  BY <1>14, <1>15, Unseen

\* What the request is, while it is pending.
LEMMA Pending ==
  ASSUME NEW c \in Clients, client[c].pc \in Statements \ {"loadTasks", "loadAudit"}
  PROVE  /\ Calls[c].state = "pending" /\ Calls[c].op = client[c].op
         /\ Calls[c].snapshot = client[c].snapshot /\ Calls[c].expected = client[c].expected
BY DEF Calls, Statements

\* A Create that finds the row is one the port refuses.
LEMMA ExistsStep ==
  ASSUME SqlAssumption, IndInv, NEW c \in Clients, client[c].pc \in {"insert", "probe"},
         db.parent # Absent, Finish(c, "done", "exists"), db' = db
  PROVE  IndInv' /\ Port!Next
<1>1. client[c].pc \in Statements \ {"loadTasks", "loadAudit"}
  BY DEF Statements
<1>2. client[c].op = "create"
  BY ClientType DEF PlaceInv
<1>3. Calls[c].op = "create" /\ Durable # Absent
  BY <1>1, <1>2, Pending, DurableType
<1>4. Port!Verdict(Calls[c]) = "exists"
  BY <1>3 DEF Port!Verdict
<1> QED
  BY <1>1, <1>4, RefuseStep

\* MySQL: a duplicate leaves a shared lock, and the row is probed under it.
LEMMA InsertDuplicateStep ==
  ASSUME SqlAssumption, IndInv, NEW c \in Clients, Insert(c),
         db.parent # Absent, Dialect # "postgres"
  PROVE  IndInv' /\ UNCHANGED Port!vars
<1> DEFINE me == [client[c] EXCEPT !.pc = "probe"]
<1>1. /\ client \in [Clients -> Client] /\ client[c] \in Client
      /\ ArgumentInv(c) /\ PlaceInv(c) /\ AnswerInv(c) /\ LockInv(c)
      /\ exclusive \subseteq Clients /\ shared \subseteq Clients /\ MutualExclusion
  BY ClientType
<1>2. /\ client' = [client EXCEPT ![c] = me] /\ db' = db /\ shared' = shared \union {c}
      /\ exclusive' = exclusive /\ Others(exclusive, c) = {}
      /\ client[c].pc = "insert"
  BY DEF Insert, Goto
<1>3. /\ me \in Client /\ me.pc = "probe" /\ me.op = client[c].op /\ me.snapshot = client[c].snapshot
      /\ me.owns = client[c].owns /\ me.answer = client[c].answer /\ me.expected = client[c].expected
  BY <1>1 DEF Client, Statements
<1> HIDE DEF me
<1>4. client'[c] = me
  BY <1>1, <1>2
<1>5. exclusive' = {} /\ MutualExclusion'
  <2>1. c \notin exclusive
    BY <1>1, <1>2 DEF LockInv, Writing
  <2>2. exclusive = {}
    BY <2>1, <1>2 DEF Others
  <2> QED BY <2>2, <1>1, <1>2 DEF MutualExclusion
<1>6. client[c].op = "create"
  BY <1>1, <1>2 DEF PlaceInv
<1>7. ArgumentInv(c)'
  BY <1>1, <1>2, <1>3, <1>4, <1>6 DEF ArgumentInv, Seen
<1>8. PlaceInv(c)' /\ AnswerInv(c)'
  BY <1>1, <1>2, <1>3, <1>4, <1>6 DEF PlaceInv, AnswerInv
<1>9. LockInv(c)'
  BY <1>2, <1>3, <1>4, <1>5 DEF LockInv, Writing
<1>10. RowInv(c)'
  BY <1>3, <1>4 DEF RowInv, Writing
<1>11. /\ IndInv' /\ Durable' = Durable /\ \A d \in Clients \ {c} : Calls'[d] = Calls[d]
  <2>1. exclusive' \subseteq Clients /\ shared' \subseteq Clients
        /\ \A d \in Clients \ {c} : (d \in exclusive' <=> d \in exclusive) /\ (d \in shared' <=> d \in shared)
    BY <1>1, <1>2
  <2> QED BY <2>1, <1>2, <1>3, <1>5, <1>7, <1>8, <1>9, <1>10, QuietStep
<1>12. Calls'[c] = Calls[c]
  BY <1>2, <1>3, <1>4 DEF Calls
<1> QED
  BY <1>11, <1>12, Unseen

LEMMA InsertStep ==
  ASSUME SqlAssumption, IndInv, NEW c \in Clients, Insert(c)
  PROVE  IndInv' /\ (Port!Next \/ UNCHANGED Port!vars)
<1>1. CASE db.parent = Absent
  BY <1>1, InsertNewStep
<1>2. CASE db.parent # Absent /\ Dialect = "postgres"
  <2>1. client[c].pc = "insert" /\ Finish(c, "done", "exists") /\ db' = db
    BY <1>2 DEF Insert
  <2> QED BY <1>2, <2>1, ExistsStep
<1>3. CASE db.parent # Absent /\ Dialect # "postgres"
  BY <1>3, InsertDuplicateStep
<1> QED
  BY <1>1, <1>2, <1>3

\* MySQL: the row is probed after any other error, too, without a lock.
LEMMA InsertFailsStep ==
  ASSUME SqlAssumption, IndInv, NEW c \in Clients, InsertFails(c)
  PROVE  IndInv' /\ UNCHANGED Port!vars
<1> DEFINE me == [client[c] EXCEPT !.pc = "probe"]
<1>1. /\ client \in [Clients -> Client] /\ client[c] \in Client
      /\ ArgumentInv(c) /\ PlaceInv(c) /\ AnswerInv(c) /\ LockInv(c)
  BY ClientType
<1>2. /\ client' = [client EXCEPT ![c] = me] /\ UNCHANGED <<db, exclusive, shared>>
      /\ client[c].pc = "insert"
  BY DEF InsertFails, Goto
<1>3. /\ me \in Client /\ me.pc = "probe" /\ me.op = client[c].op /\ me.snapshot = client[c].snapshot
      /\ me.owns = client[c].owns /\ me.answer = client[c].answer /\ me.expected = client[c].expected
  BY <1>1 DEF Client, Statements
<1> HIDE DEF me
<1>4. client'[c] = me
  BY <1>1, <1>2
<1>5. client[c].op = "create" /\ c \notin exclusive /\ c \notin shared
  BY <1>1, <1>2 DEF PlaceInv, LockInv, Writing
<1>6. ArgumentInv(c)'
  BY <1>1, <1>2, <1>3, <1>4, <1>5 DEF ArgumentInv, Seen
<1>7. PlaceInv(c)' /\ AnswerInv(c)'
  BY <1>1, <1>2, <1>3, <1>4, <1>5 DEF PlaceInv, AnswerInv
<1>8. LockInv(c)'
  BY <1>2, <1>3, <1>4, <1>5 DEF LockInv, Writing
<1>9. RowInv(c)'
  BY <1>3, <1>4 DEF RowInv, Writing
<1>10. /\ IndInv' /\ Durable' = Durable /\ \A d \in Clients \ {c} : Calls'[d] = Calls[d]
  BY <1>2, <1>3, <1>6, <1>7, <1>8, <1>9, OwnStep
<1>11. Calls'[c] = Calls[c]
  BY <1>2, <1>3, <1>4 DEF Calls
<1> QED
  BY <1>10, <1>11, Unseen

LEMMA ProbeStep ==
  ASSUME SqlAssumption, IndInv, NEW c \in Clients, Probe(c)
  PROVE  IndInv' /\ Port!Next
<1>1. client[c].pc = "probe" /\ db' = db
      /\ Finish(c, "done", IF db.parent = Absent THEN "failed" ELSE "exists")
  BY DEF Probe, Answer
<1>2. CASE db.parent = Absent
  <2>1. client[c].pc \in Statements \ {"loadTasks", "loadAudit"} /\ Finish(c, "done", "failed")
    BY <1>1, <1>2 DEF Statements
  <2> QED BY <1>1, <2>1, RefuseStep
<1>3. CASE db.parent # Absent
  BY <1>1, <1>3, ExistsStep
<1> QED
  BY <1>2, <1>3

\* A deadlock, or any statement that fails before the parent row is read or the
\* rows are committed, is a call that failed.
LEMMA DeadlockStep ==
  ASSUME SqlAssumption, IndInv, NEW c \in Clients, Deadlock(c)
  PROVE  IndInv' /\ Port!Next
<1>1. client[c].pc \in Statements \ {"loadTasks", "loadAudit"}
  BY DEF Deadlock, Statements
<1>2. Finish(c, "done", "failed") /\ db' = db
  BY DEF Deadlock, Answer
<1> QED
  BY <1>1, <1>2, RefuseStep

LEMMA StatementFailsStep ==
  ASSUME SqlAssumption, IndInv, NEW c \in Clients, StatementFails(c)
  PROVE  IndInv' /\ Port!Next
<1>1. client[c].pc \in Statements /\ Finish(c, "done", "failed") /\ db' = db
  BY DEF StatementFails, Answer
<1>2. CASE client[c].pc \notin {"loadTasks", "loadAudit"}
  BY <1>1, <1>2, RefuseStep
<1>3. CASE client[c].pc \in {"loadTasks", "loadAudit"}
  <2>1. client[c].op = "load"
    BY <1>3, ClientType DEF PlaceInv
  <2>2. /\ IndInv' /\ Durable' = Durable /\ \A d \in Clients \ {c} : Calls'[d] = Calls[d]
        /\ Calls'[c] = Port!Performed("load", "failed", Absent)
    BY <1>1, <2>1, EndStep
  <2>3. Calls[c].state = "performed" /\ Calls[c].op = "load"
    BY <1>3, <2>1 DEF Calls
  <2>4. Calls' = [Calls EXCEPT ![c] = Port!Performed("load", "failed", Absent)]
    BY <2>2, OneCall
  <2>5. Port!Forget(c)
    BY <2>2, <2>3, <2>4 DEF Port!Forget
  <2> QED BY <2>2, <2>5 DEF Port!Next
<1> QED
  BY <1>2, <1>3

\* An answer that arrives is the answer there was.
LEMMA AcknowledgeStep ==
  ASSUME SqlAssumption, IndInv, NEW c \in Clients, Acknowledge(c)
  PROVE  IndInv' /\ ("ack" \notin Faults => UNCHANGED Port!vars)
<1>1. PICK answer \in {"ok"} \union (IF "ack" \in Faults THEN {"failed"} ELSE {}) :
        client' = [client EXCEPT ![c].pc = "done", ![c].answer = answer]
  BY DEF Acknowledge
<1> DEFINE me == [client[c] EXCEPT !.pc = "done", !.answer = answer]
<1>2. /\ client \in [Clients -> Client] /\ client[c] \in Client
      /\ ArgumentInv(c) /\ PlaceInv(c) /\ AnswerInv(c) /\ LockInv(c)
  BY ClientType
<1>3. /\ client' = [client EXCEPT ![c] = me] /\ UNCHANGED <<db, exclusive, shared>>
      /\ client[c].pc = "committed"
  BY <1>1 DEF Acknowledge
<1>4. answer \in {"ok", "failed"} /\ ("ack" \notin Faults => answer = "ok")
  BY <1>1
<1>5. /\ me \in Client /\ me.pc = "done" /\ me.op = client[c].op /\ me.snapshot = client[c].snapshot
      /\ me.owns = client[c].owns /\ me.expected = client[c].expected /\ me.answer = answer
  BY <1>2, <1>4 DEF Client
<1> HIDE DEF me
<1>6. client'[c] = me
  BY <1>2, <1>3
<1>7. ArgumentInv(c)'
  BY <1>2, <1>3, <1>5, <1>6 DEF ArgumentInv, Seen
<1>8. PlaceInv(c)' /\ AnswerInv(c)'
  BY <1>4, <1>5, <1>6 DEF PlaceInv, AnswerInv
<1>9. LockInv(c)'
  <2>1. c \notin exclusive /\ c \notin shared
    BY <1>2, <1>3 DEF LockInv, Writing
  <2> QED BY <2>1, <1>3, <1>5, <1>6 DEF LockInv, Writing
<1>10. RowInv(c)'
  BY <1>5, <1>6 DEF RowInv, Writing
<1>11. /\ IndInv' /\ Durable' = Durable /\ \A d \in Clients \ {c} : Calls'[d] = Calls[d]
  BY <1>3, <1>5, <1>7, <1>8, <1>9, <1>10, OwnStep
<1>12. "ack" \notin Faults => Calls'[c] = Calls[c]
  <2>1. client[c].op # "load" /\ client[c].answer = "ok"
    BY <1>2, <1>3 DEF PlaceInv, AnswerInv
  <2> QED BY <2>1, <1>3, <1>4, <1>5, <1>6 DEF Calls, Loaded
<1> QED
  BY <1>11, <1>12, Unseen

-----------------------------------------------------------------------------
(* Save. *)

\* The conditional update.  Who has matched the row holds it; who has not will
\* never match it, because versions only grow.
LEMMA UpdateStep ==
  ASSUME SqlAssumption, IndInv, NEW c \in Clients, Update(c)
  PROVE  IndInv' /\ UNCHANGED Port!vars
<1> DEFINE matched == db.parent # Absent /\ db.parent.version = client[c].expected
           new == ParentOf(client[c].snapshot)
           affected == matched /\ (Dialect = "postgres" \/ new # db.parent)
           locked == IF Dialect = "postgres" THEN matched ELSE db.parent # Absent
           pc == IF affected THEN "audit" ELSE "classify"
           rows == [client[c].rows EXCEPT !.parent = new]
           me == [client[c] EXCEPT !.pc = pc, !.rows = rows]
<1>1. /\ client \in [Clients -> Client] /\ client[c] \in Client
      /\ ArgumentInv(c) /\ PlaceInv(c) /\ AnswerInv(c) /\ LockInv(c) /\ RowsInv(db)
      /\ exclusive \subseteq Clients /\ shared \subseteq Clients /\ MutualExclusion
  BY ClientType
<1>2. /\ client' = [client EXCEPT ![c].pc = pc, ![c].rows.parent = new]
      /\ db' = db /\ shared' = shared
      /\ exclusive' = IF locked THEN exclusive \union {c} ELSE exclusive
      /\ client[c].pc = "update"
      /\ Dialect = "mysql" \/ matched => RowIsFree(c)
  BY DEF Update
<1>3. client[c].op = "save" /\ Good(client[c].snapshot) /\ Seen(client[c].expected) /\ client[c].expected \in Nat
  BY <1>1, <1>2 DEF PlaceInv, ArgumentInv, Client
<1>4. new \in Parent /\ client[c].rows \in Rows
  BY <1>1, <1>3 DEF ParentOf, Parent, Good, Snapshot, Client
<1>5. rows \in Rows /\ rows.parent = new
  BY <1>4 DEF Rows
<1>6. client' = [client EXCEPT ![c] = me]
  <2>1. client \in [Clients -> Client] /\ client[c] \in Client
    BY <1>1
  <2>2. client' = [client EXCEPT ![c].pc = pc, ![c].rows.parent = new]
    BY <1>2
  <2> HIDE DEF pc, new
  <2> QED BY <2>1, <2>2 DEF Client
<1>7. pc \in {"audit", "classify"} /\ (pc = "audit" <=> affected)
  OBVIOUS
<1>8. /\ locked => RowIsFree(c)
      /\ affected => locked /\ matched
      /\ Dialect = "postgres" => (affected <=> matched) /\ (locked <=> matched)
      /\ Dialect = "mysql" => (locked <=> db.parent # Absent)
  BY <1>2 DEF SqlAssumption
<1>9. matched <=> db.parent # Absent /\ db.parent.version = client[c].expected
  OBVIOUS
<1> HIDE DEF matched, affected, locked, pc, new, rows
<1>10. /\ me \in Client /\ me.pc = pc /\ me.op = "save" /\ me.rows = rows
       /\ me.snapshot = client[c].snapshot /\ me.owns = client[c].owns
       /\ me.answer = client[c].answer /\ me.expected = client[c].expected
  BY <1>1, <1>3, <1>5, <1>7 DEF Client, Statements
<1> HIDE DEF me
<1>11. client'[c] = me
  BY <1>1, <1>6
<1>12. c \notin exclusive /\ c \notin shared
  BY <1>1, <1>2 DEF LockInv, Writing
<1>13. /\ exclusive' \subseteq Clients /\ shared' \subseteq Clients /\ (c \in exclusive' <=> locked)
       /\ \A d \in Clients \ {c} : (d \in exclusive' <=> d \in exclusive) /\ (d \in shared' <=> d \in shared)
  BY <1>1, <1>2, <1>12
<1>14. MutualExclusion'
  <2>1. CASE locked
    <3>1. exclusive \union shared \subseteq {c}
      BY <2>1, <1>8 DEF RowIsFree, Others
    <3>2. exclusive' = {c} /\ shared' \subseteq {c}
      BY <2>1, <3>1, <1>2
    <3> QED BY <3>2, TakeLock
  <2>2. CASE ~locked
    BY <2>2, <1>1, <1>2 DEF MutualExclusion
  <2> QED BY <2>1, <2>2
<1>15. ArgumentInv(c)'
  BY <1>1, <1>2, <1>3, <1>10, <1>11, <1>7 DEF ArgumentInv, Seen
<1>16. PlaceInv(c)'
  BY <1>7, <1>10, <1>11 DEF PlaceInv
<1>17. AnswerInv(c)'
  BY <1>1, <1>2, <1>7, <1>10, <1>11 DEF AnswerInv
<1>18. LockInv(c)'
  <2>1. pc = "classify" /\ Dialect = "postgres" =>
          /\ ~locked
          /\ db.parent = Absent => client[c].expected = 0
          /\ db.parent # Absent => client[c].expected < db.parent.version
    <3>1. db.parent # Absent => db.parent.version \in Nat /\ db.parent.version >= 1
      BY <1>1 DEF RowsInv, Rows, Parent
    <3> QED BY <3>1, <1>3, <1>7, <1>8, <1>9 DEF Seen
  <2>2. Dialect = "mysql" /\ client[c].expected # 0 => locked
    BY <1>3, <1>8 DEF Seen
  <2>3. pc = "audit" => locked
    BY <1>7, <1>8
  <2> QED BY <2>1, <2>2, <2>3, <1>2, <1>7, <1>10, <1>11, <1>12, <1>13 DEF LockInv, Writing
<1>19. RowInv(c)'
  <2>1. rows.parent = ParentOf(client[c].snapshot)
    BY <1>5 DEF new
  <2>2. pc = "audit" => db.parent # Absent /\ db.parent.version = client[c].expected
    BY <1>7, <1>8, <1>9
  <2> QED BY <2>1, <2>2, <1>2, <1>7, <1>10, <1>11 DEF RowInv, Writing
<1>20. /\ IndInv' /\ Durable' = Durable /\ \A d \in Clients \ {c} : Calls'[d] = Calls[d]
  BY <1>2, <1>6, <1>10, <1>13, <1>14, <1>15, <1>16, <1>17, <1>18, <1>19, QuietStep
<1>21. Calls'[c] = Calls[c]
  BY <1>2, <1>3, <1>7, <1>10, <1>11 DEF Calls
<1> QED
  BY <1>20, <1>21, Unseen

LEMMA ClassifyFailedCASStep ==
  ASSUME SqlAssumption, IndInv, NEW c \in Clients, ClassifyFailedCAS(c)
  PROVE  IndInv' /\ (Port!Next \/ UNCHANGED Port!vars)
<1>1. /\ client \in [Clients -> Client] /\ client[c] \in Client
      /\ ArgumentInv(c) /\ PlaceInv(c) /\ AnswerInv(c) /\ LockInv(c) /\ RowInv(c) /\ RowsInv(db)
  BY ClientType
<1>2. client[c].pc = "classify" /\ client[c].pc \in Statements \ {"loadTasks", "loadAudit"}
  BY DEF ClassifyFailedCAS, Statements
<1>3. client[c].op = "save"
  BY <1>1, <1>2 DEF PlaceInv
<1>4. Calls[c].op = "save" /\ Calls[c].expected = client[c].expected
  BY <1>2, <1>3, Pending
<1>5. CASE db.parent = Absent
  <2>1. Finish(c, "done", "missing") /\ db' = db
    BY <1>5 DEF ClassifyFailedCAS, Answer
  <2>2. Port!Verdict(Calls[c]) = "missing"
    BY <1>4, <1>5, DurableType DEF Port!Verdict
  <2> QED BY <1>2, <2>1, <2>2, RefuseStep
<1>6. CASE db.parent # Absent /\ (Dialect = "postgres" \/ db.parent.version # client[c].expected)
  <2>1. Finish(c, "done", "conflict") /\ db' = db
    BY <1>6 DEF ClassifyFailedCAS, Answer
  <2>2. db.parent.version # client[c].expected
    <3>1. db.parent.version \in Nat /\ client[c].expected \in Nat
      BY <1>1, <1>6 DEF RowsInv, Rows, Parent, Client
    <3>2. Dialect = "postgres" => client[c].expected < db.parent.version
      BY <1>1, <1>2, <1>6 DEF LockInv
    <3> QED BY <1>6, <3>1, <3>2
  <2>3. Durable # Absent /\ Durable.version = db.parent.version
    BY <1>6, DurableType
  <2>4. Port!Verdict(Calls[c]) = "conflict"
    BY <1>4, <2>2, <2>3 DEF Port!Verdict
  <2> QED BY <1>2, <2>1, <2>4, RefuseStep
<1>7. CASE db.parent # Absent /\ Dialect # "postgres" /\ db.parent.version = client[c].expected
  <2> DEFINE me == [client[c] EXCEPT !.pc = "audit"]
  <2>1. client' = [client EXCEPT ![c] = me] /\ UNCHANGED <<db, exclusive, shared>>
    BY <1>7 DEF ClassifyFailedCAS, Goto
  <2>2. /\ me \in Client /\ me.pc = "audit" /\ me.op = client[c].op /\ me.snapshot = client[c].snapshot
        /\ me.owns = client[c].owns /\ me.expected = client[c].expected
        /\ me.answer = client[c].answer /\ me.rows = client[c].rows
    BY <1>1 DEF Client, Statements
  <2> HIDE DEF me
  <2>3. client'[c] = me
    BY <1>1, <2>1
  <2>4. ArgumentInv(c)'
    BY <1>1, <1>2, <2>1, <2>2, <2>3 DEF ArgumentInv, Seen
  <2>5. PlaceInv(c)' /\ AnswerInv(c)'
    BY <1>1, <1>2, <1>3, <2>2, <2>3 DEF PlaceInv, AnswerInv
  <2>6. c \in exclusive /\ c \notin shared
    <3>1. client[c].expected # 0 /\ Dialect = "mysql"
      BY <1>1, <1>7 DEF RowsInv, SqlAssumption
    <3> QED BY <3>1, <1>1, <1>2 DEF LockInv
  <2>7. LockInv(c)'
    BY <2>1, <2>2, <2>3, <2>6 DEF LockInv, Writing
  <2>8. RowInv(c)'
    BY <1>1, <1>2, <1>3, <1>7, <2>1, <2>2, <2>3 DEF RowInv, Writing
  <2>9. /\ IndInv' /\ Durable' = Durable /\ \A d \in Clients \ {c} : Calls'[d] = Calls[d]
    BY <2>1, <2>2, <2>4, <2>5, <2>7, <2>8, OwnStep
  <2>10. Calls'[c] = Calls[c]
    BY <1>2, <2>2, <2>3 DEF Calls
  <2> QED BY <2>9, <2>10, Unseen
<1> QED
  BY <1>5, <1>6, <1>7

\* A statement that writes rows of the transaction's own.
LEMMA WriteRowsStep ==
  ASSUME SqlAssumption, IndInv, NEW c \in Clients, client[c].pc \in Writing,
         NEW pc \in {"tasks", "append", "project", "commit"}, NEW rows \in Rows,
         pc = "project" => Dialect = "postgres",
         client' = [client EXCEPT ![c] = [client[c] EXCEPT !.pc = pc, !.rows = rows]],
         UNCHANGED <<db, exclusive, shared>>,
         client'[c] = [client[c] EXCEPT !.pc = pc, !.rows = rows] => RowInv(c)'
  PROVE  IndInv' /\ UNCHANGED Port!vars
<1> DEFINE me == [client[c] EXCEPT !.pc = pc, !.rows = rows]
<1>1. /\ client \in [Clients -> Client] /\ client[c] \in Client
      /\ ArgumentInv(c) /\ PlaceInv(c) /\ AnswerInv(c) /\ LockInv(c)
  BY ClientType
<1>2. client'[c] = me
  BY <1>1
<1>3. /\ me \in Client /\ me.pc = pc /\ me.op = client[c].op /\ me.snapshot = client[c].snapshot
      /\ me.owns = client[c].owns /\ me.answer = client[c].answer /\ me.expected = client[c].expected
  BY <1>1 DEF Client, Statements
<1> HIDE DEF me
<1>4. client[c].op # "load" /\ client[c].pc # "idle"
  BY <1>1 DEF PlaceInv, Writing
<1>5. ArgumentInv(c)'
  BY <1>1, <1>2, <1>3, <1>4 DEF ArgumentInv, Seen
<1>6. PlaceInv(c)'
  BY <1>2, <1>3, <1>4 DEF PlaceInv
<1>7. AnswerInv(c)'
  BY <1>1, <1>2, <1>3 DEF AnswerInv, Writing
<1>8. LockInv(c)'
  <2>1. c \in exclusive /\ c \notin shared
    BY <1>1, Alone DEF LockInv
  <2> QED BY <2>1, <1>2, <1>3 DEF LockInv, Writing
<1>9. /\ IndInv' /\ Durable' = Durable /\ \A d \in Clients \ {c} : Calls'[d] = Calls[d]
  <2>1. RowInv(c)'
    BY <1>2 DEF me
  <2>2. client' = [client EXCEPT ![c] = me]
    BY DEF me
  <2> QED BY <2>1, <2>2, <1>3, <1>5, <1>6, <1>7, <1>8, OwnStep
<1>10. Calls'[c] = Calls[c]
  BY <1>2, <1>3, <1>4 DEF Calls, Writing
<1> QED
  BY <1>9, <1>10, Unseen

\* What a writing transaction's record says, in one place.
LEMMA WriterType ==
  ASSUME IndInv, NEW c \in Clients, client[c].pc \in Writing
  PROVE  /\ client \in [Clients -> Client] /\ client[c] \in Client /\ client[c].rows \in Rows
         /\ RowInv(c) /\ RowsInv(db) /\ Good(client[c].snapshot)
         /\ client[c].snapshot.audit \in Seq(Bodies) /\ client[c].snapshot.body \in Bodies
         /\ client[c].op \in {"create", "save"}
         /\ ParentOf(client[c].snapshot) \in Parent
<1>1. /\ client \in [Clients -> Client] /\ client[c] \in Client
      /\ RowInv(c) /\ RowsInv(db) /\ ArgumentInv(c) /\ PlaceInv(c)
  BY ClientType
<1>2. client[c].op # "load" /\ client[c].op \in {"create", "load", "save"} /\ client[c].rows \in Rows
  BY <1>1 DEF PlaceInv, Writing, Client
<1>3. Good(client[c].snapshot)
  BY <1>1, <1>2 DEF ArgumentInv, Writing
<1> QED
  BY <1>1, <1>2, <1>3 DEF Good, Snapshot, Parent, ParentOf

LEMMA ValidateAuditAppendStep ==
  ASSUME SqlAssumption, IndInv, NEW c \in Clients, ValidateAuditAppend(c)
  PROVE  IndInv' /\ (Port!Next \/ UNCHANGED Port!vars)
<1>1. client[c].pc = "audit" /\ client[c].pc \in Writing /\ client[c].pc \in Statements \ {"loadTasks", "loadAudit"}
  BY DEF ValidateAuditAppend, Writing, Statements
<1>2. /\ client \in [Clients -> Client] /\ client[c] \in Client /\ client[c].rows \in Rows
      /\ RowInv(c) /\ RowsInv(db) /\ db \in Rows
  BY <1>1, WriterType, ClientType
<1>3. client[c].op = "save"
  BY <1>1, ClientType DEF PlaceInv
<1>4. db.parent # Absent /\ db.parent.version = client[c].expected /\ client[c].rows.parent = ParentOf(client[c].snapshot)
  BY <1>1, <1>2, <1>3 DEF RowInv
<1>5. CASE IsPrefix(db.audit, client[c].snapshot.audit)
  <2> DEFINE rows == [client[c].rows EXCEPT !.audit = db.audit]
             me == [client[c] EXCEPT !.pc = "tasks", !.rows = rows]
  <2>1. /\ client' = [client EXCEPT ![c].pc = "tasks", ![c].rows.audit = db.audit]
        /\ UNCHANGED <<db, exclusive, shared>>
    BY <1>5 DEF ValidateAuditAppend
  <2>2. client' = [client EXCEPT ![c] = me]
    BY <1>2, <2>1 DEF Client
  <2>3. rows \in Rows /\ rows.audit = db.audit /\ rows.parent = client[c].rows.parent
    BY <1>2 DEF Rows
  <2> HIDE DEF rows
  <2>4. ASSUME client'[c] = me PROVE RowInv(c)'
    <3>1. me.pc = "tasks" /\ me.op = "save" /\ me.rows = rows /\ me.snapshot = client[c].snapshot
          /\ me.expected = client[c].expected
      BY <1>2, <1>3 DEF Client
    <3> QED BY <2>1, <2>3, <2>4, <3>1, <1>4, <1>5 DEF RowInv, Writing
  <2>5. IndInv' /\ UNCHANGED Port!vars
    BY <1>1, <2>1, <2>2, <2>3, <2>4, WriteRowsStep
  <2> QED BY <2>5
<1>6. CASE ~IsPrefix(db.audit, client[c].snapshot.audit)
  <2>1. Finish(c, "done", "rewrite") /\ db' = db
    BY <1>6 DEF ValidateAuditAppend, Answer
  <2>2. /\ Calls[c].op = "save" /\ Calls[c].expected = client[c].expected
        /\ Calls[c].snapshot = client[c].snapshot
    BY <1>1, <1>3, Pending
  <2>3. Durable # Absent /\ Durable.version = db.parent.version /\ Durable.audit = db.audit
    BY <1>4, DurableType
  <2>4. Port!Verdict(Calls[c]) = "rewrite"
    BY <1>4, <1>6, <2>2, <2>3 DEF Port!Verdict, IsPrefix, Port!IsPrefix
  <2> QED BY <1>1, <2>1, <2>4, RefuseStep
<1> QED
  BY <1>5, <1>6

LEMMA WriteTasksStep ==
  ASSUME SqlAssumption, IndInv, NEW c \in Clients, WriteTasks(c)
  PROVE  IndInv' /\ UNCHANGED Port!vars
<1> DEFINE rows == [client[c].rows EXCEPT !.tasks = client[c].snapshot.body]
           me == [client[c] EXCEPT !.pc = "append", !.rows = rows]
<1>1. /\ client' = [client EXCEPT ![c].pc = "append", ![c].rows.tasks = client[c].snapshot.body]
      /\ UNCHANGED <<db, exclusive, shared>>
      /\ client[c].pc = "tasks" /\ client[c].pc \in Writing
  BY DEF WriteTasks, Writing
<1>2. /\ client \in [Clients -> Client] /\ client[c] \in Client /\ client[c].rows \in Rows
      /\ RowInv(c) /\ client[c].snapshot.body \in Bodies
  BY <1>1, WriterType
<1>3. client' = [client EXCEPT ![c] = me]
  BY <1>1, <1>2 DEF Client
<1>4. /\ rows \in Rows /\ rows.tasks = client[c].snapshot.body
      /\ rows.audit = client[c].rows.audit /\ rows.parent = client[c].rows.parent
  BY <1>2 DEF Rows
<1> HIDE DEF rows
<1>5. ASSUME client'[c] = me PROVE RowInv(c)'
  <2>1. me.pc = "append" /\ me.op = client[c].op /\ me.rows = rows /\ me.snapshot = client[c].snapshot
        /\ me.expected = client[c].expected
    BY <1>2 DEF Client
  <2> QED BY <2>1, <1>1, <1>2, <1>4, <1>5 DEF RowInv, Writing
<1> QED
  BY <1>1, <1>3, <1>4, <1>5, WriteRowsStep

\* The new end of the audit, behind what is stored of it, makes the snapshot's.
LEMMA AppendAuditStep ==
  ASSUME SqlAssumption, IndInv, NEW c \in Clients, AppendAudit(c)
  PROVE  IndInv' /\ UNCHANGED Port!vars
<1> DEFINE audit == client[c].snapshot.audit
           whole == client[c].rows.audit \o SubSeq(audit, Len(client[c].rows.audit) + 1, Len(audit))
           pc == IF Dialect = "postgres" THEN "project" ELSE "commit"
           rows == [client[c].rows EXCEPT !.audit = whole]
           me == [client[c] EXCEPT !.pc = pc, !.rows = rows]
<1>1. /\ client' = [client EXCEPT ![c].pc = pc, ![c].rows.audit = whole]
      /\ UNCHANGED <<db, exclusive, shared>>
      /\ client[c].pc = "append" /\ client[c].pc \in Writing
  BY DEF AppendAudit, Writing
<1>2. /\ client \in [Clients -> Client] /\ client[c] \in Client /\ client[c].rows \in Rows
      /\ RowInv(c) /\ audit \in Seq(Bodies)
  BY <1>1, WriterType
<1>3. client[c].rows.audit = db.audit /\ IsPrefix(db.audit, audit) /\ db.audit \in Seq(Bodies)
  BY <1>1, <1>2, ClientType DEF RowInv, Rows
<1>4. whole = audit
  BY <1>2, <1>3, PrefixAndRest
<1> HIDE DEF whole
<1>5. client' = [client EXCEPT ![c] = me]
  <2>1. client \in [Clients -> Client] /\ client[c] \in Client
    BY <1>2
  <2>2. client' = [client EXCEPT ![c].pc = pc, ![c].rows.audit = whole]
    BY <1>1
  <2> HIDE DEF pc
  <2> QED BY <2>1, <2>2 DEF Client
<1>6. /\ rows \in Rows /\ rows.tasks = client[c].rows.tasks
      /\ rows.audit = audit /\ rows.parent = client[c].rows.parent
  BY <1>2, <1>4 DEF Rows
<1>7. pc \in {"project", "commit"} /\ (pc = "project" <=> Dialect = "postgres")
  OBVIOUS
<1> HIDE DEF rows, pc
<1>8. ASSUME client'[c] = me PROVE RowInv(c)'
  <2>1. me.pc = pc /\ me.op = client[c].op /\ me.rows = rows /\ me.snapshot = client[c].snapshot
        /\ me.expected = client[c].expected
    BY <1>2 DEF Client
  <2>2. /\ rows.parent = ParentOf(client[c].snapshot) /\ rows.tasks = client[c].snapshot.body
        /\ IF client[c].op = "create" THEN db.parent = Absent
           ELSE db.parent # Absent /\ db.parent.version = client[c].expected
    BY <1>1, <1>2, <1>6 DEF RowInv
  <2> QED BY <2>1, <2>2, <1>1, <1>3, <1>6, <1>7, <1>8, ZenonT(40) DEF RowInv, Writing
<1>9. UNCHANGED <<db, exclusive, shared>> /\ client[c].pc \in Writing
  BY <1>1
<1>10. rows \in Rows /\ pc \in {"tasks", "append", "project", "commit"} /\ (pc = "project" => Dialect = "postgres")
  BY <1>6, <1>7
<1> QED
  BY <1>5, <1>8, <1>9, <1>10, WriteRowsStep

LEMMA ReplaceQueryProjectionStep ==
  ASSUME SqlAssumption, IndInv, NEW c \in Clients, ReplaceQueryProjection(c)
  PROVE  IndInv' /\ UNCHANGED Port!vars
<1> DEFINE new == ParentOf(client[c].snapshot)
           rows == [client[c].rows EXCEPT !.projection = new]
           me == [client[c] EXCEPT !.pc = "commit", !.rows = rows]
<1>1. /\ client' = [client EXCEPT ![c].pc = "commit", ![c].rows.projection = new]
      /\ UNCHANGED <<db, exclusive, shared>>
      /\ client[c].pc = "project" /\ client[c].pc \in Writing
  BY DEF ReplaceQueryProjection, Writing
<1>2. /\ client \in [Clients -> Client] /\ client[c] \in Client /\ client[c].rows \in Rows
      /\ RowInv(c) /\ new \in Parent
  BY <1>1, WriterType
<1>3. client' = [client EXCEPT ![c] = me]
  <2> HIDE DEF new
  <2> QED BY <1>1, <1>2 DEF Client
<1>4. /\ rows \in Rows /\ rows.tasks = client[c].rows.tasks /\ rows.projection = new
      /\ rows.audit = client[c].rows.audit /\ rows.parent = client[c].rows.parent
  <2> HIDE DEF new
  <2> QED BY <1>2 DEF Rows
<1> HIDE DEF rows
<1>5. ASSUME client'[c] = me PROVE RowInv(c)'
  <2>1. me.pc = "commit" /\ me.op = client[c].op /\ me.rows = rows /\ me.snapshot = client[c].snapshot
        /\ me.expected = client[c].expected
    BY <1>2 DEF Client
  <2> QED BY <2>1, <1>1, <1>2, <1>4, <1>5 DEF RowInv, Writing
<1> QED
  BY <1>1, <1>3, <1>4, <1>5, WriteRowsStep

\* The commit: what was matched is still what is stored, because nobody else can
\* have committed meanwhile, and what becomes visible is the snapshot.
LEMMA CommitStep ==
  ASSUME SqlAssumption, IndInv, NEW c \in Clients, Commit(c)
  PROVE  IndInv' /\ Port!Next
<1> DEFINE me == [client[c] EXCEPT !.pc = "committed", !.answer = "ok"]
           s == client[c].snapshot
           SeenNow(v) == v # 0 => db'.parent # Absent /\ v <= db'.parent.version
<1>1. /\ client' = [client EXCEPT ![c] = me] /\ db' = client[c].rows
      /\ exclusive' = exclusive \ {c} /\ shared' = shared \ {c}
      /\ client[c].pc = "commit" /\ client[c].pc \in Writing
      /\ client[c].pc \in Statements \ {"loadTasks", "loadAudit"}
  BY DEF Commit, Finish, Writing, Statements
<1>2. /\ client \in [Clients -> Client] /\ client[c] \in Client /\ client[c].rows \in Rows
      /\ RowInv(c) /\ RowsInv(db) /\ Good(s) /\ client[c].op \in {"create", "save"}
      /\ ParentOf(s) \in Parent /\ s.version \in Nat /\ client[c].expected \in Nat
  BY <1>1, WriterType DEF Good, Snapshot, Client
<1>3. ArgumentInv(c) /\ LockInv(c) /\ exclusive \subseteq Clients /\ shared \subseteq Clients
  BY ClientType
<1>4. exclusive = {c} /\ shared = {}
  BY <1>1, <1>3, Alone DEF LockInv
<1>5. /\ me \in Client /\ me.pc = "committed" /\ me.op = client[c].op /\ me.snapshot = s
      /\ me.owns = client[c].owns /\ me.expected = client[c].expected /\ me.answer = "ok"
  BY <1>2 DEF Client
<1> HIDE DEF me
<1>6. client'[c] = me /\ \A d \in Clients \ {c} : client'[d] = client[d]
  BY <1>1, <1>2
<1>7. /\ db'.parent = ParentOf(s) /\ db'.tasks = s.body /\ db'.audit = s.audit
      /\ Dialect = "postgres" => db'.projection = ParentOf(s)
  BY <1>1, <1>2 DEF RowInv
<1>8. /\ db'.parent # Absent /\ db'.parent.version = s.version /\ db'.parent.body = s.body
      /\ s.version >= 1 /\ s.audit # << >> /\ Last(s.audit) = s.body
  BY <1>2, <1>7 DEF SqlAssumption, ParentOf, Good
<1>9. RowsInv(db)' /\ db' \in Rows
  <2>1. RowsInv(client[c].rows)
    BY <1>1, <1>2, <1>7, <1>8 DEF RowsInv
  <2> QED BY <2>1, <1>1, <1>2 DEF RowsInv
<1>10. /\ client[c].op = "create" => db.parent = Absent
       /\ client[c].op = "save" => /\ db.parent # Absent /\ db.parent.version = client[c].expected
                                   /\ client[c].expected <= s.version
  BY <1>1, <1>2, <1>3 DEF RowInv, ArgumentInv
<1>11. ASSUME NEW v \in Nat, Seen(v) PROVE SeenNow(v)
  <2>1. CASE v = 0
    BY <2>1 DEF Seen
  <2>2. CASE v # 0
    <3>1. db.parent # Absent /\ v <= db.parent.version
      BY <2>2, <1>11 DEF Seen
    <3>2. v <= s.version
      BY <3>1, <1>2, <1>10
    <3> QED BY <3>2, <1>8 DEF Seen
  <2> QED BY <2>1, <2>2
<1>12. \A d \in Clients \ {c} : CallInv(d)'
  <2> SUFFICES ASSUME NEW d \in Clients \ {c} PROVE CallInv(d)'
    OBVIOUS
  <2>1. client'[d] = client[d] /\ client[d] \in Client /\ client[d].expected \in Nat
    BY <1>6, ClientType DEF Client
  <2>2. ArgumentInv(d) /\ PlaceInv(d) /\ AnswerInv(d) /\ LockInv(d) /\ RowInv(d)
    BY ClientType
  <2>3. d \notin exclusive /\ d \notin shared /\ d \notin exclusive' /\ d \notin shared'
    BY <1>1, <1>4
  <2>4. client[d].pc \notin Writing
    BY <2>2, <2>3 DEF LockInv
  <2>5. ArgumentInv(d)'
    <3>1. client[d].owns # Absent => Good(client[d].owns) /\ SeenNow(client[d].owns.version)
      <4>1. client[d].owns # Absent => Good(client[d].owns) /\ Seen(client[d].owns.version)
                                       /\ client[d].owns.version \in Nat
        BY <2>2 DEF ArgumentInv, Good, Snapshot
      <4> QED BY <4>1, <1>11
    <3>2. client[d].pc # "idle" /\ client[d].op = "save" => SeenNow(client[d].expected)
      BY <2>1, <2>2, <1>11 DEF ArgumentInv
    <3> QED BY <2>1, <2>2, <3>1, <3>2 DEF ArgumentInv, Seen
  <2>6. PlaceInv(d)'
    BY <2>1, <2>2 DEF PlaceInv
  <2>7. AnswerInv(d)'
    BY <2>1, <2>2 DEF AnswerInv
  <2>8. LockInv(d)'
    <3>1. client[d].pc = "classify" /\ Dialect = "postgres" => client[d].expected < s.version
      <4> SUFFICES ASSUME client[d].pc = "classify", Dialect = "postgres"
                   PROVE  client[d].expected < s.version
        OBVIOUS
      <4>1. CASE db.parent = Absent
        <5>1. client[d].expected = 0
          BY <4>1, <2>2 DEF LockInv
        <5> QED BY <5>1, <1>2, <1>8
      <4>2. CASE db.parent # Absent
        <5>1. client[d].expected < db.parent.version /\ db.parent.version <= s.version
              /\ db.parent.version \in Nat
          BY <4>2, <2>2, <1>2, <1>10 DEF LockInv
        <5> QED BY <5>1, <2>1, <1>2
      <4> QED BY <4>1, <4>2
    <3> QED BY <3>1, <2>1, <2>2, <2>3, <2>4, <1>8 DEF LockInv
  <2>9. RowInv(d)'
    <3>1. client[d].pc \in {"loadTasks", "loadAudit"} =>
            RowsInv(client[d].rows) /\ client[d].rows.parent # Absent /\ SeenNow(client[d].rows.parent.version)
      <4>1. client[d].pc \in {"loadTasks", "loadAudit"} =>
              /\ RowsInv(client[d].rows) /\ client[d].rows.parent # Absent
              /\ Seen(client[d].rows.parent.version) /\ client[d].rows.parent.version \in Nat
        BY <2>2 DEF RowInv, RowsInv, Rows, Parent
      <4> QED BY <4>1, <1>11
    <3>2. client[d].pc \notin {"tasks", "append", "project", "commit"}
      BY <2>4 DEF Writing
    <3> QED BY <2>1, <2>2, <2>4, <3>1, <3>2 DEF RowInv, Seen
  <2> QED BY <2>5, <2>6, <2>7, <2>8, <2>9 DEF CallInv
<1>13. CallInv(c)'
  <2>1. ArgumentInv(c)'
    <3>1. client[c].owns # Absent => Good(client[c].owns) /\ SeenNow(client[c].owns.version)
      <4>1. client[c].owns # Absent => Good(client[c].owns) /\ Seen(client[c].owns.version)
                                       /\ client[c].owns.version \in Nat
        BY <1>3 DEF ArgumentInv, Good, Snapshot
      <4> QED BY <4>1, <1>11
    <3>2. client[c].op = "save" => SeenNow(client[c].expected) /\ client[c].expected <= s.version
      BY <1>1, <1>2, <1>3, <1>11 DEF ArgumentInv
    <3> QED BY <1>2, <1>5, <1>6, <3>1, <3>2 DEF ArgumentInv, Seen
  <2>2. PlaceInv(c)' /\ AnswerInv(c)'
    BY <1>2, <1>5, <1>6 DEF PlaceInv, AnswerInv
  <2>3. LockInv(c)'
    BY <1>1, <1>5, <1>6 DEF LockInv, Writing
  <2>4. RowInv(c)'
    BY <1>5, <1>6 DEF RowInv, Writing
  <2> QED BY <2>1, <2>2, <2>3, <2>4 DEF CallInv
<1>14. MutualExclusion'
  BY <1>1, Release
<1>15. TypeOK'
  BY <1>1, <1>2, <1>3, <1>5, <1>9 DEF TypeOK
<1>16. IndInv'
  BY <1>9, <1>12, <1>13, <1>14, <1>15 DEF IndInv
<1>17. Durable' = s
  <2>1. RowsInv(client[c].rows) /\ client[c].rows.parent # Absent
    BY <1>1, <1>8, <1>9 DEF RowsInv
  <2>2. Assembled(client[c].rows) = [version |-> s.version, audit |-> s.audit, body |-> s.body]
    BY <2>1, <1>1, <1>7, <1>8, AssembledRows
  <2>3. s = [version |-> s.version, audit |-> s.audit, body |-> s.body]
    BY <1>2 DEF Good, Snapshot
  <2>4. Durable' = Assembled(client[c].rows)
    BY <1>1 DEF Durable, Assembled
  <2> QED BY <2>2, <2>3, <2>4
<1>18. /\ Calls[c].state = "pending" /\ Calls[c].op = client[c].op
       /\ Calls[c].snapshot = s /\ Calls[c].expected = client[c].expected
  BY <1>1, Pending
<1>19. Port!Verdict(Calls[c]) = "ok"
  <2>1. CASE client[c].op = "create"
    BY <2>1, <1>10, <1>18, DurableType DEF Port!Verdict
  <2>2. CASE client[c].op = "save"
    <3>1. Durable # Absent /\ Durable.version = db.parent.version /\ Durable.audit = db.audit
      BY <2>2, <1>10, DurableType
    <3>2. IsPrefix(db.audit, s.audit)
      BY <1>1, <1>2 DEF RowInv
    <3> QED BY <2>2, <3>1, <3>2, <1>10, <1>18 DEF Port!Verdict, IsPrefix, Port!IsPrefix
  <2> QED BY <1>2, <2>1, <2>2
<1>20. Calls' = [Calls EXCEPT ![c] = Port!Performed(client[c].op, "ok", Absent)]
  <2>1. \A d \in Clients \ {c} : Calls'[d] = Calls[d]
    BY <1>6 DEF Calls, Loaded
  <2>2. Calls'[c] = Port!Performed(client[c].op, "ok", Absent)
    BY <1>2, <1>5, <1>6 DEF Calls, Loaded, Port!Performed
  <2> QED BY <2>1, <2>2, OneCall
<1>21. Port!Perform(c, "ok")
  BY <1>2, <1>17, <1>18, <1>19, <1>20 DEF Port!Perform
<1> QED
  BY <1>16, <1>21 DEF Port!Next, Port!Answers

-----------------------------------------------------------------------------
(* Load. *)

\* The first query takes the snapshot: there the Load is performed.
LEMMA LoadParentStep ==
  ASSUME SqlAssumption, IndInv, NEW c \in Clients, LoadParent(c)
  PROVE  IndInv' /\ Port!Next
<1>1. /\ client \in [Clients -> Client] /\ client[c] \in Client /\ RowsInv(db) /\ db \in Rows
      /\ ArgumentInv(c) /\ PlaceInv(c) /\ AnswerInv(c) /\ LockInv(c)
      /\ exclusive \subseteq Clients /\ shared \subseteq Clients
  BY ClientType
<1>2. /\ client[c].pc = "parent" /\ client[c].pc \in Statements \ {"loadTasks", "loadAudit"}
      /\ UNCHANGED <<db, exclusive, shared>>
  BY DEF LoadParent, Statements
<1>3. client[c].op = "load" /\ c \notin exclusive /\ c \notin shared
  BY <1>1, <1>2 DEF PlaceInv, LockInv, Writing
<1>4. Calls[c].state = "pending" /\ Calls[c].op = "load"
  BY <1>2, <1>3, Pending
<1>5. CASE db.parent = Absent
  <2>1. Finish(c, "done", "missing")
    BY <1>2, <1>3, <1>5 DEF LoadParent, Finish
  <2>2. Port!Verdict(Calls[c]) = "missing"
    BY <1>4, <1>5, DurableType DEF Port!Verdict
  <2> QED BY <1>2, <2>1, <2>2, RefuseStep
<1>6. CASE db.parent # Absent
  <2> DEFINE me == [client[c] EXCEPT !.pc = "loadTasks", !.rows = db]
  <2>1. client' = [client EXCEPT ![c] = me]
    BY <1>6 DEF LoadParent
  <2>2. /\ me \in Client /\ me.pc = "loadTasks" /\ me.op = "load" /\ me.rows = db
        /\ me.owns = client[c].owns /\ me.answer = client[c].answer
    BY <1>1, <1>3 DEF Client, Statements
  <2> HIDE DEF me
  <2>3. client'[c] = me
    BY <1>1, <2>1
  <2>4. ArgumentInv(c)'
    BY <1>1, <1>2, <2>2, <2>3 DEF ArgumentInv, Seen
  <2>5. PlaceInv(c)' /\ AnswerInv(c)'
    BY <1>1, <1>2, <2>2, <2>3 DEF PlaceInv, AnswerInv
  <2>6. LockInv(c)'
    BY <1>2, <1>3, <2>2, <2>3 DEF LockInv, Writing
  <2>7. RowInv(c)'
    <3>1. db.parent.version \in Nat /\ db.parent.version <= db.parent.version
      BY <1>1, <1>6 DEF Rows, Parent
    <3>2. Seen(db.parent.version)
      BY <1>6, <3>1 DEF Seen
    <3> QED BY <1>1, <1>2, <1>6, <2>2, <2>3, <3>2 DEF RowInv, Seen, Writing
  <2>8. /\ IndInv' /\ Durable' = Durable /\ \A d \in Clients \ {c} : Calls'[d] = Calls[d]
    BY <1>2, <2>1, <2>2, <2>4, <2>5, <2>6, <2>7, OwnStep
  <2>9. Durable # Absent
    BY <1>6, DurableType
  <2>10. Calls'[c] = Port!Performed("load", "ok", Durable)
    <3>1. client[c].answer = ""
      BY <1>1, <1>2 DEF AnswerInv
    <3> QED BY <3>1, <2>2, <2>3 DEF Calls, Loaded, Durable, Port!Performed
  <2>11. Calls' = [Calls EXCEPT ![c] = Port!Performed("load", "ok", Durable)]
    BY <2>8, <2>10, OneCall
  <2>12. Port!Verdict(Calls[c]) = "ok"
    BY <1>4, <2>9 DEF Port!Verdict
  <2>13. Port!Perform(c, "ok")
    BY <1>4, <2>8, <2>11, <2>12 DEF Port!Perform
  <2> QED BY <2>8, <2>13 DEF Port!Next, Port!Answers
<1> QED
  BY <1>5, <1>6

\* A reader's record: the rows it has seen are those of one commit.
LEMMA ReaderType ==
  ASSUME IndInv, NEW c \in Clients, client[c].pc \in {"loadTasks", "loadAudit"}
  PROVE  /\ client[c].rows \in Rows /\ RowsInv(client[c].rows) /\ client[c].rows.parent # Absent
         /\ Seen(client[c].rows.parent.version)
         /\ client[c].op = "load" /\ client[c].answer = ""
         /\ c \notin exclusive /\ c \notin shared
BY ClientType DEF RowInv, RowsInv, PlaceInv, AnswerInv, LockInv, Writing

LEMMA LoadTasksStep ==
  ASSUME SqlAssumption, IndInv, NEW c \in Clients, LoadTasks(c)
  PROVE  IndInv' /\ UNCHANGED Port!vars
<1> DEFINE rows == client[c].rows
           me == [client[c] EXCEPT !.pc = "loadAudit"]
<1>1. /\ client \in [Clients -> Client] /\ client[c] \in Client /\ ArgumentInv(c)
  BY ClientType
<1>2. /\ client' = [client EXCEPT ![c].pc = "loadAudit", ![c].rows.tasks = rows.tasks]
      /\ UNCHANGED <<db, exclusive, shared>>
      /\ client[c].pc = "loadTasks"
  BY DEF LoadTasks, Visible
<1>3. /\ rows \in Rows /\ RowsInv(rows) /\ rows.parent # Absent /\ Seen(rows.parent.version)
      /\ client[c].op = "load" /\ client[c].answer = "" /\ c \notin exclusive /\ c \notin shared
  BY <1>2, ReaderType
<1>4. client' = [client EXCEPT ![c] = me]
  <2>1. [rows EXCEPT !.tasks = rows.tasks] = rows
    BY <1>3 DEF Rows
  <2>2. client' = [client EXCEPT ![c] = [client[c] EXCEPT !.pc = "loadAudit",
                                                        !.rows = [rows EXCEPT !.tasks = rows.tasks]]]
    BY <1>1, <1>2 DEF Client
  <2>3. [client[c] EXCEPT !.pc = "loadAudit", !.rows = rows] = me
    BY <1>1 DEF Client
  <2> QED BY <2>1, <2>2, <2>3
<1>5. /\ me \in Client /\ me.pc = "loadAudit" /\ me.op = "load" /\ me.rows = rows
      /\ me.owns = client[c].owns /\ me.answer = ""
  BY <1>1, <1>3 DEF Client, Statements
<1> HIDE DEF me
<1>6. client'[c] = me
  BY <1>1, <1>4
<1>7. ArgumentInv(c)'
  BY <1>1, <1>2, <1>5, <1>6 DEF ArgumentInv, Seen
<1>8. PlaceInv(c)' /\ AnswerInv(c)'
  BY <1>5, <1>6 DEF PlaceInv, AnswerInv
<1>9. LockInv(c)'
  BY <1>2, <1>3, <1>5, <1>6 DEF LockInv, Writing
<1>10. RowInv(c)'
  BY <1>2, <1>3, <1>5, <1>6 DEF RowInv, Seen, Writing
<1>11. /\ IndInv' /\ Durable' = Durable /\ \A d \in Clients \ {c} : Calls'[d] = Calls[d]
  BY <1>2, <1>4, <1>5, <1>7, <1>8, <1>9, <1>10, OwnStep
<1>12. Calls'[c] = Calls[c]
  BY <1>2, <1>3, <1>5, <1>6 DEF Calls, Loaded
<1> QED
  BY <1>11, <1>12, Unseen

\* What is handed out is what was there when the parent row was read.
LEMMA LoadAuditStep ==
  ASSUME SqlAssumption, IndInv, NEW c \in Clients, LoadAudit(c)
  PROVE  IndInv' /\ UNCHANGED Port!vars
<1> DEFINE rows == client[c].rows
           loaded == Assembled(rows)
           me == [client[c] EXCEPT !.pc = "done", !.answer = "ok", !.rows = rows, !.owns = loaded]
<1>1. /\ client \in [Clients -> Client] /\ client[c] \in Client
  BY ClientType
<1>2. client[c].pc = "loadAudit" /\ UNCHANGED <<db, exclusive, shared>>
  BY DEF LoadAudit
<1>3. /\ rows \in Rows /\ RowsInv(rows) /\ rows.parent # Absent /\ Seen(rows.parent.version)
      /\ client[c].op = "load" /\ client[c].answer = "" /\ c \notin exclusive /\ c \notin shared
  BY <1>2, ReaderType
<1>4. client' = [client EXCEPT ![c] = me]
  <2>1. [rows EXCEPT !.audit = rows.audit] = rows
    BY <1>3 DEF Rows
  <2> QED BY <2>1 DEF LoadAudit, Visible
<1>5. Good(loaded) /\ loaded \in Snapshot /\ loaded.version = rows.parent.version
  <2> HIDE DEF rows
  <2>1. /\ Good(Assembled(rows))
        /\ Assembled(rows) = [version |-> rows.parent.version, audit |-> rows.audit,
                             body |-> rows.parent.body]
    BY <1>3, AssembledRows
  <2> QED BY <2>1 DEF Good
<1> HIDE DEF loaded
<1>6. /\ me \in Client /\ me.pc = "done" /\ me.op = "load" /\ me.rows = rows
      /\ me.owns = loaded /\ me.answer = "ok"
  BY <1>1, <1>3, <1>5 DEF Client
<1> HIDE DEF me
<1>7. client'[c] = me
  BY <1>1, <1>4
<1>8. ArgumentInv(c)'
  BY <1>2, <1>3, <1>5, <1>6, <1>7 DEF ArgumentInv, Seen
<1>9. PlaceInv(c)' /\ AnswerInv(c)'
  BY <1>6, <1>7 DEF PlaceInv, AnswerInv
<1>10. LockInv(c)'
  BY <1>2, <1>3, <1>6, <1>7 DEF LockInv, Writing
<1>11. RowInv(c)'
  BY <1>6, <1>7 DEF RowInv, Writing
<1>12. /\ IndInv' /\ Durable' = Durable /\ \A d \in Clients \ {c} : Calls'[d] = Calls[d]
  BY <1>2, <1>4, <1>6, <1>8, <1>9, <1>10, <1>11, OwnStep
<1>13. Calls'[c] = Calls[c]
  BY <1>2, <1>3, <1>6, <1>7 DEF Calls, Loaded
<1> QED
  BY <1>12, <1>13, Unseen

-----------------------------------------------------------------------------
(* Every step, and every behaviour. *)

LEMMA SqlInit ==
  ASSUME SqlAssumption, Init
  PROVE  IndInv /\ Port!Init
<1>1. db = NoRows /\ exclusive = {} /\ shared = {} /\ client = [c \in Clients |-> Idle]
  BY DEF Init
<1>2. /\ NoRows \in Rows /\ NoRows.parent = Absent /\ NoRows.projection = Absent
      /\ NoRows.audit = << >>
  BY DEF NoRows, Rows
<1>3. /\ Idle \in Client /\ Idle.pc = "idle" /\ Idle.op = "load" /\ Idle.owns = Absent
      /\ Idle.rows = NoRows /\ Idle.answer = ""
  BY <1>2 DEF Idle, Client
<1>4. \A c \in Clients : client[c] = Idle
  BY <1>1
<1>5. TypeOK
  BY <1>1, <1>2, <1>3 DEF TypeOK
<1>6. MutualExclusion
  <2>1. Cardinality(exclusive) = 0 /\ exclusive = {}
    BY <1>1, FS_EmptySet
  <2> QED BY <2>1 DEF MutualExclusion
<1>7. RowsInv(db)
  BY <1>1, <1>2 DEF RowsInv
<1>8. \A c \in Clients : CallInv(c)
  <2> SUFFICES ASSUME NEW c \in Clients PROVE CallInv(c)
    OBVIOUS
  <2>1. /\ client[c].pc = "idle" /\ client[c].op = "load" /\ client[c].owns = Absent
        /\ client[c].rows.audit = << >> /\ client[c].answer = ""
    BY <1>2, <1>3, <1>4
  <2>2. c \notin exclusive /\ c \notin shared
    BY <1>1
  <2>3. ArgumentInv(c)
    BY <2>1 DEF ArgumentInv
  <2>4. PlaceInv(c) /\ AnswerInv(c)
    BY <2>1 DEF PlaceInv, AnswerInv
  <2>5. LockInv(c)
    BY <2>1, <2>2 DEF LockInv, Writing
  <2>6. RowInv(c)
    BY <2>1 DEF RowInv, Writing
  <2> QED BY <2>3, <2>4, <2>5, <2>6 DEF CallInv
<1>9. IndInv
  BY <1>5, <1>6, <1>7, <1>8 DEF IndInv
<1>10. Durable = Absent
  BY <1>1, <1>2, <1>9, DurableType
<1>11. Calls = [c \in Clients |-> Port!None]
  <2>1. \A c \in Clients : Calls[c] = Port!None
    BY <1>3, <1>4 DEF Calls, Port!None
  <2>2. Calls = [c \in Clients |-> Calls[c]]
    BY DEF Calls
  <2> QED BY <2>1, <2>2
<1> QED
  BY <1>9, <1>10, <1>11 DEF Port!Init

\* Every step keeps the invariant and, but for an acknowledgement that is lost,
\* is a step of the port or none.
LEMMA SqlStep ==
  ASSUME SqlAssumption, IndInv, Next
  PROVE  IndInv' /\ ("ack" \notin Faults => Port!Next \/ UNCHANGED Port!vars)
<1>1. PICK c \in Clients :
        \/ Invoke(c, "create", Fresh(c), 0, "insert")
        \/ Invoke(c, "load", Absent, 0, "parent")
        \/ InvokeSave(c)
        \/ Insert(c) \/ InsertFails(c) \/ Probe(c) \/ Deadlock(c)
        \/ Update(c) \/ ClassifyFailedCAS(c) \/ ValidateAuditAppend(c)
        \/ WriteTasks(c) \/ AppendAudit(c) \/ ReplaceQueryProjection(c) \/ Commit(c)
        \/ LoadParent(c) \/ LoadTasks(c) \/ LoadAudit(c)
        \/ StatementFails(c) \/ Acknowledge(c) \/ Return(c)
  BY DEF Next
<1>2. CASE Invoke(c, "create", Fresh(c), 0, "insert")
  <2>1. Good(Fresh(c)) /\ Fresh(c) \in Snapshot
    BY FreshIsGood DEF Good
  <2> QED BY <1>2, <2>1, InvokeStep
<1>3. CASE Invoke(c, "load", Absent, 0, "parent")
  BY <1>3, InvokeStep
<1>4. CASE InvokeSave(c) \/ Return(c)
  BY <1>4, InvokeSaveStep, ReturnStep
<1>5. CASE Insert(c) \/ InsertFails(c) \/ Probe(c) \/ Deadlock(c)
  BY <1>5, InsertStep, InsertFailsStep, ProbeStep, DeadlockStep
<1>6. CASE Update(c) \/ ClassifyFailedCAS(c) \/ ValidateAuditAppend(c)
  BY <1>6, UpdateStep, ClassifyFailedCASStep, ValidateAuditAppendStep
<1>7. CASE WriteTasks(c) \/ AppendAudit(c) \/ ReplaceQueryProjection(c) \/ Commit(c)
  BY <1>7, WriteTasksStep, AppendAuditStep, ReplaceQueryProjectionStep, CommitStep
<1>8. CASE LoadParent(c) \/ LoadTasks(c) \/ LoadAudit(c)
  BY <1>8, LoadParentStep, LoadTasksStep, LoadAuditStep
<1>9. CASE StatementFails(c) \/ Acknowledge(c)
  BY <1>9, StatementFailsStep, AcknowledgeStep
<1> QED
  BY <1>1, <1>2, <1>3, <1>4, <1>5, <1>6, <1>7, <1>8, <1>9

\* A step that changes nothing.
LEMMA SqlStutter ==
  ASSUME IndInv, UNCHANGED vars
  PROVE  IndInv' /\ UNCHANGED Port!vars
<1>1. db' = db /\ exclusive' = exclusive /\ shared' = shared /\ client' = client
  BY DEF vars
<1>2. TypeOK' /\ MutualExclusion' /\ RowsInv(db)'
  BY <1>1 DEF IndInv, TypeOK, MutualExclusion, RowsInv
<1>3. \A c \in Clients : CallInv(c)'
  <2> SUFFICES ASSUME NEW c \in Clients PROVE CallInv(c)'
    OBVIOUS
  <2>1. ArgumentInv(c) /\ PlaceInv(c) /\ AnswerInv(c) /\ LockInv(c) /\ RowInv(c)
    BY ClientType
  <2>2. ArgumentInv(c)'
    BY <1>1, <2>1 DEF ArgumentInv, Seen
  <2>3. PlaceInv(c)'
    BY <1>1, <2>1 DEF PlaceInv
  <2>4. AnswerInv(c)'
    BY <1>1, <2>1 DEF AnswerInv
  <2>5. LockInv(c)'
    BY <1>1, <2>1 DEF LockInv
  <2>6. RowInv(c)'
    BY <1>1, <2>1 DEF RowInv, Seen
  <2> QED BY <2>2, <2>3, <2>4, <2>5, <2>6 DEF CallInv
<1>4. Durable' = Durable /\ Calls' = Calls
  BY <1>1 DEF Durable, Calls, Loaded
<1> QED
  BY <1>2, <1>3, <1>4 DEF IndInv, Port!vars

\* The inductive invariant says what the runs check.
LEMMA IndInvImplies ==
  ASSUME IndInv
  PROVE  SqlInv /\ ProjectionIsCurrent
BY DEF IndInv, SqlInv, RowsInv, RowsAgree, ProjectionIsCurrent

(***************************************************************************)
(* The committed rows are those of one call, and of two transactions that  *)
(* lock the parent row one waits (Store.Create and Store.Save of both      *)
(* adapters), whatever fails and whatever acknowledgement is lost.         *)
(***************************************************************************)
THEOREM RowsAreOfOneCall ==
  ASSUME SqlAssumption
  PROVE  Spec => []SqlInv
<1>1. Init => IndInv
  BY SqlInit
<1>2. IndInv /\ [Next]_vars => IndInv'
  BY SqlStep, SqlStutter
<1>3. IndInv => SqlInv
  BY IndInvImplies
<1> QED
  BY <1>1, <1>2, <1>3, PTL DEF Spec

(***************************************************************************)
(* The query projection is the committed aggregate's own at every commit   *)
(* and after every failure (postgres replaceQueryProjection).              *)
(***************************************************************************)
THEOREM ProjectionFollows ==
  ASSUME SqlAssumption
  PROVE  Spec => []ProjectionIsCurrent
<1>1. Init => IndInv
  BY SqlInit
<1>2. IndInv /\ [Next]_vars => IndInv'
  BY SqlStep, SqlStutter
<1>3. IndInv => ProjectionIsCurrent
  BY IndInvImplies
<1> QED
  BY <1>1, <1>2, <1>3, PTL DEF Spec

(***************************************************************************)
(* A SQL adapter whose acknowledgements arrive implements the port: a Load *)
(* is performed by its first query, a Create or Save by its commit or by   *)
(* the statement that refuses it, and a transaction that fails has changed *)
(* nothing (postgres/store.go, mysql/store.go).                            *)
(***************************************************************************)
THEOREM SqlImplementsPort ==
  ASSUME SqlAssumption, "ack" \notin Faults
  PROVE  Spec => Port!Spec
<1>1. Init => IndInv /\ Port!Init
  BY SqlInit
<1>2. IndInv /\ [Next]_vars => IndInv' /\ [Port!Next]_(Port!vars)
  BY SqlStep, SqlStutter
<1> QED
  BY <1>1, <1>2, PTL DEF Spec, Port!Spec
=============================================================================
