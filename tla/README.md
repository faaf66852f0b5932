# A verification of easy-workflow

TLA+ specifications of the workflow runtime in `src/`, checked with TLC on small
instances, and theorems about its core proved with TLAPS for every instance. Line
numbers are those of the sources in `src/`. `PROJECT.json` lists every run, property,
theorem and hazard, and the source lines each definition stands for.

Contents: 1 the system, 2 the modules, 3 the runs, 4 fairness, 5 the proofs,
6 disagreements between the code and its documentation, 7 what is not modelled,
8 the plan.

## 1. The system

easy-workflow is a Go library. A host describes a process as a **Definition**, a
directed graph of nodes; each business node has a *kind* for which the host has
registered a **handler**. A **workflow instance** is one aggregate: a frozen
Definition, the current node, its opaque state, a history of human tasks, an
append-only audit and a version. Every engine call is one transaction: load a
snapshot, change a private candidate, compare-and-swap it back.

| component | state it keeps | operations | interacts with |
|---|---|---|---|
| Engine (`engine.go`) | none between calls; a snapshot and a candidate in each | Start, StartPublished, Handle, Withdraw, Return, Transfer, advance | compiler, handlers, policies, store |
| Instance facts (`instance_facts.go`, `runtime.go`) | the candidate | record…, enterNode, activateTasks, returnTo, transfer, withdraw, complete, reject, advanceVersion | engine only |
| Node result application (`node_result_application.go`) | a prepared result | validate, prepare, apply | engine, handlers' proposals |
| Approval handler (`approval/approval.go`) | none; it reads the tasks of its node | Activate, Handle, with or-sign and countersign | organization adapter of the host |
| Condition handler (`condition/condition.go`) | none | validate, evaluate | business data, compiler |
| Store port (`store.go`) | the durable aggregate | Create, Load, Save | engine |
| Memory store (`store.go`) | map entry, an RWMutex | the same, on shared memory | callers that hold pointers |
| PostgreSQL, MySQL stores (`postgres/store.go`, `mysql/store.go`) | parent row, task rows, audit rows | the same, as transactions of several statements | the database |
| PostgreSQL projection (`postgres/projection*.go`) | denormalised query rows | rewritten by each save; three listings, keyset-paged | the store's transaction, hosts' users |
| Snapshot codecs (`postgres/codec.go`, `mysql/codec.go`) | none | encode, decode | both SQL stores, strict JSON |
| Migrations (`postgres/migrations/`, `mysql/migrations/`) | the schema; 0003 derives query rows | run once or again by the host's tooling | running hosts, old and new |
| Strict JSON (`internal/jsonstrict/`) | none | Validate, Decode | every decoder of configuration and payloads |
| Test kits (`storetest/`, `definitiontest/`) | a script of calls and expectations | Run, RunWriter, RunReader, RunRepository | a host's own adapters |
| Compiler (`compiler.go`, `handler_preparation.go`) | the analysis of a Definition | compileDefinition | registry |
| Registry (`handler.go`) | kinds and their handlers | Register, lookup | compiler |
| Publication (`publication.go`) | versions of Definitions | Publish, CreateVersion, Load, LoadLatest | compiler, engine |
| Definition (`definition.go`), nil guard | – | construction, a reflection helper | – |

What is hard about it, and what makes each part correct:

* **Concurrent commands on one instance.** Each validates a snapshot that may be stale
  before its Save. Correct: an accepted save overwrites nothing another call wrote, a
  decision counts once, and every version names one cause.
* **Partial work.** A transition through several nodes may fail anywhere. Correct:
  nothing durable changes, and whatever is committed is *settled*: it runs exactly
  when there is an active task, and every active task is at the current node.
* **Untrusted proposals.** A handler returns a view of its tasks and a disposition,
  which can disagree, or reopen history. Correct: the engine refuses what would break
  the aggregate, whatever the handler.
* **Rounds.** A return or a transfer makes new tasks beside decided ones, which the
  handler is shown again. Correct: an or-sign takes one decision per entry, tasks are
  closed only for a recorded reason, the audit tells the path.
* **The stores.** Pointers cross the memory store's boundary; its lock is a spin on
  TryLock. The SQL adapters take several statements, each of which may fail, wait, or
  be chosen as a deadlock victim. Correct: all behave like one atomic operation at a
  time; a load never mixes two commits; query rows follow the aggregate.
* **Compilation.** The graph scans depend on counters and on map order. Correct: it
  accepts exactly the executable definitions.
* **Publication.** Definitions are shared with authors who keep editing them, while
  kinds are still being registered. Correct: a version never changes, stays executable,
  and is the one that starts.
* **Listings that move.** A host pages through rows that saves keep reordering, with a
  token that is no more than a key. Correct: who does not move is listed, once; the
  last page is the last; a read ends.
* **Upgrades.** A migration derives query rows beside hosts that write them, and beside
  older ones that do not. Correct: rows never show what was not committed, and after a
  clean cutover the worklists (the task rows) are right.
* **Values that cross a database.** Batches, suffixes, nil and empty, text and bytes,
  JSON. Correct: what is loaded is what was saved, but for what JSON cannot carry, and a
  refused save leaves nothing behind; no history is rewritten, and none is refused as if it were.
* **Rules over unknown data.** A condition is validated long before it meets data.
  Correct: what was published stays valid, and the outcome is independent of order.
* **JSON that means two things.** Equal names, names equal but for case, lone surrogates.
  Correct: what is decoded lost nothing.
* **Tests as a promise.** A kit that blames a sound adapter or passes a broken one.

The full list of what is hard to test here, each at its line, with the properties that
cover it, is `hazards` in `PROJECT.json`.

## 2. The modules

```
Aggregate ──> Engine ──────────> MCHost                 (instance for TLC)
    │            │ └──── InstanceContract        (abstract: Engine implements it)
    └─> Approval ┴─> Approvals ──> EngineProofs         (proofs, of both)
                         └───────> MCApproval           (instance for TLC)
StorePort <── MemoryStore <── MemoryStoreProofs ──┬── Stores ──> StoresProofs
        └──── SqlStore <───── SqlStoreProofs ─────┘      └─────> MCStores
                  └── MCSqlStore            (abstract: every adapter implements it)
Publication ──> PublicationProofs            └── MCPublication
Backfill ──> BackfillProofs                  └── MCBackfill
ProjectionPages ──> ProjectionPagesProofs    └── MCProjectionPages
Compiler, Condition, SnapshotRows, Surrogates <── Conversions ──> ConversionsProofs
                          └── MCValues ──> StrictJSON, StoreKit, DefinitionKit
Engine, MemoryStore, ProjectionPages ── MCEnds    (liveness)
```

**Aggregate** is the fact boundary and the validation of handler results, as constant
operators on one instance value: a method of `instanceFacts` is an operator that returns
the candidate after it (`enterNode` is `EnterNode`, `transfer` is `Transferred`, and so
on), and `PreparedActivation`, `PreparedCommand` and `PreparedReturn` are the three
validations of `node_result_application.go`. A task's identity is its position in the
history; node state is opaque; data, reasons and times are left out.

**Engine** has one action per operation. A call is a record `[pc, base, cand, outcome]`:
`base` is the snapshot whose version is the `expectedVersion` of Save, `cand` the private
candidate. `Start`, `Load`; then `Handle`, `Withdraw`, `Return` or `Transfer`; then
`ReachEnd` and `EnterBusinessNode`, one iteration of `advance` each; then `Create` or
`Commit`. `Fail` may end a call at every point: cancellation, a denial by a policy, a
handler's error, an outcome without a route, failed entropy, a crash. The handlers are
the parameters `ActivateResults` and `HandleResults`.

**InstanceContract** is the promise to the host: an instance is created once, settled;
then each change moves the version by one, names one cause, rewrites no history, and
leaves it settled.

**Approval** is the approval handler as the set of results it may return; an error is
the empty set. **Approvals** is Engine with approval nodes, `Configs` saying which and how,
and what must hold of their decisions; its other nodes may have any handler. **MCApproval**
puts a countersign and an or-sign in a row; **MCHost** instead has handlers that propose any
mix of legal and malformed results.

**StorePort** is the linearizable promise of the `Store` interface. **MemoryStore** has a
heap of `Instance` objects, the map entry and references held by callers, who may write
to what they own at any time outside a call; `Acquire` is one successful TryLock and
`GiveUp` the cancellation check of `acquireMemoryStoreLock`. **SqlStore** executes the
transactions of both adapters statement by statement over the committed rows; `Dialect`
chooses the locking: PostgreSQL at READ COMMITTED, with loads on one snapshot; MySQL with
shared locks left by duplicate keys, the probe that follows any error of an insert, locking
reads, changed-row counts and deadlock victims. The database itself is external and modelled from how the adapters use it. **Stores**
states the promise once, for all three: `ImplementsPort` is one refinement of StorePort,
with each adapter's durable aggregate and calls (`Durable`, `Calls`) in place of the port's.
It instantiates the adapters together with the theorems about them.

**Compiler** is `compileDefinition`, a loop iteration per step; **Publication** the
registry, publisher, version store and `StartPublished`, on a shared heap as in
MemoryStore.

**SnapshotRows** is one aggregate's way through the codecs of either adapter: encoding
with its preflight, the parent row, the comparison of the durable audit, the batches of
task rows and of the audit's suffix, COMMIT; then a load from rows. A slice is nil, empty
or has members; a text may be empty, too long for MySQL's columns, or not UTF-8; a record
may carry a monotonic clock reading that JSON drops. The parent's columns and those of the
query projection are written from the aggregate (`ParentArguments`, `ProjectedColumns`), and
the server refuses bytes there that are not UTF-8. The columns of task and audit rows are
written from the payload after `json.Marshal` and `decodeJSON` (`Columns`): such bytes are
U+FFFD by then (`Text`), so the save is accepted and the string comes back changed, unless two
task ids have become one, which UNIQUE refuses (`Refused`). Where SqlStore asks *which
version* a load sees, this asks *what value*.

**Backfill** is migration 0003, a single statement, split where others can come between:
its snapshot, then instance after instance, waiting for row locks, then COMMIT. Beside it
run hosts of the earlier adapter, which save aggregates only, and of this one. A version
stands for an instance row's columns, statuses for the task rows. `excuse` is a history
variable: why an instance's query rows may lag; `rolling` is another: whether a host of
this adapter, or the migration, ever ran while an earlier host did.

**ProjectionPages** is a host that reads a listing. `read.after` is the token; `Later` the
rows its SQL condition admits; `Fetch` one page, with its look-ahead row. Saves replace an
instance's rows between any two pages, with any change of order time; scopes change,
limits vary, and the two task listings may take each other's tokens. `listed`, `again`,
`quiet` and `turned` record what a reader could tell. Instances in `Unpageable` have keys
too long for a token.

**Condition** evaluates one expression a step, as `evaluateRule` looks at the context
before each. JSON values are names, and constants say what a name stands for.
**Surrogates** is the byte scan of `validateEscapedSurrogates`. Its sources are spelled of the
pieces of **SourcePieces** (a quote, a letter, an escape and so on): `spelling` says of which
(`text`) and where each begins (`at`), so that what a source means is known without scanning
it, and `data`, the bytes, are all that the scan looks at. **StrictJSON** is the token
scan for unique members, with the recursion as a stack, and the comparison with the
target's type. It declares RECURSIVE operators and is not proved about.

**StoreKit** and **DefinitionKit** turn the picture round: the kit is the program, and the
adapter under test is a sound one with one fault chosen from `Faults`. A kit's test is a
sequence of steps; only its races interleave. Adapters and repositories are external.

**Conversions**, **MCValues** and **MCEnds** put components beside each other that never
meet: `subject` says which one a behaviour is about, and the variables of the others are
parked. Conversions has the four that make one value of another and are proved about:
compiler, condition handler, codecs and surrogate scan. MCValues is its instance, beside the
token scan and the kits, each over the inputs of `CompilerInputs`, `ConditionInputs`,
`JSONInputs`, `RowInputs` or its own; MCEnds has what must end, under one statement of
fairness. Nothing is composed there: a property is the property of the one component, in
its behaviours.

*Mutated definitions.* Next to some definitions stands a variant whose comment says
"mutated": a plausible mistake in that code. No specification uses it. Put in place of
the definition it varies, it makes TLC reject the property `PROJECT.json` pairs it with
(`mutants`): so each property is known to be sensitive to the code.

## 3. The runs

Sizes are distinct states.

| run | shows | states |
|---|---|---|
| `approval_race` | two racing calls on a countersign then an or-sign, all operations and failures, every answer of the directory: `NoStrandedWork`, `SnapshotIsCurrent`, `DecisionsAreOnRecord`, `ClosedForAReason`, `OrSignDecidesOnce`, and the contract | 770 k |
| `host_results` | whatever a handler proposes: the inductive invariant `IInv`, `AuditTellsThePath`, `TransfersHappened`, `ReturnKeepsState`, the contract | 122 k |
| `stores_port` | `ImplementsPort`: all three adapters keep the port's promise; `HeapInv` (no aliasing, mutual exclusion), `SqlInv`, `ProjectionIsCurrent` | 757 k |
| `values` | compiler: `VerdictIsRight` against a declarative definition of an executable graph, `PlanIsExecutable`, `CountersAreExact`; conditions: `PublishedStaysValid`, `OutcomeIsRight` against a declarative reading of the rules; strict JSON: `DecodeIsRight`, `OnlyPairsPass` against a grammar of escapes; rows: `LoadedIsWhatWasSaved`, `NoFalseRewrite`, `RowsMeetTheSchema`; kits: `NoFalseAlarm`, `FaultsAreCaught` | 927 k |
| `publication_versions` | `OwnershipInv`, `PublishedStaysExecutable`, `StartedAsAsked`, `VersionsAreImmutable` | 38 k |
| `backfill_upgrade` | hosts of both adapters save while 0003 runs, fails, runs again: `QueryRowsNeverLead`, `LagIsExplained`, and without overlap `WorklistsAreRight` | 802 k |
| `pages_moving` | three listings over moving rows: `QuietRowsAreListed`, `ListedOnceUnlessTurned`, `EndsExactly` | 982 k |
| `ends` | liveness: `EveryCallReturns` of the engine, `CanceledCallReturns` of the memory store, `EveryReadEnds` of a listing | 107 k |
| `approval_person`, `sql_ack`, `sql_duplicate`, `backfill_tasks` | violations, see section 6 | – |

Bounds, and why they are enough:

* *Versions.* `MaxVersion` is not only a bound: it stands for 2^64 - 1, and reaching it
  is behaviour (`advanceVersion` refuses), so the runs cover the boundary. Three or four
  versions allow two decisions, a return and a transfer in one history and a stale
  save at every point of it.
* *Clients.* Two calls suffice for a lost update, a lock conflict or a deadlock between
  a pair; the proofs remove this bound for the engine, approval, the stores and
  publication. `host_results` has one client: its
  questions concern one call's result, and a stale call can only be refused.
* *Plans.* Two business nodes make a forward route, a skip, a branch, a rejection with
  and one without a route, and a return; `values` takes all 4096 graphs over four
  nodes and twelve candidate edges, plus chains with every field perturbed. The proofs remove
  the bound.
* *Objects* in the heaps: one for every reference that can exist at once. The proofs need
  no more (`Room` in both).
* *Pages.* Two instances, two times and up to two tasks give every way a row can pass the
  token: over it, onto its time, back behind it. Limits of one and two put the look-ahead
  row before, at and behind the end. The proofs remove these bounds.
* *Upgrade.* Two instances, so that the migration stands between them when a save commits;
  two open saves; three versions, so that an earlier host saves before, between and after.
  The proofs remove these bounds too.
* *Rows.* `Batch` is two where the code has 500, with up to three rows a save: a full
  batch, a rest, and a suffix that starts inside a batch.
* *Conditions and JSON.* The input modules generate values: every operator with every kind of
  operand and of data; pairs of rules of up to two expressions; all JSON values of two
  levels over equal names and names equal but for case, whole, truncated or followed by
  more; all texts of up to six pieces around escapes, escaped backslashes among them. The
  proofs remove the bounds of conditions, rows and texts; those of JSON values remain.
* *Kits.* Two or three goroutines where the kits have two or sixteen: a race of a pair, and
  a publication between a reader's two loads, occur with these.
* `MaxVersion` in MemoryStore, SqlStore, Backfill and SnapshotRows, `MaxSaves` in
  ProjectionPages and `MaxVersions` in Publication bound only what callers do; they are
  guards of the callers' actions, except that `CreateVersion` repeats it because two
  publications may be in progress.

`CHECK_DEADLOCK FALSE` appears in `MCValues_each.cfg` only: a compilation, an evaluation,
a scan and a test end. Everywhere else a state without a successor would be an error, a
lock that is never released included. `SYMMETRY` permutes clients (they are
interchangeable) and is not used where a liveness property is checked.

## 4. Fairness

All of it is stated in `MCEnds` (and, for a reader, in `ProjectionPages!Spec`):

* *Engine.* A call in progress takes its next step or fails. It is a goroutine that waits
  for no other engine call. Nothing is assumed about who starts a call.
* *MemoryStore.* A goroutine inside a call is scheduled. It spins and never sleeps, so it
  is always runnable. That TryLock ever finds the lock free is *not* assumed, and so no
  run claims that a writer gets it: it may starve. A canceled call does return.
* *ProjectionPages.* A host that has begun a read asks for its next page, and its queries
  do not fail for ever. Saves are not fair, only finitely many beside one read
  (`MaxSaves`): with endless ones an instance could be saved between any two pages and a
  listing grow at its front, which no keyset prevents. In this run one instance's key is
  too long for a token, as only a row of the migration's can be: the read may be refused.

## 5. The proofs

Eight modules hold proofs. Of the safety properties that a passing run checks, three are not
proved: `DecodeIsRight` of the token scan, and `NoFalseAlarm` and `FaultsAreCaught` of the kits.

### Engine

`EngineProofs` proves, for every plan, handler, policy, directory, number of concurrent
calls and size of the version token:

| theorem | says |
|---|---|
| `Invariance` | `IInv`, the inductive invariant, always holds |
| `TypeCorrectness` | the state is well typed |
| `NoWorkIsStranded` | the durable instance is settled |
| `NoLostUpdate` | a snapshot whose version is the durable one *is* the durable instance |
| `EngineImplementsContract` | every step of the engine is a step of InstanceContract or a stutter |
| `ReturnsKeepState` | a save of a return records the node and the state the instance really left |
| `TransfersAreReal` | a recorded transfer closed its task undecided and opened a later one for the new assignee |
| `ThePathIsTold` | every node entry on record follows a route, or the record of a return, from where the instance was |

Assumptions: `PlanAssumption` (what compilation guarantees of a plan, and what
`CompiledPlansAreExecutable` below proves of the compiler; acyclicity is not needed for
safety), `ValueAssumption`
(sorts do not overlap, `MaxVersion` is a positive number), `NilAssumption`,
`ActorAssumption`. Nothing is assumed about handlers: `IsNodeResult` in the actions only
says that a proposal has the fields of Go's `NodeResult`.

*The invariant.* `NoStrandedWork` and `SnapshotIsCurrent` are not inductive: a commit
publishes a candidate made some steps earlier. `IInv` therefore carries what a call knows
while in progress (`CallInv`): its snapshot was running and settled; its candidate is a
legal successor of that snapshot (`Derived`: same version, one cause, tasks moved
forward); while it is being routed it has no active task (`Routing`); when it is ready to
save it is settled. `SnapshotIsCurrent` then turns "legal successor of the snapshot",
at the moment the compare-and-swap succeeds, into "legal successor of the durable
instance", which is both invariance and refinement.

*The argument.* Lemmas on sequences and audits (`CauseStarts`, `ConsequenceFollows`), on
the task history (`CloseTasksForward`, `ActivateTasksExtends`, `ReplaceTasksForward`), on
the disposition of a result (`DisposeIsLegal`); one lemma per operation that its call
stays legal (`HandleIsLegal` … `EnterBusinessNodeIsLegal`); `CreatePreserves` and
`CommitPreserves` for the store; `NextPreserves` joins them. `SameVocabulary` shows that
InstanceContract's instance of Aggregate means the same as Engine's.

*The history.* The last three are about the durable audit. Each strengthens `IInv` by what a call carries to its commit. `ReturnInv`: the cause a
call would commit over its snapshot has that snapshot's node and state if it is a return;
`SnapshotIsCurrent` makes the snapshot the durable instance when the save succeeds.
`HistoryInv`: every snapshot, every candidate and the durable instance are `Honest`, that
is, each transfer they record happened and no active task has an outcome. The second part is
what a transfer needs of the task it closes, and every operation that decides a task
closes it in the same step. `PathInv`: the audit of each of them tells a path (`Tells`), which
says of every record, not of node entries alone, where the instance was before it. It is
needed of a candidate in the middle of `advance`, too, and there says that a return's record
is never the last one: its entry follows in the same step. `AuditTellsThePath` chooses
the arrival before a record with CHOOSE; `LatestIsLast` shows there is but one to choose.

### Approval

The same module proves, for every plan and all configurations of its approval nodes:

| theorem | says |
|---|---|
| `DecisionsRecorded` | a decided task has exactly one decision on record, with its node, owner and outcome |
| `WorkIsTakenForAReason` | a task is closed only for a recorded reason |
| `OrSignsDecideOnce` | an or-sign has no more decisions than entries |

Their hypothesis is `ApprovalsDecide`: at approval nodes commands are given to
`HandleConfig`. How rounds are opened there (the directory's answers), and what handlers the
other nodes have, is not assumed. `ApprovalInv` says of every snapshot, candidate and of the
durable instance that it is `Sound`: the three properties, that decisions name tasks which
exist (so a new task has none), and that where tasks are active the node was entered
more often than decided (`Fresh`). The last is what an or-sign's decision uses up; only an
entry restores it. `HandledTasks` says what `HandleConfig` may do to tasks; `SoundDecides`,
`SoundRecords` and `SoundMoves` are the three ways an operation changes an instance.
`OneDecisionPerPerson` does not hold (section 6).

### Publication

`PublicationProofs` proves, for all goroutines, kinds, plans and numbers of versions:

| theorem | says |
|---|---|
| `PublicationInvariance` | `PubInv`, inductive |
| `NobodyShares` | store, callers and compilations never share a Definition |
| `PublishedIsExecutable` | a version carries its number and stays executable |
| `AskedIsStarted` | an instance runs the version that was asked for |
| `PublicationOnlyAppends` | no step changes a version that exists |

Assumption: `PublicationAssumption` (finitely many goroutines; plans are sequences of kinds).
`PubInv` adds what a compilation has learnt (`CallInv`): the kinds it has looked up are still
registered, its frozen copy is its own and still what it was copied from. That an unused
address exists when one is needed is proved by counting (`Room`).

### Stores

`MemoryStoreProofs` and `SqlStoreProofs` prove of each adapter, and `StoresProofs` of the
store behind the port whichever it is, for all callers, contents and versions:

| theorem (of `StoresProofs`) | says |
|---|---|
| `NobodyShares` | map entry, callers and calls never refer to one Instance; the lock excludes |
| `RowsAreOfOneCall` | the committed rows are those of one call; of two writers of the parent row one waits |
| `ProjectionFollows` | PostgreSQL's query rows are the committed aggregate's own |
| `AdaptersImplementPort` | every step of each adapter is a step of StorePort or a stutter |

Assumptions: `MemoryAssumption` (finitely many goroutines, more than two addresses for each:
one it owns, one it clones, and the entry's) and `SqlAssumption` (sorts; one of the two
dialects). They are hypotheses of the adapters' theorems, and `StoresAssumption` of Stores.

*Memory store.* `MemInv` adds to `HeapInv` what a call holds at each point (`CallInv`) and that
the clone it made is still equal to what it was made of (`CloneInv`), though owners
write to their objects at any time: the lock keeps the entry, and a call's arguments are
its caller's, who waits. The call is performed when it decides under the lock.

*SQL stores.* `IndInv` says where each transaction is, what locks it holds there, and what it
has written or read; that a load is of one snapshot; that nobody was told a version the rows
have not reached (`Seen`), without which a refused save could not be told from a missing
instance. A call is performed by COMMIT, or by the statement that decides its failure.
`SqlImplementsPort` excludes lost acknowledgements ("ack"), after which the adapter reports
a failure that is none (`sql_ack`, section 6); the invariants hold with them too.

### Projection and migration

`BackfillProofs` proves, for all instances, open saves and versions, with mixed adapters
or without:

| theorem | says |
|---|---|
| `UpgradeInvariance` | `BackfillInv`, inductive |
| `NoRowLeads` | query rows show nothing that was not committed |
| `OnlyExplainedLag` | they lag for one of three reasons only |
| `CutoverIsRight` | after a clean cutover, worklists are right |

Assumption: `BackfillAssumption` (sorts). That query rows never lead is not inductive,
because a row is written from what an open transaction knows: `BackfillInv` adds that an
open save holds the next version of what is committed (`SaveIsNext`), that no two
transactions hold one instance's row (`LocksExclude`), and that the migration's snapshot
is behind, exactly by what `excuse` says (`FillIsBehind`). The cutover theorem needs one
more invariant, `CutoverInv`, about histories that never overlapped (`~rolling`): while
earlier hosts run there is no query row, open save or migration; afterwards no task row is
ever "kept", and an instance that is still "unprojected" has no task rows, is not covered by
a finished migration, and is in the running one's snapshot as it is now.

`ProjectionPagesProofs` proves, for all instances, tasks, times, limits, scopes and numbers
of saves:

| theorem | says |
|---|---|
| `PagesInvariance` | `PagesInv`, inductive |
| `NothingQuietIsMissed` | a read to its end lists every quiet row |
| `NothingIsRepeated` | a row is listed twice only if its time went back |
| `TheEndIsExact` | a page ends a read exactly when nothing is beyond it |

Assumption: `PagesAssumption` (sorts; limits are positive). What a reader may say at the
end says nothing about the middle: `PagesInv` states for every page that a quiet row is
listed or beyond the token (`QuietInv`), and that a listed row is not beyond it unless
its instance turned back (`ListedInv`). The steps rest on `Precedes` being a strict total order
on keys and on two lemmas about the first rows of a finite set.

### Conversions

`ConversionsProofs` proves, of four components and for every input they can be given:

| theorem | says |
|---|---|
| `CompilerIsRight` | an accepted definition is executable, a refused one has the defect of its class, whatever order Go ranges over maps in |
| `CompiledPlansAreExecutable` | the indexes of an accepted definition are what the engine relies on |
| `CountersStayExact` | `validateAcyclic` counts each node down by the edges whose source it removed, and queues it once |
| `PublishedConfigsStayValid` | a configuration that passed validation is never found invalid, whatever the data |
| `OutcomesAreRight` | an outcome is that of the one rule that holds, or the default, when every expression could be evaluated |
| `LoadsGiveWhatWasSaved` | a load gives the aggregate of the last commit, up to what JSON drops or replaces |
| `HistoriesAreNotRefused` | who adds to what was loaded is not told that history is rewritten |
| `RowsStayWithinTheSchema` | no committed row breaks a constraint or exceeds a column; task ids differ |
| `OnlyPairsArePassed` | a well-formed source passes exactly when its surrogates come in pairs |

Assumption: `ConversionsAssumption`, of four parts: nodes and edges (`DefinitionsAreLists`) and
rules and expressions (`CasesAreConfigurations`) are finite lists, and outcomes are no error
classes; aggregates are of their types, a batch is positive, and what replaces a string that
is not UTF-8 is UTF-8, not empty, and as long (`RowsAreOfAggregates`); the pieces of a source stand where `at` says (`SourcesAreSpelled`).

Each theorem compares what a loop computed with a definition over the whole input. None is
proved by induction over the input: `ConversionInv` says for each loop what its iterations so
far have established, and an iteration keeps that.

*Compiler (`CompilationInv`).* After n nodes the indexes are those of the first n
(`NodesIndexedTo`), after m edges `indegree` is the number of edges into each node and
`adjacency` lists those out of it, parallel ones as often as they occur (`EdgesIndexedTo`).
In the topological scan `remaining` counts the edges whose source is not removed, with what is
left of the targets being ranged over (`Counters`), and the order removed so far is
topological (`InOrder`). A verdict speaks of all sets of nodes, so each scan's end supplies
one: where all nodes were removed, a set without a first member would have one in the order;
where some were not, these are a set in which each has a predecessor, hence a cycle. Of the
two reachability scans, what was visited holds the roots, is closed but for what is queued
(`IsVisit`), and is inside every closed set that holds the roots: at the end it is the
smallest one, and comparing it with all nodes decides reach.

*Conditions (`ChoiceInv`).* The outcomes collected are those of the rules before `position`
that hold (`Tally`, as exactly as "none, one or more" goes), and `matched` counts the true
expressions of the current rule (`Counted`), as exactly as "all" and "any" go.

*Codecs (`RowsInv`).* The rows of a table are the first n payloads of a list, numbered from
zero (`HoldsFirst`), batch after batch; the rows of the audit begin with the durable prefix,
which the comparison found to be the caller's own. The committed rows are those of `kept`
(`AreRowsOf`), and decoding them gives its durable form. A loaded aggregate whose version is
still the committed one has the committed history (`LoadedInv`).

*Surrogates (`ScanningInv`).* In a well-formed source the scan stands at the begin of a piece,
or inside plain text that looks like an escape (`Place`); `insideString` is the parity of the
quotes before it; what is behind it is paired (`PairedBefore`).

### What is only model-checked

* Liveness (all three properties of `ends`): out of the prover's reach.
* `DecodeIsRight`: the token scan of strict JSON and its reference definition follow a value's
  nesting and are RECURSIVE operators, which the provers do not take; and a proof would be by
  induction over values.
* `NoFalseAlarm`, `FaultsAreCaught`: a kit is a fixed script over a fixed number of goroutines.
  TLC explores it completely, with every fault; there is little a proof would generalise.
* `IInv` and the other strengthened invariants were first checked by TLC; of them only
  `IInv` is kept as an invariant of a run, the others being sums of what their
  theorems say and of what calls, or loops, know.

## 6. Where code and documentation disagree

* **One person, two decisions** (`approval_person`). `approval/approval.go:354` refuses
  duplicate assignees "because one person must never contribute multiple decisions to a
  frozen round". `Transfer` (`engine.go:312`) accepts a new assignee who already has a
  task of the round, so a countersign of two people can be decided by one. Only the
  host's TransferPolicy could prevent it; the run's permits every transfer.
* **A failure that is a success** (`sql_ack`). `postgres/store.go:145` says "every failure
  preserves the previously committed aggregate and query rows"; a COMMIT whose answer is
  lost is durable and is reported as a failure (`postgres/store.go:292`). For the engine's
  guarantees it does not matter: the call is over, and a repeated command meets the new
  version.
* **A duplicate that is not reported as one** (`sql_duplicate`). `mysql/store.go:69` says
  duplicate IDs wrap `ErrInstanceExists`. Two Creates of an existing ID each hold the
  shared lock their duplicate key left, and both ask for `FOR UPDATE`; the victim's
  classification fails and the raw insert error is returned (`mysql/store.go:88`).
* **A migration that is not idempotent** (`backfill_tasks`). 0003 says on line 2 that it
  "is intentionally idempotent so hosts can resume an interrupted upgrade safely". Run
  after an earlier host saved an instance that had task rows, it keeps the old ones (`DO
  NOTHING`, line 94), and a completed task stays in a worklist until the instance's next
  save. `WorklistsAreRight` shows what avoids it: stop the earlier hosts first.

The following were found while modelling and have no run of their own:

* 0003 run while hosts save overwrites an instance's row with what it read before the save
  (`DO UPDATE`, line 59): the "overtaken" excuse of `LagIsExplained`.
* `postgres/projection_write.go:44` checks every row "so the adapter never persists data its
  own continuation decoder cannot page". 0003 derives rows without the check; a page that
  ends on such a row fails each time (the status "refused" of ProjectionPages).
* `condition/condition.go:314`: "Every expression is evaluated before the boolean combination
  is returned, making validation errors independent of condition order." The loop returns
  at the first error (line 323), so which error is reported depends on the order.
* `postgres/codec.go:1` and `mysql/codec.go:1` speak of "lossless" row payloads, and
  `runtime.go:83` says "Reason preserves the host-provided lifecycle justification verbatim."
  json.Marshal replaces bytes that are not UTF-8, in task ids and audit actions as in reasons,
  and their columns are taken from the replaced payloads (`mysql/store.go:245` and `:264`,
  `postgres/store.go:232` and `:252`): the save succeeds, and a load gives other strings.
  PostgreSQL refuses such an id only where a query row has it too. It is what
  `LoadedIsWhatWasSaved` excepts; `RowsMeetTheSchema` says that ids that collide are refused.
* `storetest/contract.go:1` "verifies workflow Store adapters through their public
  persistence contract", which includes tasks (`store.go:32`); no save of the kit changes
  them. `definitiontest/contract.go:16` classifies a snapshot that "omits committed fixture
  facts"; kinds and outcomes are never compared.

## 7. What is not modelled, and why

* The fluent builder and `ParseDefinition` (`definition.go`): they construct a value from
  their arguments and keep no state; what they construct is checked by the compiler.
* The nil guard: one reflection helper; the models have no interface values.
* `parsePointer` of the condition handler: in Condition a field is a path or no pointer.
* `encoding/json`, base64 and the databases: external, modelled from how the code uses them.
* 0001 and 0002: they create tables, whose constraints are in SnapshotRows.
* Boundary checks that only refuse a nil or empty field: they are `Fail`, or no step.
* Of the database: a rollback that exceeds its five seconds and leaves locks behind; a
  server-side transaction that outlives its connection; PostgreSQL's answer to a save that
  finds no row when a create commits before the row is classified (unreachable through the
  engine, whose saves follow a load); timestamps' loss of nanoseconds in the query rows
  (tokens carry the database's own value).
* Of the projection: columns that neither select nor order, and the rows of other actors.
* Of the kits: nil results, and messages.
* Edits of a Definition while `Publish` compiles it: an author's writes (`Scribble` in
  Publication) happen between calls, as `compiler.go:66` asks of the caller; what is checked is
  that they change nothing published.
* The strings of a Definition itself in SnapshotRows: they are taken to be UTF-8.
* Time and entropy: identities are assumed unique.

## 8. The plan

Done: the engine and approval with their contract, history and proofs, both stores against
their port, with proofs, and their codecs, projection and migration with proofs, publication,
compiler, conditions and surrogate scan with proofs, the token scan of strict JSON, the test
kits. What would add most next:

1. A composition of Engine with StorePort in place of its atomic store, to show that the
   engine's guarantees need nothing more of a store than the port.
2. A restart of a host whose registry lacks a kind that running instances need.
