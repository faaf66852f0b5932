--------------------------------- MODULE Stores ---------------------------------
(***************************************************************************)
(* The three adapters of the Store port, each against the one StorePort.   *)
(* A behaviour is about one of them: callers of one MemoryStore, with      *)
(* addresses enough for the map entry and for what each caller owns and is *)
(* cloning at the same time; or clients of one database, any statement of  *)
(* which may fail.                                                         *)
(***************************************************************************)
EXTENDS Naturals, Sequences, FiniteSets

CONSTANTS
  Clients,           \* goroutines, or clients of the database
  Absent,            \* nil, and no row
  Contents,          \* contents of an Instance in memory
  Content0,          \* what Create is called with there
  Objects,           \* addresses of Instances
  MemoryVersions,    \* bounds of the model: no edit beyond these versions
  SqlVersions

Values == Contents \union Clients

VARIABLES
  adapter,
  heap, entry, readers, writer,      \* MemoryStore
  db, exclusive, shared,             \* SqlStore
  client                             \* either

memory == <<heap, entry, readers, writer>>
database == <<db, exclusive, shared>>
vars == <<adapter, memory, database, client>>

(* The adapters, each with the theorems about it. *)
Memory == INSTANCE MemoryStoreProofs WITH
  NoObject <- Absent, Bodies <- Contents, NewBody <- Content0, MaxVersion <- MemoryVersions
Postgres == INSTANCE SqlStoreProofs WITH
  Dialect <- "postgres", Faults <- {"statement"}, MaxVersion <- SqlVersions
MySQL == INSTANCE SqlStoreProofs WITH
  Dialect <- "mysql", Faults <- {"statement"}, MaxVersion <- SqlVersions

ASSUME StoresAssumption ==
  Memory!MemoryAssumption /\ Postgres!SqlAssumption /\ MySQL!SqlAssumption

Init ==
  \/ /\ adapter = "memory" /\ Memory!Init
     /\ db = Absent /\ exclusive = Absent /\ shared = Absent
  \/ /\ adapter \in {"postgres", "mysql"} /\ Postgres!Init
     /\ heap = Absent /\ entry = Absent /\ readers = Absent /\ writer = Absent

Next ==
  /\ \/ adapter = "memory" /\ Memory!Next /\ UNCHANGED database
     \/ adapter = "postgres" /\ Postgres!Next /\ UNCHANGED memory
     \/ adapter = "mysql" /\ MySQL!Next /\ UNCHANGED memory
  /\ UNCHANGED adapter

Spec == Init /\ [][Next]_vars

(* What the adapter of the behaviour is to the port. *)
Durable == CASE adapter = "memory" -> Memory!Durable
             [] adapter = "postgres" -> Postgres!Durable
             [] adapter = "mysql" -> MySQL!Durable
Calls == CASE adapter = "memory" -> Memory!Calls
           [] adapter = "postgres" -> Postgres!Calls
           [] adapter = "mysql" -> MySQL!Calls

Port == INSTANCE StorePort WITH
  Bodies <- Values, Records <- Values, durable <- Durable, call <- Calls

-----------------------------------------------------------------------------

(***************************************************************************)
(* No two of the map entry, the callers and the calls in progress ever     *)
(* refer to the same Instance, and a call that looks at the entry holds    *)
(* the lock, exclusively unless it only reads (store.go cloneInstance and  *)
(* acquireMemoryStoreLock).                                                *)
(***************************************************************************)
HeapInv == adapter = "memory" => Memory!HeapInv

(***************************************************************************)
(* The committed rows of the three tables are those of one call - parent,  *)
(* tasks and the end of the audit - and of two transactions that lock the  *)
(* parent row one waits (Store.Create and Store.Save of both adapters).    *)
(***************************************************************************)
SqlInv == CASE adapter = "postgres" -> Postgres!SqlInv
            [] adapter = "mysql" -> MySQL!SqlInv
            [] OTHER -> TRUE

(***************************************************************************)
(* The query projection is the committed aggregate's own, at every commit  *)
(* and after every failure (postgres replaceQueryProjection).              *)
(***************************************************************************)
ProjectionIsCurrent == adapter = "postgres" => Postgres!ProjectionIsCurrent

(***************************************************************************)
(* Nobody can tell an adapter from a store that performs one call at a     *)
(* time on a value of its own: every call takes effect at one moment, a    *)
(* Load never mixes two commits, audits only grow, what callers write to   *)
(* the objects they own is not the store's, and a call that fails or is    *)
(* canceled has changed nothing (store.go: "concurrency-safe ... defensive *)
(* copies"; Store.Create, Load and Save of all adapters).                  *)
(***************************************************************************)
ImplementsPort == Port!Spec
=============================================================================
