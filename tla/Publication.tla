------------------------------ MODULE Publication ------------------------------
(***************************************************************************)
(* publication.go, Registry of handler.go and StartPublished of engine.go: *)
(* goroutines that publish versions of one Definition, load them and start *)
(* instances of them, while kinds are still being registered.  They share  *)
(* one memory: a Definition is an object, and a caller may write to any it *)
(* owns whenever it is not inside a call.  Of compilation only the lookup  *)
(* of handlers is kept, node by node; Compiler has the rest.               *)
(***************************************************************************)
EXTENDS Naturals, Sequences, FiniteSets, SequencesExt

CONSTANTS
  Clients,           \* goroutines
  Kinds,             \* business node kinds
  Plans,             \* what a Definition says: the kinds of its nodes, in order
  NoObject,          \* the nil pointer
  MaxVersions        \* bound of the model: publications

VARIABLES
  registry,    \* kinds registered so far
  heap,        \* the Definition at every address
  versions,    \* the store's slice for the ID: an address per version
  client,      \* every client's call and the objects it holds
  started      \* the last instance created: the version asked for, what it froze

vars == <<registry, heap, versions, client, started>>

(* Addresses a Definition may have.  They are named for what they are first *)
(* used for, but only their identity matters.                              *)
Objects == ({"owned", "frozen"} \X Clients) \union ({"stored"} \X (1..MaxVersions))

\* Goroutines are finite in number, and nil is no address.
ASSUME PublicationAssumption ==
  /\ IsFiniteSet(Clients)
  /\ Plans \subseteq Seq(Kinds)
  /\ MaxVersions \in Nat
  /\ NoObject \notin Objects

Definition == [version : 0..MaxVersions, plan : Plans]
Blank == [version |-> 0, plan |-> << >>]
Nothing == [asked |-> 0, version |-> 0, plan |-> << >>]

Client == [pc : {"idle", "compile", "store", "start"},
           owns : Objects \union {NoObject},      \* the caller's Definition
           frozen : Objects \union {NoObject},    \* the compiled plan's own copy
           pos : Nat,                             \* nodes prepared so far
           asked : 0..MaxVersions]                \* the version to start, 0 to publish

TypeOK ==
  /\ registry \in SUBSET Kinds
  /\ heap \in [Objects -> Definition \union {Blank}]
  /\ versions \in Seq(Objects)
  /\ client \in [Clients -> Client]
  /\ started \in {Nothing} \union
       [asked : 1..MaxVersions, version : 0..MaxVersions, plan : Plans]

Idle == [pc |-> "idle", owns |-> NoObject, frozen |-> NoObject, pos |-> 0, asked |-> 0]

Init ==
  /\ registry = {}
  /\ heap = [o \in Objects |-> Blank]
  /\ versions = << >>
  /\ client = [c \in Clients |-> Idle]
  /\ started = Nothing

InUse == ToSet(versions)
           \union {client[c].owns : c \in Clients} \union {client[c].frozen : c \in Clients}

\* What the allocator hands out: never an address in use.
New(home) == IF home \notin InUse THEN home ELSE CHOOSE o \in Objects : o \notin InUse

\* The garbage collector: an address nobody holds is blank again.
Collect(memory) == heap' = [o \in Objects |-> IF o \in InUse' THEN memory[o] ELSE Blank]

\* The end of a call; the call's own copies are garbage.
Returned(c, owned) == [client EXCEPT ![c] = [Idle EXCEPT !.owns = owned]]

-----------------------------------------------------------------------------
(* The host. *)

\* Registry.Register: insert only, at any time.
Register(kind) ==
  /\ kind \notin registry
  /\ registry' = registry \union {kind}
  /\ UNCHANGED <<heap, versions, client, started>>

Compose(c, plan) ==
  /\ client[c].pc = "idle"
  /\ client[c].owns = NoObject
  /\ LET o == New(<<"owned", c>>) IN
     /\ heap' = [heap EXCEPT ![o] = [version |-> 0, plan |-> plan]]
     /\ client' = [client EXCEPT ![c].owns = o]
  /\ UNCHANGED <<registry, versions, started>>

\* A loaded, published or composed Definition is the caller's to change.
Scribble(c, plan) ==
  /\ client[c].pc = "idle"
  /\ client[c].owns # NoObject
  /\ heap' = [heap EXCEPT ![client[c].owns].plan = plan]
  /\ UNCHANGED <<registry, versions, client, started>>

Drop(c) ==
  /\ client[c].pc = "idle"
  /\ client[c].owns # NoObject
  /\ client' = Returned(c, NoObject)
  /\ UNCHANGED <<registry, versions, started>>
  /\ Collect(heap)

-----------------------------------------------------------------------------
(* Publish. *)

\* Freeze, mutated: the plan keeps the object it was given.
FreezeShared(c, source, asked) ==
  /\ client' = [client EXCEPT ![c].pc = "compile", ![c].frozen = source, ![c].pos = 0,
                              ![c].asked = asked]
  /\ UNCHANGED heap

\* compileDefinition begins with a copy; the plan keeps it.
Freeze(c, source, asked) ==
  LET o == New(<<"frozen", c>>) IN
  /\ heap' = [heap EXCEPT ![o] = heap[source]]
  /\ client' = [client EXCEPT ![c].pc = "compile", ![c].frozen = o, ![c].pos = 0,
                              ![c].asked = asked]

Publish(c) ==
  /\ client[c].pc = "idle"
  /\ client[c].owns # NoObject
  /\ Len(versions) < MaxVersions
  /\ Freeze(c, client[c].owns, 0)
  /\ UNCHANGED <<registry, versions, started>>

\* One node's registry lookup and config preparation; a failure ends the call.
PrepareNode(c) ==
  LET plan == heap[client[c].frozen].plan
      kind == plan[client[c].pos + 1]
  IN
  /\ client[c].pc = "compile"
  /\ client[c].pos < Len(plan)
  /\ client' = IF kind \in registry
               THEN [client EXCEPT ![c].pos = @ + 1]
               ELSE Returned(c, client[c].owns)
  /\ UNCHANGED <<registry, versions, started>>
  /\ Collect(heap)

\* Compiled, mutated: the last node is not looked up.
CompiledEarly(c) ==
  /\ client[c].pc = "compile"
  /\ client[c].pos + 1 >= Len(heap[client[c].frozen].plan)
  /\ client' = [client EXCEPT ![c].pc = IF client[c].asked = 0 THEN "store" ELSE "start"]
  /\ UNCHANGED <<registry, heap, versions, started>>

Compiled(c) ==
  /\ client[c].pc = "compile"
  /\ client[c].pos = Len(heap[client[c].frozen].plan)
  /\ client' = [client EXCEPT ![c].pc = IF client[c].asked = 0 THEN "store" ELSE "start"]
  /\ UNCHANGED <<registry, heap, versions, started>>

\* CreateVersion, all under one lock: a copy for the store, and another for the
\* caller, in place of the draft.
CreateVersion(c) ==
  LET snapshot == [heap[client[c].frozen] EXCEPT !.version = Len(versions) + 1]
      stored == New(<<"stored", Len(versions) + 1>>)
      result == client[c].owns     \* the draft is garbage: its address is free
  IN
  /\ client[c].pc = "store"
  /\ Len(versions) < MaxVersions
  /\ versions' = Append(versions, stored)
  /\ client' = Returned(c, result)
  /\ UNCHANGED <<registry, started>>
  /\ Collect([heap EXCEPT ![stored] = snapshot, ![result] = snapshot])

-----------------------------------------------------------------------------
(* Load, LoadLatest and StartPublished. *)

\* Load, mutated: the stored Definition itself is handed out.
LoadShared(c, version) ==
  /\ client[c].pc = "idle"
  /\ client[c].owns = NoObject
  /\ version \in DOMAIN versions
  /\ client' = [client EXCEPT ![c].owns = versions[version]]
  /\ UNCHANGED <<registry, heap, versions, started>>

\* A version that is not there is an error: never another version.
Load(c, version) ==
  /\ client[c].pc = "idle"
  /\ client[c].owns = NoObject
  /\ version \in DOMAIN versions
  /\ LET o == New(<<"owned", c>>) IN
     /\ heap' = [heap EXCEPT ![o] = heap[versions[version]]]
     /\ client' = [client EXCEPT ![c].owns = o]
  /\ UNCHANGED <<registry, versions, started>>

LoadLatest(c) == versions # << >> /\ Load(c, Len(versions))

\* StartPublished, mutated: it starts the latest version.
StartLatest(c, version) ==
  /\ client[c].pc = "idle"
  /\ version \in DOMAIN versions
  /\ Freeze(c, versions[Len(versions)], version)
  /\ UNCHANGED <<registry, versions, started>>

\* StartPublished: the loaded copy is compiled again, and frozen, by Start.
StartPublished(c, version) ==
  /\ client[c].pc = "idle"
  /\ version \in DOMAIN versions
  /\ Freeze(c, versions[version], version)
  /\ UNCHANGED <<registry, versions, started>>

Start(c) ==
  /\ client[c].pc = "start"
  /\ started' = [asked |-> client[c].asked,
                 version |-> heap[client[c].frozen].version,
                 plan |-> heap[client[c].frozen].plan]
  /\ client' = Returned(c, client[c].owns)
  /\ UNCHANGED <<registry, versions>>
  /\ Collect(heap)

\* Cancellation, at any step of a call before its effect.
Fail(c) ==
  /\ client[c].pc # "idle"
  /\ client' = Returned(c, client[c].owns)
  /\ UNCHANGED <<registry, versions, started>>
  /\ Collect(heap)

-----------------------------------------------------------------------------

Host(c) ==
  \/ \E plan \in Plans : Compose(c, plan) \/ Scribble(c, plan)
  \/ Drop(c)

Call(c) ==
  \/ Publish(c) \/ PrepareNode(c) \/ Compiled(c) \/ CreateVersion(c)
  \/ \E version \in 1..MaxVersions : Load(c, version) \/ StartPublished(c, version)
  \/ LoadLatest(c)
  \/ Start(c) \/ Fail(c)

Next ==
  \/ \E kind \in Kinds : Register(kind)
  \/ \E c \in Clients : Host(c) \/ Call(c)

Spec == Init /\ [][Next]_vars

-----------------------------------------------------------------------------

Published(store, memory) == [v \in DOMAIN store |-> memory[store[v]]]
Executable(definition) == ToSet(definition.plan) \subseteq registry

Holds(c) == {client[c].owns, client[c].frozen} \ {NoObject}
NoSharing ==
  /\ IsInjective(versions)
  /\ \A c \in Clients : /\ Holds(c) \intersect ToSet(versions) = {}
                        /\ client[c].frozen \in Holds(c) => client[c].frozen # client[c].owns
  /\ \A c, d \in Clients : c # d => Holds(c) \intersect Holds(d) = {}

(***************************************************************************)
(* No two of the store, the callers and the compiled plans in progress     *)
(* ever refer to the same Definition (cloneDefinition of definition.go).   *)
(***************************************************************************)
OwnershipInv == TypeOK /\ NoSharing

(***************************************************************************)
(* A published version stays executable and carries its own number: what   *)
(* compileDefinition has seen of a growing registry and of a draft that    *)
(* its author keeps editing is still true when CreateVersion stores it,    *)
(* and ever after (publication.go Publish).                                *)
(***************************************************************************)
PublishedStaysExecutable ==
  \A v \in DOMAIN versions :
    LET definition == heap[versions[v]] IN definition.version = v /\ Executable(definition)

(***************************************************************************)
(* Publication only appends: no step of anybody, a write to a Definition   *)
(* it loaded or published included, changes a version that exists          *)
(* (publication.go MemoryDefinitionStore).                                 *)
(***************************************************************************)
VersionsAreImmutable ==
  [][IsPrefix(Published(versions, heap), Published(versions', heap'))]_<<versions, heap>>

(***************************************************************************)
(* An instance runs the very version that was asked for, and no later      *)
(* publication changes which (engine.go StartPublished).                   *)
(***************************************************************************)
StartedAsAsked ==
  started # Nothing =>
    /\ started.asked \in DOMAIN versions
    /\ started.asked = started.version
    /\ heap[versions[started.asked]] = [version |-> started.version, plan |-> started.plan]
=============================================================================
