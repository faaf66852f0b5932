--------------------------- MODULE PublicationProofs ---------------------------
(***************************************************************************)
(* Proofs about Publication: nobody shares a Definition, and a published   *)
(* version is executable, immutable and the one that starts, for any       *)
(* goroutines, kinds, plans and number of versions.                        *)
(***************************************************************************)
EXTENDS Publication, FiniteSetTheorems, SequenceTheorems, TLAPS

\* What a call in progress knows of its frozen copy.
CallInv(c) ==
  LET me == client[c] IN
  /\ me.pc = "idle" => me.frozen = NoObject
  /\ me.pc # "idle" =>
       /\ me.frozen # NoObject
       /\ me.asked = 0 => me.owns # NoObject
       /\ me.asked # 0 => /\ me.asked \in DOMAIN versions
                          /\ heap[me.frozen] = heap[versions[me.asked]]
  /\ me.pc = "compile" =>
       /\ me.pos <= Len(heap[me.frozen].plan)
       /\ \A k \in 1..me.pos : heap[me.frozen].plan[k] \in registry
  /\ me.pc = "store" => me.asked = 0 /\ Executable(heap[me.frozen])
  /\ me.pc = "start" => me.asked # 0

\* No address in use is blank.
UsedInv == \A o \in InUse \ {NoObject} : heap[o] \in Definition

\* The inductive invariant.
PubInv ==
  /\ OwnershipInv
  /\ Len(versions) <= MaxVersions
  /\ UsedInv
  /\ \A c \in Clients : CallInv(c)
  /\ PublishedStaysExecutable
  /\ StartedAsAsked

\* What a step does to the versions that exist: nothing.
Keeps ==
  /\ Len(versions) <= Len(versions')
  /\ \A v \in DOMAIN versions : /\ versions'[v] = versions[v]
                                /\ heap'[versions[v]] = heap[versions[v]]

-----------------------------------------------------------------------------
(* The allocator.  Every address in use is held in a slot - a caller's, a   *)
(* compilation's or a version's - and there are as many addresses as slots. *)

\* The kinds of the nodes of a plan.
LEMMA PlanIsSequence ==
  ASSUME NEW d \in Definition
  PROVE  /\ d.version \in 0..MaxVersions /\ d.plan \in Plans
         /\ d.plan \in Seq(Kinds) /\ Len(d.plan) \in Nat /\ DOMAIN d.plan = 1..Len(d.plan)
<1>1. d.version \in 0..MaxVersions /\ d.plan \in Plans
  BY DEF Definition
<1>2. d.plan \in Seq(Kinds)
  BY <1>1, PublicationAssumption
<1> QED
  BY <1>1, <1>2, LenProperties

\* Versions are numbered from 1.
LEMMA VersionsDomain ==
  ASSUME TypeOK
  PROVE  /\ Len(versions) \in Nat /\ DOMAIN versions = 1..Len(versions)
         /\ \A v \in DOMAIN versions : versions[v] \in Objects /\ versions[v] # NoObject
         /\ ToSet(versions) = {versions[v] : v \in DOMAIN versions}
<1>1. versions \in Seq(Objects)
  BY DEF TypeOK
<1>2. Len(versions) \in Nat /\ DOMAIN versions = 1..Len(versions)
  BY <1>1, LenProperties
<1>3. \A v \in DOMAIN versions : versions[v] \in Objects
  BY <1>1, <1>2, ElementOfSeq
<1> QED
  BY <1>2, <1>3, PublicationAssumption DEF ToSet

\* There are finitely many addresses.
LEMMA ObjectsAreFinite == IsFiniteSet(Objects)
<1>1. IsFiniteSet({"owned", "frozen"}) /\ IsFiniteSet({"stored"})
  <2>1. IsFiniteSet({"owned"}) /\ IsFiniteSet({"stored"})
    BY FS_Singleton
  <2>2. IsFiniteSet({"owned"} \union {"frozen"})
    BY <2>1, FS_AddElement
  <2>3. {"owned", "frozen"} = {"owned"} \union {"frozen"}
    OBVIOUS
  <2> QED BY <2>1, <2>2, <2>3
<1>2. IsFiniteSet(1..MaxVersions)
  <2>1. MaxVersions \in Int /\ 1 \in Int
    BY PublicationAssumption
  <2> QED BY <2>1, FS_Interval
<1>3. IsFiniteSet(Clients)
  BY PublicationAssumption
<1>4. IsFiniteSet({"owned", "frozen"} \X Clients)
  BY <1>1, <1>3, FS_Product
<1>5. IsFiniteSet({"stored"} \X (1..MaxVersions))
  BY <1>1, <1>2, FS_Product
<1> QED
  BY <1>4, <1>5, FS_Union DEF Objects

Slots == ({"owned", "frozen"} \X Clients) \union ({"stored"} \X (DOMAIN versions))
Slot(s) == IF s[1] = "stored" THEN versions[s[2]]
           ELSE IF s[1] = "owned" THEN client[s[2]].owns ELSE client[s[2]].frozen

\* While a slot is empty, or a version still to come, an address is free.
LEMMA Room ==
  ASSUME TypeOK, Len(versions) <= MaxVersions,
         NEW s \in Objects, s \in Slots => Slot(s) = NoObject
  PROVE  \E o \in Objects : o \notin InUse
<1> SUFFICES ASSUME Objects \subseteq InUse PROVE FALSE
  OBVIOUS
<1>1. Slots \subseteq Objects
  BY VersionsDomain, PublicationAssumption DEF Slots, Objects
<1>2. \A o \in Objects : \E t \in Slots \ {s} : Slot(t) = o
  <2> SUFFICES ASSUME NEW o \in Objects PROVE \E t \in Slots : Slot(t) = o
    BY PublicationAssumption
  <2>1. CASE o \in ToSet(versions)
    <3>1. PICK v \in DOMAIN versions : versions[v] = o
      BY <2>1, VersionsDomain
    <3>2. <<"stored", v>> \in Slots /\ Slot(<<"stored", v>>) = o
      BY <3>1 DEF Slots, Slot
    <3> QED BY <3>2
  <2>2. CASE \E c \in Clients : client[c].owns = o
    <3>1. PICK c \in Clients : client[c].owns = o
      BY <2>2
    <3>2. <<"owned", c>> \in Slots /\ Slot(<<"owned", c>>) = o
      BY <3>1 DEF Slots, Slot
    <3> QED BY <3>2
  <2>3. CASE \E c \in Clients : client[c].frozen = o
    <3>1. PICK c \in Clients : client[c].frozen = o
      BY <2>3
    <3>2. <<"frozen", c>> \in Slots /\ Slot(<<"frozen", c>>) = o
      BY <3>1 DEF Slots, Slot
    <3> QED BY <3>2
  <2> QED
    BY <2>1, <2>2, <2>3 DEF InUse
<1> DEFINE f == [o \in Objects |-> CHOOSE t \in Slots \ {s} : Slot(t) = o]
<1>3. \A o \in Objects : f[o] \in Slots \ {s} /\ Slot(f[o]) = o
  BY <1>2
<1>4. f \in [Objects -> Objects \ {s}]
  BY <1>1, <1>3
<1>5. \A o, p \in Objects : f[o] = f[p] => o = p
  <2> SUFFICES ASSUME NEW o \in Objects, NEW p \in Objects, f[o] = f[p] PROVE o = p
    OBVIOUS
  <2>1. Slot(f[o]) = o /\ Slot(f[p]) = p
    BY <1>3
  <2> QED BY <2>1
<1> HIDE DEF f
<1>6. IsFiniteSet(Objects \ {s}) /\ Cardinality(Objects \ {s}) = Cardinality(Objects) - 1
      /\ Cardinality(Objects) \in Nat
  BY ObjectsAreFinite, FS_RemoveElement, FS_CardinalityType
<1>7. PICK o, p \in Objects : o # p /\ f[o] = f[p]
  BY <1>4, <1>6, ObjectsAreFinite, FS_PigeonHole
<1> QED
  BY <1>5, <1>7

\* A new address is in use by nobody.
LEMMA NewIsFree ==
  ASSUME TypeOK, Len(versions) <= MaxVersions,
         NEW home \in Objects, home \in Slots => Slot(home) = NoObject
  PROVE  New(home) \in Objects /\ New(home) \notin InUse /\ New(home) # NoObject
<1>1. \E o \in Objects : o \notin InUse
  BY Room
<1>2. New(home) \in Objects /\ New(home) \notin InUse
  BY <1>1 DEF New
<1> QED
  BY <1>2, PublicationAssumption

-----------------------------------------------------------------------------
(* What a step of one client leaves alone. *)

\* What everybody knows of the objects it holds survives a step that does not
\* write to them.
LEMMA CallStays ==
  ASSUME PubInv, NEW d \in Clients, CallInv(d),
         client'[d] = client[d], registry \subseteq registry', Keeps,
         \A o \in Holds(d) : heap'[o] = heap[o],
         DOMAIN versions \subseteq DOMAIN versions'
  PROVE  CallInv(d)'
<1> DEFINE me == client[d]
<1>1. me \in Client
  BY DEF PubInv, OwnershipInv, TypeOK
<1>2. me.pc # "idle" => heap'[me.frozen] = heap[me.frozen]
  BY DEF CallInv, Holds
<1>3. me.asked # 0 /\ me.pc # "idle" =>
        /\ me.asked \in DOMAIN versions'
        /\ heap'[me.frozen] = heap'[versions'[me.asked]]
  BY <1>2 DEF CallInv, Keeps
<1>4. me.pc = "compile" =>
        /\ me.pos <= Len(heap'[me.frozen].plan)
        /\ \A k \in 1..me.pos : heap'[me.frozen].plan[k] \in registry'
  BY <1>2 DEF CallInv
<1>5. me.pc = "store" => me.asked = 0 /\ ToSet(heap'[me.frozen].plan) \subseteq registry'
  BY <1>2 DEF CallInv, Executable
<1> QED
  BY <1>3, <1>4, <1>5 DEF CallInv, Executable

\* An instance started, if any, is one of a version that exists.
Starts ==
  \/ started' = started
  \/ \E v \in DOMAIN versions :
       started' = [asked |-> v, version |-> heap[versions[v]].version,
                   plan |-> heap[versions[v]].plan]

\* The stored Definition of a version.
LEMMA StoredIsDefinition ==
  ASSUME PubInv, NEW v \in DOMAIN versions
  PROVE  /\ versions[v] \in Objects /\ heap[versions[v]] \in Definition
         /\ v \in 1..MaxVersions /\ versions[v] \in InUse
<1>1. TypeOK /\ Len(versions) <= MaxVersions /\ MaxVersions \in Nat
  BY PublicationAssumption DEF PubInv, OwnershipInv
<1>2. versions[v] \in Objects /\ versions[v] # NoObject /\ v \in 1..MaxVersions
  BY <1>1, VersionsDomain
<1>3. versions[v] \in InUse
  BY DEF InUse, ToSet
<1> QED
  BY <1>2, <1>3 DEF PubInv, UsedInv

\* A step that publishes nothing changes nothing about what was published.
LEMMA PublishedStays ==
  ASSUME PubInv, versions' = versions, Starts, registry \subseteq registry',
         \A o \in ToSet(versions) : heap'[o] = heap[o]
  PROVE  PublishedStaysExecutable' /\ StartedAsAsked' /\ Keeps
<1>1. \A v \in DOMAIN versions : heap'[versions[v]] = heap[versions[v]]
  BY DEF ToSet
<1>2. Keeps
  BY <1>1, VersionsDomain DEF Keeps, PubInv, OwnershipInv
<1>3. PublishedStaysExecutable'
  BY <1>1 DEF PubInv, PublishedStaysExecutable, Executable
<1>4. StartedAsAsked'
  <2>1. CASE started' = started
    BY <1>1, <2>1 DEF PubInv, StartedAsAsked
  <2>2. CASE started' # started
    <3>1. PICK v \in DOMAIN versions :
            started' = [asked |-> v, version |-> heap[versions[v]].version,
                        plan |-> heap[versions[v]].plan]
      BY <2>2 DEF Starts
    <3>2. heap[versions[v]] \in Definition /\ heap[versions[v]].version = v
      BY StoredIsDefinition DEF PubInv, PublishedStaysExecutable
    <3>3. heap[versions[v]] = [version |-> started'.version, plan |-> started'.plan]
      BY <3>1, <3>2 DEF Definition
    <3>4. started'.asked = v /\ started'.version = v
      BY <3>1, <3>2
    <3> QED BY <1>1, <3>3, <3>4 DEF StartedAsAsked
  <2> QED BY <2>1, <2>2
<1> QED BY <1>2, <1>3, <1>4

\* A step of c alone, which may take one new address or let go of what it holds.
Moves(c) ==
  /\ versions' = versions
  /\ client' \in [Clients -> Client]
  /\ \A d \in Clients \ {c} : client'[d] = client[d]
  /\ client'[c].owns \in {client[c].owns, NoObject} \union (Objects \ InUse)
  /\ client'[c].frozen \in {client[c].frozen, NoObject} \union (Objects \ InUse)
  /\ \/ client'[c].owns = client[c].owns
     \/ client'[c].frozen \in {client[c].frozen, NoObject}

\* It shares nothing with anybody.
LEMMA MovesKeepsApart ==
  ASSUME PubInv, NEW c \in Clients, Moves(c)
  PROVE  NoSharing'
<1> NoSharing /\ TypeOK
  BY DEF PubInv, OwnershipInv
<1>1. \A d \in Clients : Holds(d) \subseteq InUse
  BY DEF Holds, InUse
<1>2. ToSet(versions) \subseteq InUse
  BY DEF InUse
<1>3. Holds(c)' \subseteq Holds(c) \union (Objects \ InUse)
  BY DEF Moves, Holds
<1>4. \A d \in Clients \ {c} : Holds(d)' = Holds(d)
  BY DEF Moves, Holds
<1>5. (\A d \in Clients : Holds(d) \intersect ToSet(versions) = {})'
  BY <1>1, <1>2, <1>3, <1>4 DEF NoSharing, Moves
<1>6. \A d \in Clients : (client[d].frozen \in Holds(d) => client[d].frozen # client[d].owns)'
  <2>1. \A d \in Clients \ {c} : (client[d].frozen \in Holds(d) => client[d].frozen # client[d].owns)'
    BY <1>4 DEF NoSharing, Moves
  <2>2. (client[c].frozen \in Holds(c) => client[c].frozen # client[c].owns)'
    <3>1. client[c].owns \in InUse /\ client[c].frozen \in InUse
      BY DEF InUse
    <3>2. client[c].frozen # NoObject => client[c].frozen # client[c].owns
      BY DEF NoSharing, Holds
    <3>3. client'[c].frozen # NoObject => client'[c].frozen # client'[c].owns
      BY <3>1, <3>2 DEF Moves
    <3> QED BY <3>3 DEF Holds
  <2> QED BY <2>1, <2>2
<1>7. \A d, e \in Clients : d # e => Holds(d)' \intersect Holds(e)' = {}
  <2>1. \A d, e \in Clients : d # e => Holds(d) \intersect Holds(e) = {}
    BY DEF NoSharing
  <2>2. \A d, e \in Clients \ {c} : d # e => Holds(d)' \intersect Holds(e)' = {}
    BY <2>1, <1>4
  <2>3. \A d \in Clients \ {c} : Holds(d)' \intersect Holds(c)' = {}
    BY <2>1, <1>1, <1>3, <1>4
  <2>4. \A d \in Clients \ {c} : Holds(c)' \intersect Holds(d)' = {}
    BY <2>3
  <2> QED BY <2>2, <2>3, <2>4
<1> QED
  BY <1>5, <1>6, <1>7 DEF NoSharing, Moves

\* The common part of most steps: c's step writes, if at all, only to what c
\* holds after it, and has its own call's knowledge right.
LEMMA StepOfOne ==
  ASSUME PubInv, NEW c \in Clients, Moves(c),
         registry' \in SUBSET Kinds, registry \subseteq registry', Starts,
         heap' \in [Objects -> Definition \union {Blank}],
         \A o \in Objects : o \in InUse /\ o \in InUse' /\ o \notin Holds(c) => heap'[o] = heap[o],
         \A o \in Holds(c)' : heap'[o] \in Definition,
         CallInv(c)'
  PROVE  PubInv' /\ Keeps
<1> TypeOK /\ NoSharing
  BY DEF PubInv, OwnershipInv
<1>1. TypeOK'
  <2>1. started' \in {Nothing} \union
          [asked : 1..MaxVersions, version : 0..MaxVersions, plan : Plans]
    <3>1. CASE started' = started
      BY <3>1 DEF TypeOK
    <3>2. CASE started' # started
      BY <3>2, StoredIsDefinition, PlanIsSequence DEF Starts
    <3> QED BY <3>1, <3>2
  <2> QED BY <2>1 DEF TypeOK, Moves
<1>2. OwnershipInv'
  BY <1>1, MovesKeepsApart DEF OwnershipInv
<1>3. /\ ToSet(versions) \subseteq InUse /\ ToSet(versions) \subseteq InUse'
      /\ Holds(c) \intersect ToSet(versions) = {}
  <2>1. ToSet(versions) \subseteq InUse /\ ToSet(versions)' \subseteq InUse'
    BY DEF InUse
  <2>2. ToSet(versions)' = ToSet(versions)
    BY DEF Moves
  <2>3. Holds(c) \intersect ToSet(versions) = {}
    BY DEF NoSharing
  <2> QED BY <2>1, <2>2, <2>3
<1>4. \A d \in Clients \ {c} : /\ Holds(d) \subseteq InUse /\ Holds(d) \subseteq InUse'
                               /\ Holds(d) \intersect Holds(c) = {}
                               /\ Holds(d)' = Holds(d) /\ Holds(d) \subseteq Objects
  <2>1. \A d \in Clients : Holds(d) \subseteq InUse /\ Holds(d)' \subseteq InUse'
    BY DEF InUse, Holds
  <2>2. \A d \in Clients \ {c} : Holds(d)' = Holds(d)
    BY DEF Moves, Holds
  <2>3. \A d \in Clients \ {c} : Holds(d) \intersect Holds(c) = {}
    BY DEF NoSharing
  <2>4. \A d \in Clients : Holds(d) \subseteq Objects
    BY DEF TypeOK, Client, Holds
  <2> QED BY <2>1, <2>2, <2>3, <2>4
<1>5. \A o \in ToSet(versions) : heap'[o] = heap[o]
  BY <1>3, VersionsDomain
<1>6. PublishedStaysExecutable' /\ StartedAsAsked' /\ Keeps
  BY <1>5, PublishedStays DEF Moves
<1>7. ASSUME NEW d \in Clients \ {c}
      PROVE  CallInv(d)'
  <2>1. \A o \in Holds(d) : heap'[o] = heap[o]
    BY <1>4
  <2>2. CallInv(d) /\ client'[d] = client[d] /\ DOMAIN versions \subseteq DOMAIN versions'
    BY DEF PubInv, Moves
  <2> QED BY <2>1, <2>2, <1>6, CallStays
<1>8. UsedInv'
  <2> SUFFICES ASSUME NEW o \in InUse' \ {NoObject} PROVE heap'[o] \in Definition
    BY DEF UsedInv
  <2>1. CASE o \in Holds(c)'
    BY <2>1
  <2>2. CASE o \notin Holds(c)'
    <3>1. o \in ToSet(versions') \/ \E d \in Clients : o \in Holds(d)'
      BY DEF InUse, Holds
    <3>2. o \in InUse /\ o \notin Holds(c) /\ o \in Objects
      BY <3>1, <2>2, <1>3, <1>4, VersionsDomain DEF Moves
    <3>3. heap[o] \in Definition
      BY <3>2 DEF PubInv, UsedInv
    <3> QED BY <3>2, <3>3
  <2> QED BY <2>1, <2>2
<1> QED
  BY <1>2, <1>6, <1>7, <1>8 DEF PubInv, Moves

-----------------------------------------------------------------------------
(* One lemma per operation. *)

\* Registering a kind, or doing nothing, touches no Definition.
LEMMA RegisterSound ==
  ASSUME PubInv, registry' \in SUBSET Kinds, registry \subseteq registry',
         UNCHANGED <<heap, versions, client, started>>
  PROVE  PubInv' /\ Keeps
<1>1. UNCHANGED <<heap, versions, client, started>>
  OBVIOUS
<1>2. OwnershipInv' /\ UsedInv' /\ Len(versions') <= MaxVersions
  BY <1>1 DEF PubInv, OwnershipInv, TypeOK, NoSharing, Holds, UsedInv, InUse
<1>3. PublishedStaysExecutable' /\ StartedAsAsked' /\ Keeps
  BY <1>1, PublishedStays DEF Starts
<1>4. \A c \in Clients : CallInv(c)'
  BY <1>1, <1>3, CallStays DEF PubInv
<1> QED
  BY <1>2, <1>3, <1>4 DEF PubInv

\* What a client's record is made of.
LEMMA ClientType ==
  ASSUME PubInv, NEW c \in Clients
  PROVE  /\ client[c] \in Client /\ client \in [Clients -> Client]
         /\ client[c].owns \in Objects \union {NoObject}
         /\ client[c].frozen \in Objects \union {NoObject}
         /\ heap \in [Objects -> Definition \union {Blank}]
         /\ registry \in SUBSET Kinds
         /\ \A o \in {client[c].owns, client[c].frozen} \ {NoObject} :
              o \in InUse /\ o \in Objects /\ heap[o] \in Definition
BY DEF PubInv, OwnershipInv, TypeOK, Client, UsedInv, InUse

\* A composed or loaded Definition is at an address of its own.
LEMMA OwnNewSound ==
  ASSUME PubInv, NEW c \in Clients, client[c].pc = "idle", client[c].owns = NoObject,
         NEW d \in Definition,
         heap' = [heap EXCEPT ![New(<<"owned", c>>)] = d],
         client' = [client EXCEPT ![c].owns = New(<<"owned", c>>)],
         UNCHANGED <<registry, versions, started>>
  PROVE  PubInv' /\ Keeps
<1> DEFINE o == New(<<"owned", c>>)
<1>1. o \in Objects /\ o \notin InUse /\ o # NoObject
  <2>1. TypeOK /\ Len(versions) <= MaxVersions
    BY DEF PubInv, OwnershipInv
  <2>2. <<"owned", c>> \in Objects /\ Slot(<<"owned", c>>) = NoObject
    BY DEF Objects, Slot
  <2> QED BY <2>1, <2>2, NewIsFree
<1> HIDE DEF o
<1>2. heap' = [heap EXCEPT ![o] = d] /\ client' = [client EXCEPT ![c].owns = o]
  BY DEF o
<1>3. /\ client[c] \in Client /\ client \in [Clients -> Client] /\ client[c].frozen = NoObject
      /\ heap \in [Objects -> Definition \union {Blank}]
  BY ClientType DEF PubInv, CallInv
<1>4. client'[c] = [client[c] EXCEPT !.owns = o] /\ client' \in [Clients -> Client]
  BY <1>1, <1>2, <1>3 DEF Client
<1>5. client'[c].owns = o /\ client'[c].frozen = NoObject /\ client'[c].pc = "idle"
  BY <1>3, <1>4 DEF Client
<1>6. Moves(c)
  BY <1>1, <1>2, <1>3, <1>4, <1>5 DEF Moves
<1>7. heap' \in [Objects -> Definition \union {Blank}] /\ heap'[o] = d
      /\ \A p \in Objects \ {o} : heap'[p] = heap[p]
  BY <1>1, <1>2, <1>3
<1>8. \A p \in Objects : p \in InUse => heap'[p] = heap[p]
  BY <1>1, <1>7
<1>9. \A p \in Holds(c)' : heap'[p] \in Definition
  BY <1>5, <1>7 DEF Holds
<1>10. CallInv(c)'
  BY <1>5 DEF CallInv
<1> QED
  BY <1>6, <1>7, <1>8, <1>9, <1>10, ClientType, StepOfOne DEF Starts

\* A call that ends gives up its frozen copy; what is not in use is blank.
LEMMA EndSound ==
  ASSUME PubInv, NEW c \in Clients, NEW owned \in {client[c].owns, NoObject},
         client' = Returned(c, owned), Collect(heap), Starts,
         UNCHANGED <<registry, versions>>
  PROVE  PubInv' /\ Keeps
<1>1. /\ client[c] \in Client /\ client \in [Clients -> Client]
      /\ heap \in [Objects -> Definition \union {Blank}]
      /\ \A o \in {client[c].owns, client[c].frozen} \ {NoObject} :
           o \in InUse /\ o \in Objects /\ heap[o] \in Definition
  BY ClientType
<1>2. client'[c] = [Idle EXCEPT !.owns = owned] /\ \A d \in Clients \ {c} : client'[d] = client[d]
  BY <1>1 DEF Returned
<1>3. [Idle EXCEPT !.owns = owned] \in Client
  BY <1>1, PublicationAssumption DEF Idle, Client
<1>4. client' \in [Clients -> Client]
  BY <1>1, <1>3 DEF Returned
<1>5. client'[c].owns = owned /\ client'[c].frozen = NoObject /\ client'[c].pc = "idle"
  BY <1>2 DEF Idle
<1>6. Moves(c)
  BY <1>2, <1>4, <1>5 DEF Moves
<1>7. heap' = [o \in Objects |-> IF o \in InUse' THEN heap[o] ELSE Blank]
  BY DEF Collect
<1>8. heap' \in [Objects -> Definition \union {Blank}]
  BY <1>1, <1>7
<1>9. \A o \in Objects : o \in InUse' => heap'[o] = heap[o]
  BY <1>7
<1>10. \A o \in Holds(c)' : heap'[o] \in Definition
  <2> SUFFICES ASSUME NEW o \in Holds(c)' PROVE heap'[o] \in Definition
    OBVIOUS
  <2>1. o = client[c].owns /\ o # NoObject /\ o = client'[c].owns
    BY <1>5 DEF Holds
  <2>2. o \in InUse'
    BY <2>1 DEF InUse
  <2> QED BY <2>1, <2>2, <1>1, <1>9
<1>11. CallInv(c)'
  BY <1>5 DEF CallInv
<1> QED
  BY <1>6, <1>8, <1>9, <1>10, <1>11, ClientType, StepOfOne

\* A frozen copy is at an address of its own, and equal to its source.
LEMMA FreezeSound ==
  ASSUME PubInv, NEW c \in Clients, client[c].pc = "idle",
         NEW source \in Objects, heap[source] \in Definition, source \in InUse,
         NEW asked \in 0..MaxVersions,
         asked = 0 => client[c].owns # NoObject,
         asked # 0 => asked \in DOMAIN versions /\ source = versions[asked],
         Freeze(c, source, asked), UNCHANGED <<registry, versions, started>>
  PROVE  PubInv' /\ Keeps
<1> DEFINE o == New(<<"frozen", c>>)
<1>1. client[c].frozen = NoObject
  BY DEF PubInv, CallInv
<1>2. o \in Objects /\ o \notin InUse /\ o # NoObject
  <2>1. TypeOK /\ Len(versions) <= MaxVersions
    BY DEF PubInv, OwnershipInv
  <2>2. <<"frozen", c>> \in Objects /\ Slot(<<"frozen", c>>) = NoObject
    BY <1>1 DEF Objects, Slot
  <2> QED BY <2>1, <2>2, NewIsFree
<1> HIDE DEF o
<1>3. /\ heap' = [heap EXCEPT ![o] = heap[source]]
      /\ client' = [client EXCEPT ![c].pc = "compile", ![c].frozen = o, ![c].pos = 0,
                                  ![c].asked = asked]
  BY DEF o, Freeze
<1>4. /\ client[c] \in Client /\ client \in [Clients -> Client]
      /\ heap \in [Objects -> Definition \union {Blank}]
      /\ client[c].owns \in Objects \union {NoObject}
      /\ \A p \in {client[c].owns, client[c].frozen} \ {NoObject} :
           p \in InUse /\ p \in Objects /\ heap[p] \in Definition
  BY ClientType
<1>5. /\ client'[c] = [client[c] EXCEPT !.pc = "compile", !.frozen = o, !.pos = 0, !.asked = asked]
      /\ \A d \in Clients \ {c} : client'[d] = client[d]
  BY <1>3, <1>4
<1>6. /\ client'[c].owns = client[c].owns /\ client'[c].frozen = o
      /\ client'[c].pc = "compile" /\ client'[c].pos = 0 /\ client'[c].asked = asked
      /\ client'[c] \in Client
  <2> DEFINE me == client[c]
             new == [me EXCEPT !.pc = "compile", !.frozen = o, !.pos = 0, !.asked = asked]
  <2>1. me \in Client /\ client'[c] = new
    BY <1>4, <1>5
  <2> HIDE DEF me
  <2>2. new.owns = me.owns /\ new.frozen = o /\ new.pc = "compile" /\ new.pos = 0 /\ new.asked = asked
    BY <2>1 DEF Client
  <2>3. new \in Client
    BY <1>2, <2>1 DEF Client
  <2> QED BY <2>1, <2>2, <2>3 DEF me
<1>7. client' \in [Clients -> Client]
  BY <1>3, <1>4, <1>5, <1>6
<1>8. Moves(c)
  BY <1>2, <1>5, <1>6, <1>7 DEF Moves
<1>9. /\ heap' \in [Objects -> Definition \union {Blank}] /\ heap'[o] = heap[source]
      /\ \A p \in Objects \ {o} : heap'[p] = heap[p]
  BY <1>2, <1>3, <1>4
<1>10. \A p \in Objects : p \in InUse => heap'[p] = heap[p]
  <2> SUFFICES ASSUME NEW p \in Objects, p \in InUse PROVE heap'[p] = heap[p]
    OBVIOUS
  <2>1. p # o
    BY <1>2
  <2> QED BY <2>1, <1>9
<1>11. \A p \in Holds(c)' : heap'[p] \in Definition
  <2> SUFFICES ASSUME NEW p \in Holds(c)' PROVE heap'[p] \in Definition
    OBVIOUS
  <2>1. p = o \/ p \in {client[c].owns, client[c].frozen} \ {NoObject}
    BY <1>6 DEF Holds
  <2> QED BY <2>1, <1>4, <1>9, <1>10
<1>12. CallInv(c)'
  <2>1. asked # 0 => asked \in DOMAIN versions' /\ heap'[o] = heap'[versions'[asked]]
    BY <1>9, <1>10
  <2>2. heap'[o] \in Definition
    BY <1>9
  <2>3. 0 <= Len(heap'[o].plan)
    BY <2>2, PlanIsSequence
  <2> QED BY <1>2, <1>6, <2>1, <2>3 DEF CallInv
<1> QED
  BY <1>8, <1>9, <1>10, <1>11, <1>12, ClientType, StepOfOne DEF Starts

\* The author may go on editing the Definition that is being compiled: its copy
\* is another object.
LEMMA ScribbleSound ==
  ASSUME PubInv, NEW c \in Clients, NEW plan \in Plans, Scribble(c, plan)
  PROVE  PubInv' /\ Keeps
<1> DEFINE o == client[c].owns
<1>1. /\ client[c].pc = "idle" /\ o # NoObject
      /\ heap' = [heap EXCEPT ![o].plan = plan]
      /\ UNCHANGED <<registry, versions, client, started>>
  BY DEF Scribble
<1>2. client[c].frozen = NoObject
  BY <1>1 DEF PubInv, CallInv
<1>3. /\ client \in [Clients -> Client] /\ o \in Objects /\ heap[o] \in Definition
      /\ heap \in [Objects -> Definition \union {Blank}]
  BY <1>1, ClientType
<1>4. heap'[o] = [heap[o] EXCEPT !.plan = plan] /\ \A p \in Objects \ {o} : heap'[p] = heap[p]
  BY <1>1, <1>3
<1>5. heap'[o] \in Definition
  BY <1>3, <1>4 DEF Definition
<1>6. heap' \in [Objects -> Definition \union {Blank}]
  BY <1>1, <1>3, <1>4, <1>5
<1>7. Moves(c)
  BY <1>1, <1>3 DEF Moves
<1>8. Holds(c) = {o} /\ Holds(c)' = {o}
  BY <1>1, <1>2 DEF Holds
<1>9. CallInv(c)'
  BY <1>1, <1>2 DEF CallInv
<1> QED
  BY <1>1, <1>4, <1>5, <1>6, <1>7, <1>8, <1>9, ClientType, StepOfOne DEF Starts

\* A step within a call that only moves it on.
LEMMA AdvanceSound ==
  ASSUME PubInv, NEW c \in Clients, client[c].pc = "compile",
         client' \in [Clients -> Client],
         \A d \in Clients \ {c} : client'[d] = client[d],
         client'[c].owns = client[c].owns, client'[c].frozen = client[c].frozen,
         heap' \in [Objects -> Definition \union {Blank}],
         \A o \in Objects : o \in InUse' => heap'[o] = heap[o],
         UNCHANGED <<registry, versions, started>>,
         CallInv(c)'
  PROVE  PubInv' /\ Keeps
<1>1. Moves(c)
  BY DEF Moves
<1>2. \A o \in Holds(c)' : heap'[o] \in Definition
  <2> SUFFICES ASSUME NEW o \in Holds(c)' PROVE heap'[o] \in Definition
    OBVIOUS
  <2>1. o \in {client[c].owns, client[c].frozen} \ {NoObject}
    BY DEF Holds
  <2>2. o \in InUse'
    BY DEF Holds, InUse
  <2> QED BY <2>1, <2>2, ClientType
<1> QED
  BY <1>1, <1>2, ClientType, StepOfOne DEF Starts

\* A node's kind is looked up, or the call fails.
LEMMA PrepareNodeSound ==
  ASSUME PubInv, NEW c \in Clients, PrepareNode(c)
  PROVE  PubInv' /\ Keeps
<1> DEFINE me == client[c]
           plan == heap[me.frozen].plan
<1>1. /\ me.pc = "compile" /\ me.pos < Len(plan)
      /\ Collect(heap) /\ UNCHANGED <<registry, versions, started>>
  BY DEF PrepareNode
<1>2. CASE plan[me.pos + 1] \in registry
  <2>1. client' = [client EXCEPT ![c].pos = @ + 1]
    BY <1>2 DEF PrepareNode
  <2>2. /\ me \in Client /\ client \in [Clients -> Client]
        /\ heap \in [Objects -> Definition \union {Blank}]
        /\ \A o \in {me.owns, me.frozen} \ {NoObject} :
             o \in InUse /\ o \in Objects /\ heap[o] \in Definition
    BY ClientType
  <2>3. /\ client'[c] = [me EXCEPT !.pos = @ + 1] /\ client'[c] \in Client
        /\ \A d \in Clients \ {c} : client'[d] = client[d]
    BY <2>1, <2>2 DEF Client
  <2>4. client' \in [Clients -> Client]
    BY <2>1, <2>2, <2>3
  <2>5. /\ client'[c].owns = me.owns /\ client'[c].frozen = me.frozen /\ client'[c].pc = me.pc
        /\ client'[c].pos = me.pos + 1 /\ client'[c].asked = me.asked
    BY <2>2, <2>3 DEF Client
  <2>6. /\ heap' \in [Objects -> Definition \union {Blank}]
        /\ \A o \in Objects : o \in InUse' => heap'[o] = heap[o]
    BY <1>1, <2>2 DEF Collect
  <2>7. me.frozen \in Objects /\ me.frozen # NoObject /\ heap[me.frozen] \in Definition
    BY <1>1, <2>2 DEF PubInv, CallInv
  <2>8. me.frozen \in InUse'
    BY <2>5 DEF InUse
  <2>9. heap'[me.frozen] = heap[me.frozen]
    BY <2>6, <2>7, <2>8
  <2>10. me.pos \in Nat /\ Len(plan) \in Nat
    BY <2>2, <2>7, PlanIsSequence DEF Client
  <2>11. me.pos + 1 <= Len(plan) /\ \A k \in 1..me.pos + 1 : plan[k] \in registry
    <3>1. \A k \in 1..me.pos : plan[k] \in registry
      BY <1>1 DEF PubInv, CallInv
    <3> QED BY <3>1, <1>1, <1>2, <2>10
  <2>12. me.asked # 0 => /\ me.asked \in DOMAIN versions'
                         /\ heap'[me.frozen] = heap'[versions'[me.asked]]
    <3> SUFFICES ASSUME me.asked # 0
                 PROVE  /\ me.asked \in DOMAIN versions'
                        /\ heap'[me.frozen] = heap'[versions'[me.asked]]
      OBVIOUS
    <3>1. me.asked \in DOMAIN versions /\ heap[me.frozen] = heap[versions[me.asked]]
      BY <1>1 DEF PubInv, CallInv
    <3>2. versions[me.asked] \in Objects
      BY <3>1, StoredIsDefinition
    <3>3. versions[me.asked] \in InUse'
      BY <1>1, <3>1 DEF InUse, ToSet
    <3> QED BY <1>1, <2>6, <2>9, <3>1, <3>2, <3>3
  <2>13. me.asked = 0 => me.owns # NoObject
    BY <1>1 DEF PubInv, CallInv
  <2>14. CallInv(c)'
    BY <1>1, <2>5, <2>7, <2>9, <2>11, <2>12, <2>13 DEF CallInv
  <2> QED BY <1>1, <2>3, <2>4, <2>5, <2>6, <2>14, AdvanceSound
<1>3. CASE plan[me.pos + 1] \notin registry
  <2>1. client' = Returned(c, me.owns)
    BY <1>3 DEF PrepareNode
  <2> QED BY <1>1, <2>1, EndSound DEF Starts
<1> QED BY <1>2, <1>3

\* When every node was looked up, the whole plan is executable.
LEMMA CompiledSound ==
  ASSUME PubInv, NEW c \in Clients, Compiled(c)
  PROVE  PubInv' /\ Keeps
<1> DEFINE me == client[c]
           plan == heap[me.frozen].plan
           next == IF me.asked = 0 THEN "store" ELSE "start"
<1>1. /\ me.pc = "compile" /\ me.pos = Len(plan)
      /\ client' = [client EXCEPT ![c].pc = next]
      /\ UNCHANGED <<registry, heap, versions, started>>
  BY DEF Compiled
<1>2. /\ me \in Client /\ client \in [Clients -> Client]
      /\ heap \in [Objects -> Definition \union {Blank}]
      /\ \A o \in {me.owns, me.frozen} \ {NoObject} :
           o \in InUse /\ o \in Objects /\ heap[o] \in Definition
  BY ClientType
<1>3. /\ client'[c] = [me EXCEPT !.pc = next] /\ client'[c] \in Client
      /\ \A d \in Clients \ {c} : client'[d] = client[d]
  BY <1>1, <1>2 DEF Client
<1>4. client' \in [Clients -> Client]
  BY <1>1, <1>2, <1>3
<1>5. /\ client'[c].owns = me.owns /\ client'[c].frozen = me.frozen /\ client'[c].pc = next
      /\ client'[c].asked = me.asked
  BY <1>2, <1>3 DEF Client
<1>6. me.frozen # NoObject /\ heap[me.frozen] \in Definition
  BY <1>1, <1>2 DEF PubInv, CallInv
<1>7. DOMAIN plan = 1..me.pos
  BY <1>1, <1>6, PlanIsSequence
<1>8. Executable(heap[me.frozen])
  BY <1>1, <1>7 DEF PubInv, CallInv, Executable, ToSet
<1>9. /\ me.asked = 0 => me.owns # NoObject
      /\ me.asked # 0 => /\ me.asked \in DOMAIN versions
                         /\ heap[me.frozen] = heap[versions[me.asked]]
  BY <1>1 DEF PubInv, CallInv
<1>10. CallInv(c)'
  BY <1>1, <1>5, <1>6, <1>8, <1>9 DEF CallInv, Executable
<1> QED
  BY <1>1, <1>2, <1>3, <1>4, <1>5, <1>10, AdvanceSound

\* A new version is a new object, executable under the registry of now, and the
\* versions before it are untouched.
LEMMA CreateVersionSound ==
  ASSUME PubInv, NEW c \in Clients, CreateVersion(c)
  PROVE  PubInv' /\ Keeps
<1> DEFINE me == client[c]
           n == Len(versions)
           stored == New(<<"stored", n + 1>>)
           result == me.owns
           snapshot == [heap[me.frozen] EXCEPT !.version = n + 1]
           memory == [heap EXCEPT ![stored] = snapshot, ![result] = snapshot]
<1> TypeOK /\ NoSharing
  BY DEF PubInv, OwnershipInv
<1>1. /\ me.pc = "store" /\ n < MaxVersions /\ n \in Nat /\ DOMAIN versions = 1..n
      /\ registry' = registry /\ started' = started
  BY VersionsDomain DEF CreateVersion
<1>2. /\ versions' = Append(versions, stored)
      /\ client' = Returned(c, result)
      /\ heap' = [o \in Objects |-> IF o \in InUse' THEN memory[o] ELSE Blank]
  BY DEF CreateVersion, Collect
<1>3. /\ me \in Client /\ client \in [Clients -> Client]
      /\ heap \in [Objects -> Definition \union {Blank}]
      /\ \A o \in {me.owns, me.frozen} \ {NoObject} :
           o \in InUse /\ o \in Objects /\ heap[o] \in Definition
  BY ClientType
<1>4. me.owns # NoObject /\ me.frozen # NoObject /\ Executable(heap[me.frozen])
  BY <1>1 DEF PubInv, CallInv
<1>5. result \in Objects /\ result \in InUse /\ heap[me.frozen] \in Definition
  BY <1>3, <1>4
<1>6. /\ snapshot \in Definition /\ snapshot.version = n + 1
      /\ snapshot.plan = heap[me.frozen].plan
  <2> DEFINE d == heap[me.frozen]
             m == n + 1
  <2>1. d \in Definition /\ m \in 0..MaxVersions
    BY <1>1, <1>5, PublicationAssumption
  <2> HIDE DEF d, m
  <2>2. /\ [d EXCEPT !.version = m] \in Definition /\ [d EXCEPT !.version = m].version = m
        /\ [d EXCEPT !.version = m].plan = d.plan
    BY <2>1 DEF Definition
  <2> QED BY <2>2 DEF d, m
<1>7. stored \in Objects /\ stored \notin InUse /\ stored # NoObject /\ stored # result
  <2>1. <<"stored", n + 1>> \in Objects
    BY <1>1, PublicationAssumption DEF Objects
  <2>2. <<"stored", n + 1>> \notin Slots
    BY <1>1 DEF Slots
  <2>3. Len(versions) <= MaxVersions
    BY DEF PubInv
  <2>4. stored \in Objects /\ stored \notin InUse /\ stored # NoObject
    BY <2>1, <2>2, <2>3, NewIsFree
  <2> QED BY <2>4, <1>5
<1> HIDE DEF stored
<1>8. /\ memory[stored] = snapshot /\ memory[result] = snapshot
      /\ \A o \in Objects \ {stored, result} : memory[o] = heap[o]
      /\ memory \in [Objects -> Definition \union {Blank}]
  BY <1>3, <1>5, <1>6, <1>7
<1> HIDE DEF memory, snapshot
<1>9. /\ client'[c] = [Idle EXCEPT !.owns = result] /\ client' \in [Clients -> Client]
      /\ \A d \in Clients \ {c} : client'[d] = client[d]
  <2>1. [Idle EXCEPT !.owns = result] \in Client
    BY <1>5, PublicationAssumption DEF Idle, Client
  <2> QED BY <1>2, <1>3, <2>1 DEF Returned
<1>10. client'[c].owns = result /\ client'[c].frozen = NoObject /\ client'[c].pc = "idle"
  BY <1>9 DEF Idle
<1>11. /\ versions' \in Seq(Objects) /\ Len(versions') = n + 1
       /\ DOMAIN versions' = 1..(n + 1)
       /\ \A v \in 1..n : versions'[v] = versions[v]
       /\ versions'[n + 1] = stored
  <2>1. versions \in Seq(Objects)
    BY DEF TypeOK
  <2>2. /\ versions' \in Seq(Objects) /\ Len(versions') = n + 1
        /\ \A v \in 1..n : versions'[v] = versions[v]
        /\ versions'[n + 1] = stored
    BY <1>1, <1>2, <1>7, <2>1, AppendProperties
  <2> QED BY <2>2, LenProperties
<1>12. ToSet(versions') = ToSet(versions) \union {stored} /\ ToSet(versions) \subseteq InUse
  <2>1. ToSet(versions') = {versions'[v] : v \in 1..(n + 1)}
    BY <1>11 DEF ToSet
  <2>2. ToSet(versions) = {versions[v] : v \in 1..n}
    BY <1>1 DEF ToSet
  <2>3. ToSet(versions') \subseteq ToSet(versions) \union {stored}
    BY <1>1, <1>11, <2>1, <2>2
  <2>4. ToSet(versions) \union {stored} \subseteq ToSet(versions')
    BY <1>1, <1>11, <2>1, <2>2
  <2> QED BY <2>3, <2>4 DEF InUse
<1>13. /\ \A d \in Clients \ {c} : Holds(d)' = Holds(d)
       /\ \A d \in Clients : Holds(d) \subseteq InUse /\ Holds(d) \subseteq Objects
       /\ Holds(c)' = {result} /\ result \in Holds(c)
  <2>1. \A d \in Clients \ {c} : Holds(d)' = Holds(d)
    BY <1>9 DEF Holds
  <2>2. \A d \in Clients : Holds(d) \subseteq InUse
    BY DEF Holds, InUse
  <2>3. \A d \in Clients : Holds(d) \subseteq Objects
    BY DEF Holds, TypeOK, Client
  <2>4. Holds(c)' = {result} /\ result \in Holds(c)
    BY <1>4, <1>10 DEF Holds
  <2> QED BY <2>1, <2>2, <2>3, <2>4
<1>14. NoSharing'
  <2>1. IsInjective(versions')
    <3> SUFFICES ASSUME NEW v \in 1..(n + 1), NEW w \in 1..(n + 1), versions'[v] = versions'[w]
                 PROVE  v = w
      BY <1>11, Zenon DEF IsInjective
    <3>1. \A u \in 1..n : versions'[u] \in InUse
      BY <1>1, <1>11, <1>12 DEF ToSet
    <3>2. CASE v \in 1..n /\ w \in 1..n
      BY <1>1, <1>11, <3>2 DEF NoSharing, IsInjective
    <3>3. CASE v = n + 1 \/ w = n + 1
      <4>1. \A u \in 1..n : versions'[u] # stored
        BY <3>1, <1>7
      <4> QED BY <4>1, <3>3, <1>1, <1>11
    <3> QED BY <3>2, <3>3, <1>1
  <2>2. \A d \in Clients : Holds(d)' \intersect ToSet(versions') = {}
    <3>1. \A d \in Clients : Holds(d) \intersect ToSet(versions) = {}
      BY DEF NoSharing
    <3>2. \A d \in Clients : Holds(d)' \subseteq Holds(d)
      BY <1>13
    <3> QED BY <3>1, <3>2, <1>7, <1>12, <1>13
  <2>3. \A d \in Clients : (client[d].frozen \in Holds(d) => client[d].frozen # client[d].owns)'
    <3>1. \A d \in Clients \ {c} : (client[d].frozen \in Holds(d) => client[d].frozen # client[d].owns)'
      BY <1>9, <1>13 DEF NoSharing
    <3>2. (client[c].frozen \in Holds(c) => client[c].frozen # client[c].owns)'
      BY <1>10 DEF Holds
    <3> QED BY <3>1, <3>2
  <2>4. \A d, e \in Clients : d # e => Holds(d)' \intersect Holds(e)' = {}
    <3>1. \A d, e \in Clients : d # e => Holds(d) \intersect Holds(e) = {}
      BY DEF NoSharing
    <3>2. \A d \in Clients : Holds(d)' \subseteq Holds(d)
      BY <1>13
    <3> QED BY <3>1, <3>2
  <2> QED BY <2>1, <2>2, <2>3, <2>4 DEF NoSharing
<1>15. \A o \in Objects : o \in InUse' /\ o # stored /\ o # result => heap'[o] = heap[o]
  BY <1>2, <1>8
<1>16. heap'[stored] = snapshot /\ heap'[result] = snapshot
  <2>1. stored \in InUse' /\ result \in InUse'
    BY <1>10, <1>12 DEF InUse
  <2> QED BY <1>2, <1>5, <1>7, <1>8, <2>1
<1>17. heap' \in [Objects -> Definition \union {Blank}]
  BY <1>2, <1>8
<1>18. \A v \in 1..n : heap'[versions[v]] = heap[versions[v]]
  <2> SUFFICES ASSUME NEW v \in 1..n PROVE heap'[versions[v]] = heap[versions[v]]
    OBVIOUS
  <2>1. versions[v] \in ToSet(versions) /\ versions[v] \in Objects
    BY <1>1, VersionsDomain DEF ToSet
  <2>2. versions[v] \in InUse' /\ versions[v] \in InUse
    BY <2>1, <1>12 DEF InUse
  <2>3. versions[v] # result
    BY <2>1, <1>13 DEF NoSharing
  <2> QED BY <2>1, <2>2, <2>3, <1>7, <1>15
<1>19. Keeps
  BY <1>1, <1>11, <1>18 DEF Keeps
<1>20. OwnershipInv' /\ Len(versions') <= MaxVersions
  <2>1. Len(versions') <= MaxVersions
    BY <1>1, <1>11, PublicationAssumption
  <2>2. TypeOK'
    BY <1>1, <1>9, <1>11, <1>17 DEF TypeOK
  <2> QED BY <2>1, <2>2, <1>14 DEF OwnershipInv
<1>21. ASSUME NEW d \in Clients PROVE CallInv(d)'
  <2>1. CASE d = c
    BY <2>1, <1>10 DEF CallInv
  <2>2. CASE d # c
    <3>1. \A o \in Holds(d) : heap'[o] = heap[o]
      <4> SUFFICES ASSUME NEW o \in Holds(d) PROVE heap'[o] = heap[o]
        OBVIOUS
      <4>1. o \in InUse /\ o \in Objects /\ o \in Holds(d)'
        BY <1>13, <2>2
      <4>2. o \in InUse'
        BY <4>1 DEF Holds, InUse
      <4>3. o # result
        BY <1>13, <2>2 DEF NoSharing
      <4> QED BY <4>1, <4>2, <4>3, <1>7, <1>15
    <3>2. CallInv(d) /\ client'[d] = client[d] /\ DOMAIN versions \subseteq DOMAIN versions'
      BY <1>1, <1>9, <1>11, <2>2 DEF PubInv
    <3>3. registry \subseteq registry'
      BY <1>1
    <3> QED BY <3>1, <3>2, <3>3, <1>19, CallStays
  <2> QED BY <2>1, <2>2
<1>22. UsedInv'
  <2> SUFFICES ASSUME NEW o \in InUse' \ {NoObject} PROVE heap'[o] \in Definition
    BY DEF UsedInv
  <2>1. o \in ToSet(versions') \/ \E d \in Clients : o \in Holds(d)'
    BY DEF InUse, Holds
  <2>2. CASE o = stored \/ o = result
    BY <2>2, <1>6, <1>16
  <2>3. CASE o # stored /\ o # result
    <3>1. o \in ToSet(versions) \/ \E d \in Clients : o \in Holds(d)
      BY <2>1, <2>3, <1>12, <1>13
    <3>2. o \in InUse /\ o \in Objects
      BY <3>1, <1>12, <1>13, VersionsDomain
    <3>3. heap[o] \in Definition
      BY <3>2 DEF PubInv, UsedInv
    <3> QED BY <2>3, <3>2, <3>3, <1>15
  <2> QED BY <2>2, <2>3
<1>23. PublishedStaysExecutable'
  <2> SUFFICES ASSUME NEW v \in 1..(n + 1)
               PROVE  /\ heap'[versions'[v]].version = v
                      /\ ToSet(heap'[versions'[v]].plan) \subseteq registry'
    BY <1>11 DEF PublishedStaysExecutable, Executable
  <2>1. CASE v = n + 1
    <3>1. heap'[versions'[v]] = snapshot
      BY <2>1, <1>11, <1>16
    <3> QED BY <2>1, <3>1, <1>1, <1>4, <1>6 DEF Executable
  <2>2. CASE v \in 1..n
    <3>1. heap'[versions'[v]] = heap[versions[v]]
      BY <2>2, <1>11, <1>18
    <3>2. heap[versions[v]].version = v /\ Executable(heap[versions[v]])
      BY <2>2, <1>1 DEF PubInv, PublishedStaysExecutable
    <3> QED BY <3>1, <3>2, <1>1 DEF Executable
  <2> QED BY <2>1, <2>2, <1>1
<1>24. StartedAsAsked'
  <2>1. started # Nothing => /\ started.asked \in 1..n
                             /\ started.asked = started.version
                             /\ heap[versions[started.asked]] =
                                  [version |-> started.version, plan |-> started.plan]
    BY <1>1 DEF PubInv, StartedAsAsked
  <2> QED BY <2>1, <1>1, <1>11, <1>18 DEF StartedAsAsked
<1> QED
  BY <1>19, <1>20, <1>21, <1>22, <1>23, <1>24 DEF PubInv

\* An instance runs the frozen copy of the version that was asked for.
LEMMA StartSound ==
  ASSUME PubInv, NEW c \in Clients, Start(c)
  PROVE  PubInv' /\ Keeps
<1> DEFINE me == client[c]
<1>1. /\ me.pc = "start" /\ client' = Returned(c, me.owns) /\ Collect(heap)
      /\ started' = [asked |-> me.asked, version |-> heap[me.frozen].version,
                     plan |-> heap[me.frozen].plan]
      /\ UNCHANGED <<registry, versions>>
  BY DEF Start
<1>2. me.asked \in DOMAIN versions /\ heap[me.frozen] = heap[versions[me.asked]]
  BY <1>1 DEF PubInv, CallInv
<1>3. Starts
  BY <1>1, <1>2 DEF Starts
<1> QED BY <1>1, <1>3, EndSound

\* Each step preserves the invariant and every version that exists.
LEMMA NextSound ==
  ASSUME PubInv, [Next]_vars
  PROVE  PubInv' /\ Keeps
<1> registry \in SUBSET Kinds
  BY DEF PubInv, OwnershipInv, TypeOK
<1>1. CASE UNCHANGED vars
  BY <1>1, RegisterSound DEF vars
<1>2. CASE \E kind \in Kinds : Register(kind)
  BY <1>2, RegisterSound DEF Register
<1>3. ASSUME NEW c \in Clients, Host(c) PROVE PubInv' /\ Keeps
  <2>1. ASSUME NEW plan \in Plans, Compose(c, plan) PROVE PubInv' /\ Keeps
    <3>1. [version |-> 0, plan |-> plan] \in Definition
      BY PublicationAssumption DEF Definition
    <3> QED BY <2>1, <3>1, OwnNewSound DEF Compose
  <2>2. ASSUME NEW plan \in Plans, Scribble(c, plan) PROVE PubInv' /\ Keeps
    BY <2>2, ScribbleSound
  <2>3. CASE Drop(c)
    BY <2>3, EndSound DEF Drop, Starts
  <2> QED BY <1>3, <2>1, <2>2, <2>3 DEF Host
<1>4. ASSUME NEW c \in Clients, Call(c) PROVE PubInv' /\ Keeps
  <2>1. CASE Publish(c)
    <3>1. /\ client[c].pc = "idle" /\ client[c].owns # NoObject /\ Freeze(c, client[c].owns, 0)
          /\ UNCHANGED <<registry, versions, started>>
      BY <2>1 DEF Publish
    <3>2. /\ client[c].owns \in Objects /\ client[c].owns \in InUse
          /\ heap[client[c].owns] \in Definition /\ 0 \in 0..MaxVersions
      BY <3>1, ClientType, PublicationAssumption
    <3> QED BY <3>1, <3>2, FreezeSound
  <2>2. CASE PrepareNode(c)
    BY <2>2, PrepareNodeSound
  <2>3. CASE Compiled(c)
    BY <2>3, CompiledSound
  <2>4. CASE CreateVersion(c)
    BY <2>4, CreateVersionSound
  <2>5. ASSUME NEW version, Load(c, version) PROVE PubInv' /\ Keeps
    BY <2>5, StoredIsDefinition, OwnNewSound DEF Load
  <2>6. ASSUME NEW version, StartPublished(c, version) PROVE PubInv' /\ Keeps
    <3>1. /\ client[c].pc = "idle" /\ version \in DOMAIN versions
          /\ Freeze(c, versions[version], version) /\ UNCHANGED <<registry, versions, started>>
      BY <2>6 DEF StartPublished
    <3>2. /\ versions[version] \in Objects /\ versions[version] \in InUse
          /\ heap[versions[version]] \in Definition /\ version \in 1..MaxVersions
      BY <3>1, StoredIsDefinition
    <3>3. version \in 0..MaxVersions /\ version # 0
      BY <3>2, PublicationAssumption
    <3> QED BY <3>1, <3>2, <3>3, FreezeSound
  <2>7. CASE LoadLatest(c)
    BY <2>5, <2>7 DEF LoadLatest
  <2>8. CASE Start(c)
    BY <2>8, StartSound
  <2>9. CASE Fail(c)
    BY <2>9, EndSound DEF Fail, Starts
  <2> QED BY <1>4, <2>1, <2>2, <2>3, <2>4, <2>5, <2>6, <2>7, <2>8, <2>9 DEF Call
<1> QED BY <1>1, <1>2, <1>3, <1>4 DEF Next

-----------------------------------------------------------------------------
(* The theorems. *)

\* PubInv always holds.
THEOREM PublicationInvariance == Spec => []PubInv
<1>1. Init => PubInv
  <2> SUFFICES ASSUME Init PROVE PubInv
    OBVIOUS
  <2>1. /\ registry = {} /\ versions = << >> /\ started = Nothing
        /\ heap = [o \in Objects |-> Blank] /\ client = [c \in Clients |-> Idle]
    BY DEF Init
  <2>2. Idle \in Client /\ Idle.owns = NoObject /\ Idle.frozen = NoObject /\ Idle.pc = "idle"
    BY PublicationAssumption DEF Idle, Client
  <2>3. versions \in Seq(Objects) /\ DOMAIN versions = {} /\ Len(versions) = 0
    BY <2>1
  <2>4. TypeOK
    BY <2>1, <2>2, <2>3 DEF TypeOK
  <2>5. /\ \A c \in Clients : Holds(c) = {}
        /\ ToSet(versions) = {} /\ InUse \subseteq {NoObject}
    BY <2>1, <2>2, <2>3 DEF Holds, ToSet, InUse
  <2>6. NoSharing
    BY <2>3, <2>5 DEF NoSharing, IsInjective
  <2>7. \A c \in Clients : CallInv(c)
    BY <2>1, <2>2 DEF CallInv
  <2> QED BY <2>1, <2>3, <2>4, <2>5, <2>6, <2>7, PublicationAssumption
          DEF PubInv, OwnershipInv, UsedInv, PublishedStaysExecutable, StartedAsAsked
<1>2. PubInv /\ [Next]_vars => PubInv'
  BY NextSound
<1> QED BY <1>1, <1>2, PTL DEF Spec

\* No two of the store, the callers and the compilations in progress share a
\* Definition (cloneDefinition of definition.go).
THEOREM NobodyShares == Spec => []OwnershipInv
<1>1. PubInv => OwnershipInv
  BY DEF PubInv
<1> QED BY <1>1, PublicationInvariance, PTL

\* What was published stays executable under its own number (publication.go
\* Publish).
THEOREM PublishedIsExecutable == Spec => []PublishedStaysExecutable
<1>1. PubInv => PublishedStaysExecutable
  BY DEF PubInv
<1> QED BY <1>1, PublicationInvariance, PTL

\* An instance runs the version that was asked for (engine.go StartPublished).
THEOREM AskedIsStarted == Spec => []StartedAsAsked
<1>1. PubInv => StartedAsAsked
  BY DEF PubInv
<1> QED BY <1>1, PublicationInvariance, PTL

\* A version that exists never changes (publication.go MemoryDefinitionStore).
THEOREM PublicationOnlyAppends == Spec => VersionsAreImmutable
<1>1. PubInv /\ PubInv' /\ Keeps =>
        IsPrefix(Published(versions, heap), Published(versions', heap'))
  <2> SUFFICES ASSUME PubInv, PubInv', Keeps
               PROVE  IsPrefix(Published(versions, heap), Published(versions', heap'))
    OBVIOUS
  <2> DEFINE n == Len(versions)
             m == Len(versions')
             p == Published(versions, heap)
             q == Published(versions', heap')
  <2>1. n \in Nat /\ DOMAIN versions = 1..n /\ m \in Nat /\ DOMAIN versions' = 1..m /\ n <= m
    <3>1. versions \in Seq(Objects) /\ versions' \in Seq(Objects)
      BY DEF PubInv, OwnershipInv, TypeOK
    <3> QED BY <3>1, LenProperties DEF Keeps
  <2>2. p = [v \in 1..n |-> heap[versions[v]]] /\ q = [v \in 1..m |-> heap'[versions'[v]]]
    BY <2>1 DEF Published
  <2>3. \A v \in 1..n : q[v] = p[v]
    BY <2>1, <2>2 DEF Keeps
  <2>4. Len(p) = n /\ Len(q) = m
    BY <2>1, <2>2
  <2>5. \A v \in 1..n : p[v] \in {p[u] : u \in 1..n} /\ q[v] \in {p[u] : u \in 1..n}
    BY <2>3
  <2> HIDE DEF p, q, n, m
  <2>6. SubSeq(p, 1, n) = SubSeq(q, 1, n)
    <3> DEFINE S == {p[u] : u \in 1..n}
    <3>1. 1 \in Int /\ n \in Int /\ n - 1 + 1 = n /\ (IF 1 <= n THEN n - 1 + 1 ELSE 0) = n
      BY <2>1
    <3>2. \A v \in 1..n : p[v] \in S /\ q[v] \in S
      BY <2>5
    <3> HIDE DEF S
    <3>3. /\ SubSeq(p, 1, n) \in Seq(S) /\ Len(SubSeq(p, 1, n)) = n
          /\ \A v \in 1..n : SubSeq(p, 1, n)[v] = p[v + 1 - 1]
      BY <3>1, <3>2, SubSeqProperties
    <3>4. /\ SubSeq(q, 1, n) \in Seq(S) /\ Len(SubSeq(q, 1, n)) = n
          /\ \A v \in 1..n : SubSeq(q, 1, n)[v] = q[v + 1 - 1]
      BY <3>1, <3>2, SubSeqProperties
    <3>5. /\ SubSeq(p, 1, n) \in Seq(S) /\ SubSeq(q, 1, n) \in Seq(S)
          /\ Len(SubSeq(p, 1, n)) = n /\ Len(SubSeq(q, 1, n)) = n
          /\ \A v \in 1..n : SubSeq(p, 1, n)[v] = p[v] /\ SubSeq(q, 1, n)[v] = q[v]
      BY <3>3, <3>4
    <3> QED BY <2>3, <3>5, SeqEqual
  <2> QED BY <2>1, <2>4, <2>6 DEF IsPrefix, p, q
<1>2. PubInv /\ [Next]_vars => Keeps
  BY NextSound
<1>3. PubInv /\ PubInv' /\ [Next]_vars =>
        [IsPrefix(Published(versions, heap), Published(versions', heap'))]_<<versions, heap>>
  BY <1>1, <1>2
<1> QED BY <1>3, PublicationInvariance, PTL DEF Spec, VersionsAreImmutable
=============================================================================
