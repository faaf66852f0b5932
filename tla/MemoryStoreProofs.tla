--------------------------- MODULE MemoryStoreProofs ---------------------------
(***************************************************************************)
(* Proofs about MemoryStore: nobody shares an Instance, the lock excludes, *)
(* and the adapter implements StorePort, for any goroutines, contents and  *)
(* addresses.  What is assumed of the constants is a hypothesis of every   *)
(* theorem, because MemoryStore is only used through instances.            *)
(***************************************************************************)
EXTENDS MemoryStore, FiniteSetTheorems, SequenceTheorems, TLAPS

CONSTANT Values      \* contents that snapshots of the port may have

Port == INSTANCE StorePort WITH
  Bodies <- Values, Records <- Values, Absent <- NoObject, durable <- Durable, call <- Calls

\* There are addresses enough for the entry, and for what every goroutine owns
\* and is cloning; nil is neither an address nor a snapshot.
MemoryAssumption ==
  /\ IsFiniteSet(Clients)
  /\ IsFiniteSet(Objects)
  /\ Cardinality(Objects) > 2 * Cardinality(Clients)
  /\ NoObject \notin Objects
  /\ NoObject \notin [version : Nat, audit : Seq(Values), body : Values]
  /\ NewBody \in Bodies
  /\ Bodies \subseteq Values
  /\ MaxVersion \in Nat

\* Where a call is in its life, what it holds of the lock and of the heap.
CallInv(c) ==
  LET me == client[c] IN
  /\ me.answer = "" <=> me.pc # "unlock"
  /\ me.fresh # NoObject <=> me.pc = "write"
  /\ me.pc \in {"idle", "spin"} => c \notin readers /\ c \notin writer
  /\ c \in readers => me.op = "load"
  /\ c \in writer => me.op # "load"
  /\ me.pc \in {"spin", "check", "write"} => (me.op = "load" <=> me.owns = NoObject)
  /\ me.pc = "unlock" => (me.owns = NoObject <=> me.op = "load" /\ me.answer # "ok")

\* What a clone was made of is still so when the call takes it.
CloneInv(c) ==
  LET me == client[c] IN
  me.pc = "write" =>
    /\ me.op = "create" <=> entry = NoObject
    /\ me.op = "load" => heap[me.fresh] = heap[entry]
    /\ me.op # "load" => heap[me.fresh] = heap[me.owns]
    /\ me.op = "save" => /\ heap[entry].version = me.expected
                         /\ IsPrefix(heap[entry].audit, heap[me.owns].audit)

\* The inductive invariant.
MemInv == HeapInv /\ \A c \in Clients : CallInv(c) /\ CloneInv(c)

-----------------------------------------------------------------------------
(* The allocator.  An address in use is the entry's, or one that a client    *)
(* owns or is cloning; a client with a slot to fill has one that holds       *)
(* nothing.                                                                  *)

Slots == {"owns", "fresh"} \X Clients
Held(s) == IF s[1] = "owns" THEN client[s[2]].owns ELSE client[s[2]].fresh

\* There are two slots for every client.
LEMMA SlotsCount ==
  ASSUME MemoryAssumption
  PROVE  IsFiniteSet(Slots) /\ Cardinality(Slots) = 2 * Cardinality(Clients)
<1>1. IsFiniteSet({"owns"}) /\ Cardinality({"owns"}) = 1 /\ "fresh" \notin {"owns"}
  BY FS_Singleton
<1>2. /\ IsFiniteSet({"owns"} \union {"fresh"})
      /\ Cardinality({"owns"} \union {"fresh"}) = 2
  BY <1>1, FS_AddElement
<1>3. {"owns", "fresh"} = {"owns"} \union {"fresh"}
  OBVIOUS
<1>4. IsFiniteSet({"owns", "fresh"}) /\ Cardinality({"owns", "fresh"}) = 2
  BY <1>2, <1>3
<1>5. IsFiniteSet(Clients)
  BY DEF MemoryAssumption
<1> QED
  BY <1>4, <1>5, FS_Product DEF Slots

\* While a slot is empty, an address is free.
LEMMA Room ==
  ASSUME MemoryAssumption, NEW s \in Slots, Held(s) = NoObject
  PROVE  Unused \in Objects /\ Unused \notin InUse /\ Unused # NoObject
<1>1. \E o \in Objects : o \notin InUse
  <2> SUFFICES ASSUME Objects \subseteq InUse PROVE FALSE
    OBVIOUS
  <2> DEFINE g(t) == IF t = s THEN entry ELSE Held(t)
  <2>1. \A o \in Objects : \E t \in Slots : g(t) = o
    <3> SUFFICES ASSUME NEW o \in Objects PROVE \E t \in Slots : g(t) = o
      OBVIOUS
    <3>1. o # NoObject /\ o \in InUse
      BY DEF MemoryAssumption
    <3>2. CASE o = entry
      BY <3>2
    <3>3. CASE \E c \in Clients : client[c].owns = o
      <4>1. PICK c \in Clients : client[c].owns = o
        BY <3>3
      <4>2. <<"owns", c>> \in Slots /\ Held(<<"owns", c>>) = o
        BY <4>1 DEF Slots, Held
      <4> QED BY <3>1, <4>2
    <3>4. CASE \E c \in Clients : client[c].fresh = o
      <4>1. PICK c \in Clients : client[c].fresh = o
        BY <3>4
      <4>2. <<"fresh", c>> \in Slots /\ Held(<<"fresh", c>>) = o
        BY <4>1 DEF Slots, Held
      <4> QED BY <3>1, <4>2
    <3> QED BY <3>1, <3>2, <3>3, <3>4 DEF InUse
  <2> DEFINE f == [o \in Objects |-> CHOOSE t \in Slots : g(t) = o]
  <2>2. \A o \in Objects : f[o] \in Slots /\ g(f[o]) = o
    BY <2>1
  <2>3. f \in [Objects -> Slots]
    BY <2>2
  <2>4. \A o, p \in Objects : f[o] = f[p] => o = p
    <3> SUFFICES ASSUME NEW o \in Objects, NEW p \in Objects, f[o] = f[p] PROVE o = p
      OBVIOUS
    <3>1. g(f[o]) = o /\ g(f[p]) = p
      BY <2>2
    <3> QED BY <3>1
  <2> HIDE DEF f
  <2>5. IsFiniteSet(Objects) /\ IsFiniteSet(Slots) /\ Cardinality(Slots) < Cardinality(Objects)
    <3>1. /\ IsFiniteSet(Objects) /\ Cardinality(Objects) > 2 * Cardinality(Clients)
          /\ Cardinality(Objects) \in Nat /\ Cardinality(Clients) \in Nat
      BY FS_CardinalityType DEF MemoryAssumption
    <3> QED BY <3>1, SlotsCount
  <2>6. PICK o, p \in Objects : o # p /\ f[o] = f[p]
    BY <2>3, <2>5, FS_PigeonHole
  <2> QED BY <2>4, <2>6
<1>2. Unused \in Objects /\ Unused \notin InUse
  BY <1>1 DEF Unused
<1> QED
  BY <1>2 DEF MemoryAssumption

-----------------------------------------------------------------------------
(* Types and what is held. *)

\* What a client's record is made of.
LEMMA ClientType ==
  ASSUME MemoryAssumption, MemInv, NEW c \in Clients
  PROVE  /\ client \in [Clients -> Client] /\ client[c] \in Client
         /\ client[c].owns \in Objects \union {NoObject}
         /\ client[c].fresh \in Objects \union {NoObject}
         /\ entry \in Objects \union {NoObject}
         /\ heap \in [Objects -> Snapshot]
         /\ Holds(c) \subseteq Objects /\ Holds(c) \subseteq InUse /\ entry \in InUse
         /\ client[c].owns \in InUse /\ client[c].fresh \in InUse
         /\ CallInv(c) /\ CloneInv(c)
BY DEF MemInv, HeapInv, TypeOK, Client, InUse, Holds

\* Two clients hold different addresses, and none the entry's.
LEMMA Apart ==
  ASSUME MemInv, NEW c \in Clients
  PROVE  /\ entry \notin Holds(c)
         /\ client[c].fresh # NoObject => client[c].fresh # client[c].owns
         /\ \A d \in Clients \ {c} : Holds(d) \intersect Holds(c) = {}
BY DEF MemInv, HeapInv, NoSharing, Holds

\* A step of one call that leaves the map entry and what the others hold alone.
Frame(c) ==
  /\ entry' = entry
  /\ \A d \in Clients \ {c} : /\ client'[d] = client[d]
                              /\ d \in readers' <=> d \in readers
                              /\ d \in writer' <=> d \in writer
                              /\ \A o \in Holds(d) : heap'[o] = heap[o]
  /\ entry # NoObject => heap'[entry] = heap[entry]

\* What such a step must establish of its own call.
Own(c) ==
  /\ \A o \in Holds(c)' : o \in Holds(c) \/ o \notin InUse
  /\ client'[c].fresh # NoObject => client'[c].fresh # client'[c].owns
  /\ CallInv(c)'
  /\ CloneInv(c)'

\* The others still satisfy their part, and look the same to the port.
LEMMA OthersStay ==
  ASSUME MemoryAssumption, MemInv, NEW c \in Clients, Frame(c), NEW d \in Clients \ {c}
  PROVE  CallInv(d)' /\ CloneInv(d)' /\ Holds(d)' = Holds(d) /\ Calls'[d] = Calls[d]
<1>1. /\ client'[d] = client[d] /\ entry' = entry
      /\ d \in readers' <=> d \in readers
      /\ d \in writer' <=> d \in writer
      /\ client[d].owns # NoObject => heap'[client[d].owns] = heap[client[d].owns]
      /\ client[d].fresh # NoObject => heap'[client[d].fresh] = heap[client[d].fresh]
      /\ entry # NoObject => heap'[entry] = heap[entry]
  BY DEF Frame, Holds
<1>2. CallInv(d) /\ CloneInv(d) /\ client[d] \in Client
  BY ClientType
<1>3. CallInv(d)' /\ Holds(d)' = Holds(d)
  BY <1>1, <1>2 DEF CallInv, Holds
<1>4. CloneInv(d)'
  BY <1>1, <1>2 DEF CallInv, CloneInv, Client
<1>5. Calls'[d] = Calls[d]
  BY <1>1, <1>2 DEF CallInv, Calls, Outcome, Request, Client
<1> QED
  BY <1>3, <1>4, <1>5

\* A step in a frame keeps the invariant, and the store is what it was.
LEMMA FrameStep ==
  ASSUME MemoryAssumption, MemInv, NEW c \in Clients, Frame(c), Own(c),
         TypeOK', MutualExclusion'
  PROVE  MemInv' /\ Durable' = Durable /\ \A d \in Clients \ {c} : Calls'[d] = Calls[d]
<1>1. \A d \in Clients \ {c} : CallInv(d)' /\ CloneInv(d)' /\ Holds(d)' = Holds(d) /\ Calls'[d] = Calls[d]
  BY OthersStay
<1>2. entry' = entry /\ Durable' = Durable
  BY DEF Frame, Durable
<1>3. \A d \in Clients : Holds(d) \subseteq InUse /\ entry \in InUse /\ entry \notin Holds(d)
  BY ClientType, Apart
<1>4. \A o \in Holds(c)' : o \in Holds(c) \/ o \notin InUse
  BY DEF Own
<1>5. \A d \in Clients \ {c} : Holds(c)' \intersect Holds(d)' = {} /\ Holds(d)' \intersect Holds(c)' = {}
  <2> SUFFICES ASSUME NEW d \in Clients \ {c}, NEW o, o \in Holds(c)', o \in Holds(d)' PROVE FALSE
    OBVIOUS
  <2>1. o \in Holds(d) /\ o \in InUse /\ o \in Holds(c)
    BY <1>1, <1>3, <1>4
  <2> QED BY <2>1, Apart
<1>6. \A d, e \in Clients : d # e => Holds(d)' \intersect Holds(e)' = {}
  <2> SUFFICES ASSUME NEW d \in Clients, NEW e \in Clients, d # e PROVE Holds(d)' \intersect Holds(e)' = {}
    OBVIOUS
  <2>1. CASE d = c \/ e = c
    BY <2>1, <1>5
  <2>2. CASE d # c /\ e # c
    <3>1. Holds(d)' = Holds(d) /\ Holds(e)' = Holds(e)
      BY <2>2, <1>1
    <3> QED BY <3>1, Apart
  <2> QED BY <2>1, <2>2
<1>7. \A d \in Clients : entry' \notin Holds(d)'
  BY <1>1, <1>2, <1>3, <1>4
<1>8. \A d \in Clients : client'[d].fresh # NoObject => client'[d].fresh # client'[d].owns
  <2>1. \A d \in Clients \ {c} : client'[d] = client[d]
    BY DEF Frame
  <2>2. client'[c].fresh # NoObject => client'[c].fresh # client'[c].owns
    BY DEF Own
  <2> QED BY <2>1, <2>2, Apart
<1>9. NoSharing'
  BY <1>6, <1>7, <1>8 DEF NoSharing, Holds
<1> QED
  BY <1>1, <1>2, <1>9 DEF MemInv, HeapInv, Own

-----------------------------------------------------------------------------
(* Steps the port does not see. *)

\* What the port sees of a call it sees unchanged.
LEMMA Unseen ==
  ASSUME Durable' = Durable, \A d \in Clients : Calls'[d] = Calls[d]
  PROVE  UNCHANGED Port!vars
<1>1. Calls' = [d \in Clients |-> Calls'[d]] /\ Calls = [d \in Clients |-> Calls[d]]
  BY DEF Calls
<1>2. Calls' = Calls
  BY <1>1
<1> QED
  BY <1>2 DEF Port!vars

\* The caller gets a new Instance.
LEMMA ComposeStep ==
  ASSUME MemoryAssumption, MemInv, NEW c \in Clients, Compose(c)
  PROVE  MemInv' /\ UNCHANGED Port!vars
<1> DEFINE o == Unused
           new == [version |-> 1, audit |-> <<NewBody>>, body |-> NewBody]
           me == [client[c] EXCEPT !.owns = o]
<1>1. o \in Objects /\ o \notin InUse /\ o # NoObject
  <2>1. <<"owns", c>> \in Slots /\ Held(<<"owns", c>>) = NoObject
    BY DEF Compose, Slots, Held
  <2> QED BY <2>1, Room
<1>2. /\ heap' = [heap EXCEPT ![o] = new] /\ client' = [client EXCEPT ![c] = me]
      /\ entry' = entry /\ readers' = readers /\ writer' = writer
      /\ client[c].pc = "idle" /\ client[c].owns = NoObject
  BY DEF Compose
<1>3. client \in [Clients -> Client] /\ client[c] \in Client /\ heap \in [Objects -> Snapshot] /\ CallInv(c)
  BY ClientType
<1>4. new \in Snapshot
  BY DEF Snapshot, MemoryAssumption
<1>5. me \in Client
  BY <1>1, <1>3 DEF Client
<1>6. me.pc = "idle" /\ me.owns = o /\ me.fresh = client[c].fresh /\ me.answer = client[c].answer
  BY <1>2, <1>3 DEF Client
<1> HIDE DEF o, new, me
<1>7. client'[c] = me /\ \A d \in Clients \ {c} : client'[d] = client[d]
  BY <1>2, <1>3
<1>8. TypeOK'
  BY <1>1, <1>2, <1>3, <1>4, <1>5 DEF TypeOK, MemInv, HeapInv
<1>9. \A p \in Objects : p \in InUse => heap'[p] = heap[p]
  BY <1>1, <1>2, <1>3
<1>10. Frame(c)
  <2>1. \A d \in Clients : \A p \in Holds(d) : p \in InUse /\ p \in Objects
    BY ClientType
  <2>2. entry \in InUse /\ (entry # NoObject => entry \in Objects)
    BY ClientType
  <2> QED BY <2>1, <2>2, <1>2, <1>7, <1>9 DEF Frame
<1>11. client[c].fresh = NoObject /\ client[c].answer = "" /\ c \notin readers /\ c \notin writer
  BY <1>2, <1>3 DEF CallInv
<1>12. Own(c)
  BY <1>1, <1>2, <1>6, <1>7, <1>11 DEF Own, CallInv, CloneInv, Holds
<1>13. MutualExclusion'
  BY <1>2, <1>6, <1>7 DEF MutualExclusion, MemInv, HeapInv
<1>14. Calls'[c] = Calls[c]
  BY <1>2, <1>6, <1>7 DEF Calls
<1>15. MemInv' /\ Durable' = Durable /\ \A d \in Clients \ {c} : Calls'[d] = Calls[d]
  BY <1>8, <1>10, <1>12, <1>13, FrameStep
<1> QED
  BY <1>14, <1>15, Unseen

\* The caller writes to the Instance it owns.
LEMMA WriteStep ==
  ASSUME MemoryAssumption, MemInv, NEW c \in Clients, client[c].pc = "idle",
         client[c].owns # NoObject, NEW new \in Snapshot,
         heap' = [heap EXCEPT ![client[c].owns] = new],
         UNCHANGED <<entry, readers, writer, client>>
  PROVE  MemInv' /\ UNCHANGED Port!vars
<1> DEFINE o == client[c].owns
<1>1. /\ client \in [Clients -> Client] /\ heap \in [Objects -> Snapshot] /\ CallInv(c)
      /\ o \in Objects /\ o \in Holds(c)
  BY ClientType DEF Holds
<1>2. TypeOK'
  BY <1>1 DEF TypeOK, MemInv, HeapInv
<1>3. Frame(c)
  <2>1. \A d \in Clients \ {c} : o \notin Holds(d) /\ Holds(d) \subseteq Objects
    BY <1>1, Apart, ClientType
  <2>2. entry # o /\ (entry # NoObject => entry \in Objects)
    BY <1>1, Apart, ClientType
  <2> QED BY <2>1, <2>2, <1>1 DEF Frame
<1>4. Own(c)
  <2>1. CallInv(c)' /\ CloneInv(c)' /\ Holds(c)' = Holds(c)
    BY <1>1 DEF CallInv, CloneInv, Holds
  <2>2. client'[c].fresh # NoObject => client'[c].fresh # client'[c].owns
    BY Apart
  <2> QED BY <2>1, <2>2 DEF Own
<1>5. MutualExclusion'
  BY DEF MutualExclusion, MemInv, HeapInv
<1>6. Calls'[c] = Calls[c]
  BY DEF Calls
<1>7. MemInv' /\ Durable' = Durable /\ \A d \in Clients \ {c} : Calls'[d] = Calls[d]
  BY <1>2, <1>3, <1>4, <1>5, FrameStep
<1> QED
  BY <1>6, <1>7, Unseen

LEMMA EditStep ==
  ASSUME MemoryAssumption, MemInv, NEW c \in Clients, NEW body \in Bodies, Edit(c, body)
  PROVE  MemInv' /\ UNCHANGED Port!vars
<1> DEFINE o == client[c].owns
           new == [version |-> heap[o].version + 1, audit |-> Append(heap[o].audit, body), body |-> body]
<1>1. o \in Objects /\ heap \in [Objects -> Snapshot]
  BY ClientType DEF Edit
<1>2. new \in Snapshot
  BY <1>1 DEF Snapshot
<1>3. /\ heap' = [heap EXCEPT ![o] = new] /\ UNCHANGED <<entry, readers, writer, client>>
      /\ client[c].pc = "idle" /\ o # NoObject
  BY <1>1 DEF Edit
<1> QED
  BY <1>2, <1>3, WriteStep

LEMMA ScribbleStep ==
  ASSUME MemoryAssumption, MemInv, NEW c \in Clients, NEW body \in Bodies, Scribble(c, body)
  PROVE  MemInv' /\ UNCHANGED Port!vars
<1> DEFINE o == client[c].owns
           mid == [heap[o] EXCEPT !.audit = <<body>>]
           new == [mid EXCEPT !.body = body]
<1>1. o \in Objects /\ heap \in [Objects -> Snapshot] /\ heap[o] \in Snapshot
  BY ClientType DEF Scribble
<1>2. /\ heap' = [heap EXCEPT ![o] = new] /\ UNCHANGED <<entry, readers, writer, client>>
      /\ client[c].pc = "idle" /\ o # NoObject
  BY <1>1 DEF Scribble
<1>3. <<body>> \in Seq(Bodies)
  OBVIOUS
<1>4. mid \in Snapshot
  BY <1>1, <1>3 DEF Snapshot
<1> HIDE DEF mid
<1>5. new \in Snapshot
  BY <1>4 DEF Snapshot
<1> QED
  BY <1>2, <1>5, WriteStep

\* A step of a call that moves nothing on the heap and nothing it holds.
LEMMA QuietStep ==
  ASSUME MemoryAssumption, MemInv, NEW c \in Clients, NEW me \in Client,
         client' = [client EXCEPT ![c] = me],
         me.owns = client[c].owns, me.fresh = client[c].fresh,
         UNCHANGED <<heap, entry>>,
         readers' \subseteq Clients, writer' \subseteq Clients,
         \A d \in Clients \ {c} : /\ d \in readers' <=> d \in readers
                                  /\ d \in writer' <=> d \in writer,
         MutualExclusion', CallInv(c)', CloneInv(c)'
  PROVE  /\ MemInv' /\ Durable' = Durable
         /\ \A d \in Clients \ {c} : Calls'[d] = Calls[d]
<1>1. client \in [Clients -> Client] /\ heap \in [Objects -> Snapshot] /\ entry \in Objects \union {NoObject}
  BY ClientType
<1>2. client'[c] = me /\ \A d \in Clients \ {c} : client'[d] = client[d]
  BY <1>1
<1>3. TypeOK'
  BY <1>1 DEF TypeOK
<1>4. Frame(c)
  BY <1>2 DEF Frame
<1>5. Own(c)
  BY <1>2, Apart DEF Own, Holds
<1> QED
  BY <1>3, <1>4, <1>5, FrameStep

LEMMA InvokeStep ==
  ASSUME MemoryAssumption, MemInv, NEW c \in Clients, NEW op \in {"create", "load", "save"},
         NEW expected \in Nat, Invoke(c, op, expected)
  PROVE  MemInv' /\ Port!Request(c)
<1> DEFINE me == [client[c] EXCEPT !.pc = "spin", !.op = op, !.expected = expected]
<1>1. /\ client \in [Clients -> Client] /\ client[c] \in Client /\ CallInv(c)
      /\ heap \in [Objects -> Snapshot]
  BY ClientType
<1>2. /\ client' = [client EXCEPT ![c] = me] /\ UNCHANGED <<heap, entry, readers, writer>>
      /\ client[c].pc = "idle" /\ (op = "load" <=> client[c].owns = NoObject)
  BY DEF Invoke
<1>3. /\ me \in Client /\ me.pc = "spin" /\ me.op = op /\ me.expected = expected
      /\ me.owns = client[c].owns /\ me.fresh = client[c].fresh /\ me.answer = client[c].answer
  BY <1>1 DEF Client
<1> HIDE DEF me
<1>4. client'[c] = me /\ \A d \in Clients \ {c} : client'[d] = client[d]
  BY <1>1, <1>2
<1>5. MutualExclusion'
  BY <1>2, <1>3, <1>4 DEF MutualExclusion, MemInv, HeapInv
<1>6. CallInv(c)' /\ CloneInv(c)'
  BY <1>1, <1>2, <1>3, <1>4 DEF CallInv, CloneInv
<1>7. readers \subseteq Clients /\ writer \subseteq Clients
  BY DEF MemInv, HeapInv, TypeOK
<1>8. MemInv' /\ Durable' = Durable /\ \A d \in Clients \ {c} : Calls'[d] = Calls[d]
  BY <1>2, <1>3, <1>5, <1>6, <1>7, QuietStep
<1>9. Calls[c] = Port!None
  BY <1>2 DEF Calls, Port!None
<1>10. Calls'[c] = Request(c)'
  BY <1>3, <1>4 DEF Calls
<1>11. Request(c)' \in Port!Requests
  <2>1. client'[c].op = op /\ client'[c].expected = expected /\ heap' = heap /\ client'[c].owns = client[c].owns
    BY <1>2, <1>3, <1>4
  <2>2. op # "load" => heap[client[c].owns] \in Port!Snapshot
    <3>1. op # "load" => client[c].owns \in Objects
      BY <1>1, <1>2 DEF Client
    <3>2. \A s \in Snapshot : s \in Port!Snapshot
      BY DEF Snapshot, Port!Snapshot, MemoryAssumption
    <3> QED BY <3>1, <3>2, <1>1
  <2>3. Request(c)' = [state |-> "pending", op |-> op, expected |-> expected,
                       snapshot |-> IF op = "load" THEN NoObject ELSE heap[client[c].owns]]
    BY <2>1 DEF Request
  <2> QED BY <2>2, <2>3 DEF Port!Requests, Port!Ops
<1>12. Calls' = [Calls EXCEPT ![c] = Calls'[c]]
  BY <1>8 DEF Calls
<1> QED
  BY <1>8, <1>9, <1>10, <1>11, <1>12 DEF Port!Request

LEMMA CancelStep ==
  ASSUME MemoryAssumption, MemInv, NEW c \in Clients, Cancel(c)
  PROVE  MemInv' /\ UNCHANGED Port!vars
<1> DEFINE me == [client[c] EXCEPT !.canceled = TRUE]
<1>1. client \in [Clients -> Client] /\ client[c] \in Client /\ CallInv(c) /\ CloneInv(c)
  BY ClientType
<1>2. client' = [client EXCEPT ![c] = me] /\ UNCHANGED <<heap, entry, readers, writer>>
  BY DEF Cancel
<1>3. /\ me \in Client /\ me.pc = client[c].pc /\ me.op = client[c].op
      /\ me.owns = client[c].owns /\ me.fresh = client[c].fresh
      /\ me.answer = client[c].answer /\ me.expected = client[c].expected
  BY <1>1 DEF Client
<1> HIDE DEF me
<1>4. client'[c] = me /\ \A d \in Clients \ {c} : client'[d] = client[d]
  BY <1>1, <1>2
<1>5. MutualExclusion'
  BY <1>2, <1>3, <1>4 DEF MutualExclusion, MemInv, HeapInv
<1>6. CallInv(c)' /\ CloneInv(c)'
  BY <1>1, <1>2, <1>3, <1>4 DEF CallInv, CloneInv
<1>7. readers \subseteq Clients /\ writer \subseteq Clients
  BY DEF MemInv, HeapInv, TypeOK
<1>8. MemInv' /\ Durable' = Durable /\ \A d \in Clients \ {c} : Calls'[d] = Calls[d]
  BY <1>2, <1>3, <1>5, <1>6, <1>7, QuietStep
<1>9. Calls'[c] = Calls[c]
  BY <1>2, <1>3, <1>4 DEF Calls, Outcome, Request
<1> QED
  BY <1>8, <1>9, Unseen

\* The lock is taken: alone by a writer, with other readers by a Load.
LEMMA AcquireStep ==
  ASSUME MemoryAssumption, MemInv, NEW c \in Clients, Acquire(c)
  PROVE  MemInv' /\ UNCHANGED Port!vars
<1> DEFINE me == [client[c] EXCEPT !.pc = "check"]
<1>1. client \in [Clients -> Client] /\ client[c] \in Client /\ CallInv(c)
  BY ClientType
<1>2. /\ client' = [client EXCEPT ![c] = me] /\ UNCHANGED <<heap, entry>>
      /\ client[c].pc = "spin" /\ (TryRLock(c) \/ TryLock(c))
  BY DEF Acquire
<1>3. /\ me \in Client /\ me.pc = "check" /\ me.op = client[c].op
      /\ me.owns = client[c].owns /\ me.fresh = client[c].fresh
      /\ me.answer = client[c].answer /\ me.expected = client[c].expected
  BY <1>1 DEF Client
<1> HIDE DEF me
<1>4. client'[c] = me /\ \A d \in Clients \ {c} : client'[d] = client[d]
  BY <1>1, <1>2
<1>5. readers \subseteq Clients /\ writer \subseteq Clients /\ MutualExclusion
  BY DEF MemInv, HeapInv, TypeOK
<1>6. c \notin readers /\ c \notin writer
  BY <1>1, <1>2 DEF CallInv
<1>7. /\ readers' \subseteq Clients /\ writer' \subseteq Clients
      /\ \A d \in Clients \ {c} : (d \in readers' <=> d \in readers) /\ (d \in writer' <=> d \in writer)
      /\ c \in readers' \union writer'
      /\ c \in readers' => client[c].op = "load"
      /\ c \in writer' => client[c].op # "load"
      /\ writer' # {} => readers' = {}
  BY <1>2, <1>5, <1>6 DEF TryRLock, TryLock
<1>8. Cardinality(writer') <= 1
  <2>1. CASE TryRLock(c)
    BY <2>1, <1>5 DEF TryRLock, MutualExclusion
  <2>2. CASE TryLock(c)
    <3>1. writer' = {c}
      BY <2>2 DEF TryLock
    <3>2. Cardinality({c}) = 1
      BY FS_Singleton
    <3> QED BY <3>1, <3>2
  <2> QED BY <1>2, <2>1, <2>2
<1>9. MutualExclusion'
  <2>1. \A d \in Clients : client'[d].pc \in {"check", "write"} => d \in readers' \union writer'
    BY <1>4, <1>5, <1>7 DEF MutualExclusion
  <2> QED BY <2>1, <1>7, <1>8 DEF MutualExclusion
<1>10. CallInv(c)' /\ CloneInv(c)'
  BY <1>1, <1>2, <1>3, <1>4, <1>7 DEF CallInv, CloneInv
<1>11. MemInv' /\ Durable' = Durable /\ \A d \in Clients \ {c} : Calls'[d] = Calls[d]
  BY <1>2, <1>3, <1>7, <1>9, <1>10, QuietStep
<1>12. Calls'[c] = Calls[c]
  BY <1>2, <1>3, <1>4 DEF Calls, Outcome, Request
<1> QED
  BY <1>11, <1>12, Unseen

\* The deferred unlock.
LEMMA LeaveStep ==
  ASSUME MemoryAssumption, MemInv, NEW c \in Clients, Leave(c)
  PROVE  MemInv' /\ Port!Return(c)
<1> DEFINE me == [Idle EXCEPT !.owns = client[c].owns]
<1>1. /\ client \in [Clients -> Client] /\ client[c] \in Client /\ CallInv(c)
      /\ client[c].owns \in Objects \union {NoObject}
  BY ClientType
<1>2. /\ client' = [client EXCEPT ![c] = me] /\ UNCHANGED <<heap, entry>>
      /\ client[c].pc = "unlock" /\ readers' = readers \ {c} /\ writer' = writer \ {c}
  BY DEF Leave
<1>3. /\ me \in Client /\ me.pc = "idle" /\ me.owns = client[c].owns
      /\ me.fresh = NoObject /\ me.answer = ""
  BY <1>1 DEF Client, Idle, Answers
<1> HIDE DEF me
<1>4. client'[c] = me /\ \A d \in Clients \ {c} : client'[d] = client[d]
  BY <1>1, <1>2
<1>5. readers \subseteq Clients /\ writer \subseteq Clients /\ MutualExclusion
  BY DEF MemInv, HeapInv, TypeOK
<1>6. client[c].fresh = NoObject
  BY <1>1, <1>2 DEF CallInv
<1>7. Cardinality(writer') <= 1
  <2>1. IsFiniteSet(writer) /\ writer' \subseteq writer
    BY <1>2, <1>5, FS_Subset DEF MemoryAssumption
  <2>2. /\ Cardinality(writer') <= Cardinality(writer)
        /\ Cardinality(writer') \in Nat /\ Cardinality(writer) \in Nat
    BY <2>1, FS_Subset, FS_CardinalityType
  <2> QED BY <2>2, <1>5 DEF MutualExclusion
<1>8. MutualExclusion'
  <2>1. \A d \in Clients : client'[d].pc \in {"check", "write"} => d \in readers' \union writer'
    BY <1>2, <1>3, <1>4, <1>5 DEF MutualExclusion
  <2>2. writer' # {} => readers' = {}
    BY <1>2, <1>5 DEF MutualExclusion
  <2> QED BY <2>1, <2>2, <1>7 DEF MutualExclusion
<1>9. CallInv(c)' /\ CloneInv(c)'
  BY <1>2, <1>3, <1>4 DEF CallInv, CloneInv
<1>10. /\ readers' \subseteq Clients /\ writer' \subseteq Clients
       /\ \A d \in Clients \ {c} : (d \in readers' <=> d \in readers) /\ (d \in writer' <=> d \in writer)
  BY <1>2, <1>5
<1>11. MemInv' /\ Durable' = Durable /\ \A d \in Clients \ {c} : Calls'[d] = Calls[d]
  BY <1>2, <1>3, <1>6, <1>8, <1>9, <1>10, QuietStep
<1>12. Calls'[c] = Port!None /\ Calls[c].state = "performed"
  BY <1>2, <1>3, <1>4 DEF Calls, Outcome, Port!None
<1>13. Calls' = [Calls EXCEPT ![c] = Port!None]
  BY <1>11, <1>12 DEF Calls
<1> QED
  BY <1>11, <1>12, <1>13 DEF Port!Return

\* A store with an entry is a store with a snapshot.
LEMMA DurableType ==
  ASSUME MemoryAssumption, MemInv
  PROVE  /\ Durable = NoObject <=> entry = NoObject
         /\ entry # NoObject => Durable = heap[entry] /\ entry \in Objects /\ heap[entry] \in Snapshot
<1>1. entry \in Objects \union {NoObject} /\ heap \in [Objects -> Snapshot]
  BY DEF MemInv, HeapInv, TypeOK
<1>2. NoObject \notin Snapshot
  BY DEF MemoryAssumption, Snapshot
<1> QED
  BY <1>1, <1>2 DEF Durable

\* A call that answers without having cloned anything changes nothing.
LEMMA AnswerStep ==
  ASSUME MemoryAssumption, MemInv, NEW c \in Clients,
         client[c].pc \in {"spin", "check"},
         NEW answer \in {"exists", "missing", "conflict", "rewrite", "failed"},
         client' = Answer(c, answer), UNCHANGED <<heap, entry, readers, writer>>,
         answer \in {Port!Verdict(Calls[c]), "failed"}
  PROVE  MemInv' /\ Port!Perform(c, answer)
<1> DEFINE me == [client[c] EXCEPT !.pc = "unlock", !.answer = answer]
<1>1. client \in [Clients -> Client] /\ client[c] \in Client /\ CallInv(c)
  BY ClientType
<1>2. client' = [client EXCEPT ![c] = me]
  BY DEF Answer
<1>3. /\ me \in Client /\ me.pc = "unlock" /\ me.op = client[c].op /\ me.answer = answer
      /\ me.owns = client[c].owns /\ me.fresh = client[c].fresh
  BY <1>1 DEF Client, Answers
<1> HIDE DEF me
<1>4. client'[c] = me /\ \A d \in Clients \ {c} : client'[d] = client[d]
  BY <1>1, <1>2
<1>5. MutualExclusion'
  BY <1>2, <1>3, <1>4 DEF MutualExclusion, MemInv, HeapInv
<1>6. CallInv(c)' /\ CloneInv(c)'
  BY <1>1, <1>2, <1>3, <1>4 DEF CallInv, CloneInv
<1>7. readers \subseteq Clients /\ writer \subseteq Clients
  BY DEF MemInv, HeapInv, TypeOK
<1>8. MemInv' /\ Durable' = Durable /\ \A d \in Clients \ {c} : Calls'[d] = Calls[d]
  BY <1>2, <1>3, <1>5, <1>6, <1>7, QuietStep
<1>9. Calls[c].state = "pending" /\ Calls[c].op = client[c].op
  BY DEF Calls, Request
<1>10. Calls'[c] = Port!Performed(Calls[c].op, answer, NoObject)
  BY <1>3, <1>4, <1>9 DEF Calls, Outcome, Port!Performed
<1>11. Calls' = [Calls EXCEPT ![c] = Port!Performed(Calls[c].op, answer, NoObject)]
  BY <1>8, <1>10 DEF Calls
<1> QED
  BY <1>8, <1>9, <1>11 DEF Port!Perform

LEMMA GiveUpStep ==
  ASSUME MemoryAssumption, MemInv, NEW c \in Clients, GiveUp(c)
  PROVE  MemInv' /\ \E answer \in Port!Answers : Port!Perform(c, answer)
BY AnswerStep DEF GiveUp, Port!Answers

LEMMA RefuseStep ==
  ASSUME MemoryAssumption, MemInv, NEW c \in Clients, Refuse(c)
  PROVE  MemInv' /\ \E answer \in Port!Answers : Port!Perform(c, answer)
<1> DEFINE answer == Refusal(c)
<1>1. client[c].pc = "check" /\ answer # ""
      /\ client' = Answer(c, answer) /\ UNCHANGED <<heap, entry, readers, writer>>
  BY DEF Refuse
<1>2. client[c] \in Client /\ CallInv(c)
  BY ClientType
<1>3. Calls[c] = Request(c)
  BY <1>1 DEF Calls
<1>4. /\ Calls[c].op = client[c].op /\ Calls[c].expected = client[c].expected
      /\ client[c].op # "load" => Calls[c].snapshot = heap[client[c].owns]
  BY <1>3 DEF Request
<1>5. /\ answer \in {"exists", "missing", "conflict", "rewrite", "failed"}
      /\ answer \in {Port!Verdict(Calls[c]), "failed"}
  <2>1. /\ Durable = NoObject <=> entry = NoObject
        /\ entry # NoObject => Durable = heap[entry]
    BY DurableType
  <2>2. client[c].op \in {"create", "load", "save"}
    BY <1>2 DEF Client
  <2>3. CASE client[c].canceled
    BY <2>3 DEF Refusal
  <2>4. CASE ~client[c].canceled /\ client[c].op = "create"
    BY <1>1, <1>4, <2>1, <2>4 DEF Refusal, Port!Verdict
  <2>5. CASE ~client[c].canceled /\ client[c].op = "load"
    BY <1>1, <1>4, <2>1, <2>5 DEF Refusal, Port!Verdict
  <2>6. CASE ~client[c].canceled /\ client[c].op = "save"
    BY <1>1, <1>4, <2>1, <2>6 DEF Refusal, Port!Verdict, IsPrefix, Port!IsPrefix
  <2> QED BY <2>2, <2>3, <2>4, <2>5, <2>6
<1> HIDE DEF answer
<1>6. MemInv' /\ Port!Perform(c, answer)
  BY <1>1, <1>5, AnswerStep
<1> QED
  BY <1>5, <1>6 DEF Port!Answers

\* What somebody still holds is what it was when the garbage has gone.
LEMMA Collected ==
  ASSUME MemoryAssumption, MemInv, Collect
  PROVE  /\ heap' \in [Objects -> Snapshot]
         /\ \A o \in Objects : o \in InUse' => heap'[o] = heap[o]
<1>1. heap \in [Objects -> Snapshot]
  BY DEF MemInv, HeapInv, TypeOK
<1>2. Blank \in Snapshot
  BY DEF Blank, Snapshot, MemoryAssumption
<1>3. heap' = [o \in Objects |-> IF o \in InUse' THEN heap[o] ELSE Blank]
  BY DEF Collect
<1> HIDE DEF Collect
<1> QED
  BY <1>1, <1>2, <1>3

\* A step that lets go of something, or moves it to another name of its own.
LEMMA CollectStep ==
  ASSUME MemoryAssumption, MemInv, NEW c \in Clients, NEW me \in Client,
         client' = [client EXCEPT ![c] = me], UNCHANGED <<entry, readers, writer>>, Collect,
         {me.owns, me.fresh} \subseteq {client[c].owns, client[c].fresh, NoObject},
         me.fresh = NoObject, MutualExclusion', CallInv(c)', CloneInv(c)'
  PROVE  /\ MemInv' /\ Durable' = Durable
         /\ \A d \in Clients \ {c} : Calls'[d] = Calls[d]
<1>1. client \in [Clients -> Client] /\ entry \in Objects \union {NoObject}
  BY ClientType
<1>2. client'[c] = me /\ \A d \in Clients \ {c} : client'[d] = client[d]
  BY <1>1
<1>3. heap' \in [Objects -> Snapshot] /\ \A o \in Objects : o \in InUse' => heap'[o] = heap[o]
  BY Collected
<1>4. TypeOK'
  BY <1>1, <1>3 DEF TypeOK, MemInv, HeapInv
<1>5. entry \in InUse' /\ \A d \in Clients \ {c} : Holds(d) \subseteq InUse'
  BY <1>2 DEF InUse, Holds
<1>6. \A d \in Clients : Holds(d) \subseteq Objects
  BY ClientType
<1>7. Frame(c)
  BY <1>1, <1>2, <1>3, <1>5, <1>6 DEF Frame
<1>8. Own(c)
  BY <1>2 DEF Own, Holds
<1> QED
  BY <1>4, <1>7, <1>8, FrameStep

LEMMA DropStep ==
  ASSUME MemoryAssumption, MemInv, NEW c \in Clients, Drop(c)
  PROVE  MemInv' /\ UNCHANGED Port!vars
<1> DEFINE me == [client[c] EXCEPT !.owns = NoObject]
<1>1. client \in [Clients -> Client] /\ client[c] \in Client /\ CallInv(c)
  BY ClientType
<1>2. /\ client' = [client EXCEPT ![c] = me] /\ UNCHANGED <<entry, readers, writer>>
      /\ Collect /\ client[c].pc = "idle"
  BY DEF Drop
<1>3. /\ me \in Client /\ me.pc = "idle" /\ me.owns = NoObject
      /\ me.fresh = client[c].fresh /\ me.answer = client[c].answer
  BY <1>1, <1>2 DEF Client
<1> HIDE DEF me
<1>4. client'[c] = me /\ \A d \in Clients \ {c} : client'[d] = client[d]
  BY <1>1, <1>2
<1>5. MutualExclusion'
  BY <1>2, <1>3, <1>4 DEF MutualExclusion, MemInv, HeapInv
<1>6. CallInv(c)' /\ CloneInv(c)' /\ me.fresh = NoObject
  BY <1>1, <1>2, <1>3, <1>4 DEF CallInv, CloneInv
<1>7. MemInv' /\ Durable' = Durable /\ \A d \in Clients \ {c} : Calls'[d] = Calls[d]
  BY <1>2, <1>3, <1>5, <1>6, CollectStep
<1>8. Calls'[c] = Calls[c]
  BY <1>2, <1>3, <1>4 DEF Calls
<1> QED
  BY <1>7, <1>8, Unseen

\* The clone is made from the entry or the argument, at an address of its own.
LEMMA CloneStep ==
  ASSUME MemoryAssumption, MemInv, NEW c \in Clients, Clone(c)
  PROVE  MemInv' /\ UNCHANGED Port!vars
<1> DEFINE o == Unused
           source == IF client[c].op = "load" THEN entry ELSE client[c].owns
           me == [client[c] EXCEPT !.pc = "write", !.fresh = o]
<1>1. /\ client \in [Clients -> Client] /\ client[c] \in Client /\ heap \in [Objects -> Snapshot]
      /\ CallInv(c) /\ client[c].owns \in Objects \union {NoObject}
      /\ entry \in Objects \union {NoObject} /\ entry \in InUse /\ client[c].owns \in InUse
      /\ client[c].op \in {"create", "load", "save"}
  BY ClientType DEF Client
<1>2. /\ heap' = [heap EXCEPT ![o] = heap[source]] /\ client' = [client EXCEPT ![c] = me]
      /\ entry' = entry /\ readers' = readers /\ writer' = writer
      /\ client[c].pc = "check" /\ Refusal(c) = ""
  BY DEF Clone, CloneInstance
<1>3. client[c].fresh = NoObject /\ client[c].answer = "" /\ (client[c].op = "load" <=> client[c].owns = NoObject)
  BY <1>1, <1>2 DEF CallInv
<1>4. o \in Objects /\ o \notin InUse /\ o # NoObject
  <2>1. <<"fresh", c>> \in Slots /\ Held(<<"fresh", c>>) = NoObject
    BY <1>3 DEF Slots, Held
  <2> QED BY <2>1, Room
<1>5. /\ me \in Client /\ me.pc = "write" /\ me.op = client[c].op /\ me.owns = client[c].owns
      /\ me.fresh = o /\ me.answer = client[c].answer /\ me.expected = client[c].expected
  BY <1>1, <1>4 DEF Client
<1>6. /\ client[c].op = "create" => entry = NoObject
      /\ client[c].op # "create" => entry # NoObject
      /\ client[c].op = "save" => /\ heap[entry].version = client[c].expected
                                  /\ IsPrefix(heap[entry].audit, heap[client[c].owns].audit)
  BY <1>1, <1>2 DEF Refusal
<1>7. source \in Objects
  BY <1>1, <1>3, <1>6
<1> HIDE DEF me, o, source
<1>8. client'[c] = me /\ \A d \in Clients \ {c} : client'[d] = client[d]
  BY <1>1, <1>2
<1>9. TypeOK'
  BY <1>1, <1>2, <1>4, <1>5, <1>7 DEF TypeOK, MemInv, HeapInv
<1>10. heap'[o] = heap[source] /\ \A p \in Objects : p \in InUse => heap'[p] = heap[p]
  BY <1>1, <1>2, <1>4
<1>11. Frame(c)
  <2>1. \A d \in Clients : \A p \in Holds(d) : p \in InUse /\ p \in Objects
    BY ClientType
  <2> QED BY <2>1, <1>1, <1>2, <1>8, <1>10 DEF Frame
<1>12. CallInv(c)'
  BY <1>1, <1>2, <1>4, <1>5, <1>8 DEF CallInv
<1>13. CloneInv(c)'
  <2>1. client[c].op # "load" => heap'[client[c].owns] = heap[client[c].owns] /\ heap'[o] = heap[client[c].owns]
    BY <1>1, <1>3, <1>10 DEF source
  <2>2. client[c].op # "create" => heap'[entry] = heap[entry]
    BY <1>1, <1>6, <1>10
  <2>3. client[c].op = "load" => heap'[o] = heap[entry]
    BY <1>10 DEF source
  <2>4. /\ client'[c].op = client[c].op /\ client'[c].owns = client[c].owns /\ client'[c].fresh = o
        /\ client'[c].expected = client[c].expected /\ entry' = entry
    BY <1>2, <1>5, <1>8
  <2>5. client'[c].op = "create" <=> entry' = NoObject
    BY <1>6, <2>4
  <2>6. /\ client'[c].op = "load" => heap'[client'[c].fresh] = heap'[entry']
        /\ client'[c].op # "load" => heap'[client'[c].fresh] = heap'[client'[c].owns]
    BY <2>1, <2>2, <2>3, <2>4
  <2>7. client'[c].op = "save" =>
          /\ heap'[entry'].version = client'[c].expected
          /\ IsPrefix(heap'[entry'].audit, heap'[client'[c].owns].audit)
    BY <1>6, <2>1, <2>2, <2>4
  <2> QED BY <2>5, <2>6, <2>7 DEF CloneInv
<1>14. Own(c)
  BY <1>1, <1>3, <1>4, <1>5, <1>8, <1>12, <1>13 DEF Own, Holds
<1>15. MutualExclusion'
  BY <1>2, <1>5, <1>8 DEF MutualExclusion, MemInv, HeapInv
<1>16. MemInv' /\ Durable' = Durable /\ \A d \in Clients \ {c} : Calls'[d] = Calls[d]
  BY <1>9, <1>11, <1>14, <1>15, FrameStep
<1>17. Calls'[c] = Calls[c]
  <2>1. client[c].op # "load" => heap'[client[c].owns] = heap[client[c].owns]
    BY <1>1, <1>3, <1>10
  <2>2. Request(c)' = Request(c)
    BY <2>1, <1>5, <1>8 DEF Request
  <2>3. Calls'[c] = Request(c)' /\ Calls[c] = Request(c)
    BY <1>2, <1>5, <1>8 DEF Calls
  <2> QED BY <2>2, <2>3
<1> QED
  BY <1>16, <1>17, Unseen

\* The clone of a call that was canceled meanwhile is dropped.
LEMMA TakeCanceledStep ==
  ASSUME MemoryAssumption, MemInv, NEW c \in Clients, Take(c), client[c].canceled
  PROVE  MemInv' /\ \E answer \in Port!Answers : Port!Perform(c, answer)
<1> DEFINE me == [client[c] EXCEPT !.pc = "unlock", !.answer = "failed", !.fresh = NoObject]
<1>1. client \in [Clients -> Client] /\ client[c] \in Client /\ CallInv(c)
  BY ClientType
<1>2. /\ client' = [client EXCEPT ![c] = me] /\ UNCHANGED <<entry, readers, writer>>
      /\ Collect /\ client[c].pc = "write"
  BY <1>1 DEF Take, Answer
<1>3. /\ me \in Client /\ me.pc = "unlock" /\ me.op = client[c].op /\ me.owns = client[c].owns
      /\ me.fresh = NoObject /\ me.answer = "failed"
  BY <1>1 DEF Client, Answers
<1> HIDE DEF me
<1>4. client'[c] = me /\ \A d \in Clients \ {c} : client'[d] = client[d]
  BY <1>1, <1>2
<1>5. MutualExclusion'
  BY <1>2, <1>3, <1>4 DEF MutualExclusion, MemInv, HeapInv
<1>6. CallInv(c)' /\ CloneInv(c)'
  BY <1>1, <1>2, <1>3, <1>4 DEF CallInv, CloneInv
<1>7. MemInv' /\ Durable' = Durable /\ \A d \in Clients \ {c} : Calls'[d] = Calls[d]
  BY <1>2, <1>3, <1>5, <1>6, CollectStep
<1>8. Calls[c].state = "pending" /\ Calls[c].op = client[c].op
  BY <1>2 DEF Calls, Request
<1>9. Calls'[c] = Port!Performed(Calls[c].op, "failed", NoObject)
  BY <1>3, <1>4, <1>8 DEF Calls, Outcome, Port!Performed
<1>10. Calls' = [Calls EXCEPT ![c] = Port!Performed(Calls[c].op, "failed", NoObject)]
  BY <1>7, <1>9 DEF Calls
<1>11. Port!Perform(c, "failed")
  BY <1>7, <1>8, <1>10 DEF Port!Perform
<1> QED
  BY <1>7, <1>11 DEF Port!Answers

\* A Load returns its clone: what the entry was when the clone was made, which
\* nobody has replaced since.
LEMMA TakeLoadStep ==
  ASSUME MemoryAssumption, MemInv, NEW c \in Clients, Take(c),
         ~client[c].canceled, client[c].op = "load"
  PROVE  MemInv' /\ \E answer \in Port!Answers : Port!Perform(c, answer)
<1> DEFINE o == client[c].fresh
           me == [client[c] EXCEPT !.pc = "unlock", !.answer = "ok", !.fresh = NoObject, !.owns = o]
<1>1. /\ client \in [Clients -> Client] /\ client[c] \in Client /\ CallInv(c) /\ CloneInv(c)
      /\ o \in Objects \union {NoObject}
  BY ClientType
<1>2. /\ client' = [client EXCEPT ![c] = me] /\ UNCHANGED <<entry, readers, writer>>
      /\ Collect /\ client[c].pc = "write"
  BY <1>1 DEF Take, Answer
<1>3. o # NoObject /\ o \in Objects /\ entry # NoObject /\ heap[o] = heap[entry]
  BY <1>1, <1>2 DEF CallInv, CloneInv
<1>4. /\ me \in Client /\ me.pc = "unlock" /\ me.op = "load" /\ me.owns = o
      /\ me.fresh = NoObject /\ me.answer = "ok"
  BY <1>1 DEF Client, Answers
<1> HIDE DEF me, o
<1>5. client'[c] = me /\ \A d \in Clients \ {c} : client'[d] = client[d]
  BY <1>1, <1>2
<1>6. MutualExclusion'
  BY <1>2, <1>4, <1>5 DEF MutualExclusion, MemInv, HeapInv
<1>7. CallInv(c)' /\ CloneInv(c)'
  BY <1>1, <1>2, <1>3, <1>4, <1>5 DEF CallInv, CloneInv
<1>8. {me.owns, me.fresh} \subseteq {client[c].owns, client[c].fresh, NoObject}
  BY <1>4 DEF o
<1>9. MemInv' /\ Durable' = Durable /\ \A d \in Clients \ {c} : Calls'[d] = Calls[d]
  BY <1>2, <1>4, <1>6, <1>7, <1>8, CollectStep
<1>10. heap'[o] = heap[o]
  <2>1. o \in InUse'
    BY <1>4, <1>5 DEF InUse
  <2> QED BY <2>1, <1>2, <1>3, Collected
<1>11. Calls[c].state = "pending" /\ Calls[c].op = "load"
  BY <1>2 DEF Calls, Request
<1>12. Durable # NoObject /\ Durable = heap[entry]
  BY <1>3, DurableType
<1>13. Calls'[c] = Port!Performed("load", "ok", Durable)
  BY <1>3, <1>4, <1>5, <1>10, <1>12 DEF Calls, Outcome, Port!Performed
<1>14. Calls' = [Calls EXCEPT ![c] = Port!Performed("load", "ok", Durable)]
  BY <1>9, <1>13 DEF Calls
<1>15. Port!Verdict(Calls[c]) = "ok"
  BY <1>11, <1>12 DEF Port!Verdict
<1>16. Port!Perform(c, "ok")
  BY <1>9, <1>11, <1>14, <1>15 DEF Port!Perform
<1> QED
  BY <1>9, <1>16 DEF Port!Answers

\* The map assignment of a Create or a Save: the clone, which nobody else holds,
\* is the entry, and what was checked under the lock is still so.
LEMMA TakeWriteStep ==
  ASSUME MemoryAssumption, MemInv, NEW c \in Clients, Take(c),
         ~client[c].canceled, client[c].op # "load"
  PROVE  MemInv' /\ \E answer \in Port!Answers : Port!Perform(c, answer)
<1> DEFINE o == client[c].fresh
           me == [client[c] EXCEPT !.pc = "unlock", !.answer = "ok", !.fresh = NoObject]
<1>1. /\ client \in [Clients -> Client] /\ client[c] \in Client /\ CallInv(c) /\ CloneInv(c)
      /\ o \in Objects \union {NoObject} /\ client[c].owns \in Objects \union {NoObject}
      /\ client[c].op \in {"create", "load", "save"}
  BY ClientType DEF Client
<1>2. /\ client' = [client EXCEPT ![c] = me] /\ readers' = readers /\ writer' = writer
      /\ entry' = o /\ Collect /\ client[c].pc = "write"
  BY <1>1 DEF Take, Answer
<1>3. /\ o # NoObject /\ o \in Objects /\ client[c].owns \in Objects /\ client[c].owns # NoObject
      /\ heap[o] = heap[client[c].owns] /\ o # client[c].owns
      /\ o \in Holds(c)
  BY <1>1, <1>2, Apart DEF CallInv, CloneInv, Holds
<1>4. /\ me \in Client /\ me.pc = "unlock" /\ me.op = client[c].op /\ me.owns = client[c].owns
      /\ me.fresh = NoObject /\ me.answer = "ok"
  BY <1>1 DEF Client, Answers
<1> HIDE DEF me, o
<1>5. client'[c] = me /\ \A d \in Clients \ {c} : client'[d] = client[d]
  BY <1>1, <1>2
<1>6. MutualExclusion /\ MutualExclusion'
  BY <1>2, <1>4, <1>5 DEF MutualExclusion, MemInv, HeapInv
<1>7. c \in writer /\ readers = {} /\ readers \subseteq Clients /\ writer \subseteq Clients
  BY <1>1, <1>2, <1>6 DEF MutualExclusion, CallInv, MemInv, HeapInv, TypeOK
<1>8. \A d \in Clients \ {c} : d \notin writer
  <2>1. IsFiniteSet(writer) /\ Cardinality(writer) <= 1
    BY <1>6, <1>7, FS_Subset DEF MemoryAssumption, MutualExclusion
  <2>2. SUFFICES ASSUME NEW d \in Clients \ {c}, d \in writer PROVE FALSE
    OBVIOUS
  <2>3. {c} \subseteq writer /\ {c} # writer
    BY <2>2, <1>7
  <2>4. Cardinality({c}) < Cardinality(writer) /\ Cardinality({c}) = 1 /\ Cardinality(writer) \in Nat
    BY <2>1, <2>3, FS_Subset, FS_Singleton, FS_CardinalityType
  <2> QED BY <2>1, <2>4
<1>9. \A d \in Clients \ {c} : client'[d].pc # "check" /\ client'[d].pc # "write"
  BY <1>5, <1>6, <1>7, <1>8 DEF MutualExclusion
<1>10. /\ heap' \in [Objects -> Snapshot]
       /\ \A p \in Objects : p \in InUse' => heap'[p] = heap[p]
  BY <1>2, Collected
<1>11. TypeOK'
  BY <1>1, <1>2, <1>3, <1>4, <1>7, <1>10 DEF TypeOK
<1>12. \A d \in Clients \ {c} : Holds(d)' = Holds(d) /\ CallInv(d)' /\ CloneInv(d)'
  <2> SUFFICES ASSUME NEW d \in Clients \ {c} PROVE Holds(d)' = Holds(d) /\ CallInv(d)' /\ CloneInv(d)'
    OBVIOUS
  <2>1. CallInv(d) /\ client'[d] = client[d] /\ client'[d].pc # "write"
    BY <1>5, <1>9, ClientType
  <2> QED BY <2>1, <1>2 DEF Holds, CallInv, CloneInv
<1>13. CallInv(c)' /\ CloneInv(c)'
  BY <1>1, <1>2, <1>3, <1>4, <1>5 DEF CallInv, CloneInv
<1>14. Holds(c)' = {client[c].owns} /\ client[c].owns \in Holds(c)
  BY <1>3, <1>4, <1>5 DEF Holds
<1>15. NoSharing'
  <2>1. \A d \in Clients : entry' \notin Holds(d)'
    BY <1>2, <1>3, <1>12, <1>14, Apart
  <2>2. \A d, e \in Clients : d # e => Holds(d)' \intersect Holds(e)' = {}
    <3> SUFFICES ASSUME NEW d \in Clients, NEW e \in Clients, d # e, NEW p,
                        p \in Holds(d)', p \in Holds(e)' PROVE FALSE
      OBVIOUS
    <3>1. p \in Holds(d) /\ p \in Holds(e)
      BY <1>12, <1>14
    <3> QED BY <3>1, Apart
  <2>3. \A d \in Clients : client'[d].fresh # NoObject => client'[d].fresh # client'[d].owns
    BY <1>4, <1>5, Apart
  <2> QED BY <2>1, <2>2, <2>3 DEF NoSharing, Holds
<1>16. MemInv'
  BY <1>6, <1>11, <1>12, <1>13, <1>15 DEF MemInv, HeapInv
<1>17. Calls[c] = Request(c) /\ Calls[c].state = "pending" /\ Calls[c].op = client[c].op
       /\ Calls[c].expected = client[c].expected /\ Calls[c].snapshot = heap[client[c].owns]
  BY <1>2 DEF Calls, Request
<1>18. Calls'[c] = Port!Performed(client[c].op, "ok", NoObject)
  BY <1>4, <1>5 DEF Calls, Outcome, Port!Performed
<1>19. \A d \in Clients \ {c} : Calls'[d] = Calls[d]
  <2> SUFFICES ASSUME NEW d \in Clients \ {c} PROVE Calls'[d] = Calls[d]
    OBVIOUS
  <2>1. CallInv(d) /\ client'[d] = client[d]
    BY <1>5, ClientType
  <2>2. client[d].owns # NoObject => heap'[client[d].owns] = heap[client[d].owns]
    <3>1. client[d].owns \in InUse' /\ client[d].owns \in Objects \union {NoObject}
      BY <2>1, ClientType DEF InUse
    <3> QED BY <3>1, <1>10
  <2>3. client[d].op \in {"create", "load", "save"} /\ client[d].pc \in {"idle", "spin", "check", "write", "unlock"}
    BY ClientType DEF Client
  <2> QED BY <2>1, <2>2, <2>3 DEF Calls, Outcome, Request, CallInv
<1>20. Calls' = [Calls EXCEPT ![c] = Port!Performed(Calls[c].op, "ok", NoObject)]
  BY <1>17, <1>18, <1>19 DEF Calls
<1>21. Durable' = heap[client[c].owns]
  <2>1. o \in InUse'
    BY <1>2 DEF InUse
  <2> QED BY <2>1, <1>2, <1>3, <1>10 DEF Durable
<1>22. Port!Verdict(Calls[c]) = "ok"
  <2>1. /\ Durable = NoObject <=> entry = NoObject
        /\ entry # NoObject => Durable = heap[entry]
    BY DurableType
  <2>2. /\ client[c].op = "create" <=> entry = NoObject
        /\ client[c].op = "save" => /\ heap[entry].version = client[c].expected
                                    /\ IsPrefix(heap[entry].audit, heap[client[c].owns].audit)
    BY <1>1, <1>2 DEF CloneInv
  <2>3. CASE client[c].op = "create"
    BY <1>17, <2>1, <2>2, <2>3 DEF Port!Verdict
  <2>4. CASE client[c].op = "save"
    BY <1>17, <2>1, <2>2, <2>4 DEF Port!Verdict, IsPrefix, Port!IsPrefix
  <2> QED BY <1>1, <2>3, <2>4
<1>23. Port!Perform(c, "ok")
  BY <1>17, <1>20, <1>21, <1>22 DEF Port!Perform
<1> QED
  BY <1>16, <1>23 DEF Port!Answers

-----------------------------------------------------------------------------
(* Every step, and every behaviour. *)

LEMMA MemoryInit ==
  ASSUME MemoryAssumption, Init
  PROVE  MemInv /\ Port!Init
<1>1. heap = [o \in Objects |-> Blank] /\ entry = NoObject /\ readers = {} /\ writer = {}
      /\ client = [c \in Clients |-> Idle]
  BY DEF Init
<1>2. Idle \in Client /\ Blank \in Snapshot
  BY DEF Idle, Client, Answers, Blank, Snapshot, MemoryAssumption
<1>3. \A c \in Clients : /\ client[c].pc = "idle" /\ client[c].op = "load" /\ client[c].answer = ""
                          /\ client[c].owns = NoObject /\ client[c].fresh = NoObject
  <2>1. /\ Idle.pc = "idle" /\ Idle.op = "load" /\ Idle.answer = ""
        /\ Idle.owns = NoObject /\ Idle.fresh = NoObject
    BY DEF Idle
  <2> QED BY <2>1, <1>1
<1>4. TypeOK
  BY <1>1, <1>2 DEF TypeOK
<1>5. MutualExclusion
  <2>1. Cardinality(writer) = 0
    BY <1>1, FS_EmptySet
  <2>2. \A c \in Clients : client[c].pc \notin {"check", "write"}
    BY <1>3
  <2>3. writer = {}
    BY <1>1
  <2> QED BY <2>1, <2>2, <2>3 DEF MutualExclusion
<1>6. NoSharing
  <2>1. \A c \in Clients : Holds(c) = {} /\ client[c].fresh = NoObject
    BY <1>3 DEF Holds
  <2> QED BY <2>1, <1>1 DEF NoSharing
<1>7. \A c \in Clients : CallInv(c) /\ CloneInv(c)
  BY <1>1, <1>3 DEF CallInv, CloneInv
<1>8. MemInv
  BY <1>4, <1>5, <1>6, <1>7 DEF MemInv, HeapInv
<1>9. Durable = NoObject
  BY <1>1 DEF Durable
<1>10. Calls = [c \in Clients |-> Port!None]
  <2>1. \A c \in Clients : Calls[c] = Port!None
    BY <1>3 DEF Calls, Port!None
  <2> QED BY <2>1 DEF Calls
<1> QED
  BY <1>8, <1>9, <1>10 DEF Port!Init

\* Every step keeps the invariant, and is a step of the port or none.
LEMMA MemoryStep ==
  ASSUME MemoryAssumption, MemInv, Next
  PROVE  MemInv' /\ (Port!Next \/ UNCHANGED Port!vars)
<1>1. PICK c \in Clients : Use(c) \/ Cancel(c) \/ Step(c)
  BY DEF Next
<1>2. CASE Compose(c)
  BY <1>2, ComposeStep
<1>3. CASE \E body \in Bodies \ {NewBody} : Edit(c, body) \/ Scribble(c, body)
  BY <1>3, EditStep, ScribbleStep
<1>4. CASE Drop(c)
  BY <1>4, DropStep
<1>5. CASE Invoke(c, "load", 0) \/ Invoke(c, "create", 0) \/ \E expected \in 1 .. MaxVersion : Invoke(c, "save", expected)
  <2>1. PICK op \in {"create", "load", "save"}, expected \in Nat : Invoke(c, op, expected)
    BY <1>5 DEF MemoryAssumption
  <2>2. MemInv' /\ Port!Request(c)
    BY <2>1, InvokeStep
  <2> QED BY <2>2 DEF Port!Next
<1>6. CASE Cancel(c)
  BY <1>6, CancelStep
<1>7. CASE GiveUp(c) \/ Refuse(c)
  BY <1>7, GiveUpStep, RefuseStep DEF Port!Next
<1>8. CASE Acquire(c)
  BY <1>8, AcquireStep
<1>9. CASE Clone(c)
  BY <1>9, CloneStep
<1>10. CASE Take(c)
  BY <1>10, TakeCanceledStep, TakeLoadStep, TakeWriteStep DEF Port!Next
<1>11. CASE Leave(c)
  BY <1>11, LeaveStep DEF Port!Next
<1> QED
  BY <1>1, <1>2, <1>3, <1>4, <1>5, <1>6, <1>7, <1>8, <1>9, <1>10, <1>11 DEF Use, Step

\* A step that changes nothing.
LEMMA MemoryStutter ==
  ASSUME MemInv, UNCHANGED vars
  PROVE  MemInv' /\ UNCHANGED Port!vars
<1>1. heap' = heap /\ entry' = entry /\ readers' = readers /\ writer' = writer /\ client' = client
  BY DEF vars
<1>2. MemInv'
  <2>1. HeapInv'
    BY <1>1 DEF MemInv, HeapInv, TypeOK, MutualExclusion, NoSharing, Holds
  <2>2. \A c \in Clients : CallInv(c)' /\ CloneInv(c)'
    BY <1>1 DEF MemInv, CallInv, CloneInv
  <2> QED BY <2>1, <2>2 DEF MemInv
<1>3. Durable' = Durable /\ Calls' = Calls
  BY <1>1 DEF Durable, Calls, Outcome, Request
<1> QED
  BY <1>2, <1>3 DEF Port!vars

(***************************************************************************)
(* Nobody shares an Instance with the store or with another caller, and    *)
(* whoever looks at the entry holds the lock (store.go cloneInstance,      *)
(* acquireMemoryStoreLock), for any number of goroutines.                  *)
(***************************************************************************)
THEOREM NobodySharesAnInstance ==
  ASSUME MemoryAssumption
  PROVE  Spec => []HeapInv
<1>1. Init => MemInv
  BY MemoryInit
<1>2. MemInv /\ [Next]_vars => MemInv'
  BY MemoryStep, MemoryStutter
<1>3. MemInv => HeapInv
  BY DEF MemInv
<1> QED
  BY <1>1, <1>2, <1>3, PTL DEF Spec

(***************************************************************************)
(* The memory store implements the port: what a caller does to the objects *)
(* it owns, the lock, the clones and the garbage are invisible, and every  *)
(* Create, Load and Save takes effect at the moment it takes its clone or  *)
(* refuses (store.go MemoryStore).                                         *)
(***************************************************************************)
THEOREM MemoryImplementsPort ==
  ASSUME MemoryAssumption
  PROVE  Spec => Port!Spec
<1>1. Init => MemInv /\ Port!Init
  BY MemoryInit
<1>2. MemInv /\ [Next]_vars => MemInv' /\ [Port!Next]_(Port!vars)
  BY MemoryStep, MemoryStutter
<1> QED
  BY <1>1, <1>2, PTL DEF Spec, Port!Spec
=============================================================================
