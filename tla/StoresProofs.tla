----------------------------- MODULE StoresProofs -----------------------------
(***************************************************************************)
(* Proofs about Stores: what the adapters' theorems say of the store under *)
(* the port, whichever adapter it is.                                      *)
(***************************************************************************)
EXTENDS Stores, TLAPS

\* Of the adapter there is, its own invariant.
StoresInv ==
  /\ adapter \in {"memory", "postgres", "mysql"}
  /\ adapter = "memory" => Memory!MemInv
  /\ adapter = "postgres" => Postgres!IndInv
  /\ adapter = "mysql" => MySQL!IndInv

-----------------------------------------------------------------------------
(* Under its adapter, the port's state is the adapter's, and a step of the   *)
(* adapter's port is one of the port.                                        *)

LEMMA MemoryPortStep ==
  ASSUME adapter = "memory", adapter' = adapter,
         Memory!Port!Next \/ UNCHANGED Memory!Port!vars
  PROVE  Port!Next \/ UNCHANGED Port!vars
<1>1. Durable = Memory!Durable /\ Calls = Memory!Calls
  BY DEF Durable, Calls
<1>2. Durable' = Memory!Durable' /\ Calls' = Memory!Calls'
  BY DEF Durable, Calls
<1>3. CASE UNCHANGED Memory!Port!vars
  BY <1>1, <1>2, <1>3 DEF Memory!Port!vars, Port!vars
<1>4. CASE Memory!Port!Next
  <2>1. PICK c \in Clients :
          \/ Memory!Port!Request(c)
          \/ \E answer \in Memory!Port!Answers : Memory!Port!Perform(c, answer)
          \/ Memory!Port!Forget(c)
          \/ Memory!Port!Return(c)
    BY <1>4 DEF Memory!Port!Next
  <2>2. CASE Memory!Port!Request(c)
    <3>1. Port!Request(c)
      BY <1>1, <1>2, <2>2 DEF Memory!Port!Request, Port!Request, Memory!Port!None, Port!None,
         Memory!Port!Requests, Port!Requests, Memory!Port!Snapshot, Port!Snapshot, Memory!Port!Ops, Port!Ops
    <3> QED BY <3>1 DEF Port!Next
  <2>3. CASE \E answer \in Memory!Port!Answers : Memory!Port!Perform(c, answer)
    <3>1. PICK answer \in Memory!Port!Answers : Memory!Port!Perform(c, answer)
      BY <2>3
    <3>2. Memory!Port!Verdict(Memory!Calls[c]) = Port!Verdict(Calls[c])
      BY <1>1 DEF Memory!Port!Verdict, Port!Verdict, Memory!Port!IsPrefix, Port!IsPrefix
    <3>3. Port!Perform(c, answer)
      BY <1>1, <1>2, <3>1, <3>2 DEF Memory!Port!Perform, Port!Perform, Memory!Port!Performed, Port!Performed
    <3> QED BY <3>1, <3>3 DEF Port!Next, Memory!Port!Answers, Port!Answers
  <2>4. CASE Memory!Port!Forget(c)
    <3>1. Port!Forget(c)
      BY <1>1, <1>2, <2>4 DEF Memory!Port!Forget, Port!Forget, Memory!Port!Performed, Port!Performed
    <3> QED BY <3>1 DEF Port!Next
  <2>5. CASE Memory!Port!Return(c)
    <3>1. Port!Return(c)
      BY <1>1, <1>2, <2>5 DEF Memory!Port!Return, Port!Return, Memory!Port!None, Port!None
    <3> QED BY <3>1 DEF Port!Next
  <2> QED BY <2>1, <2>2, <2>3, <2>4, <2>5
<1> QED BY <1>3, <1>4

LEMMA PostgresPortStep ==
  ASSUME adapter = "postgres", adapter' = adapter,
         Postgres!Port!Next \/ UNCHANGED Postgres!Port!vars
  PROVE  Port!Next \/ UNCHANGED Port!vars
<1>1. Durable = Postgres!Durable /\ Calls = Postgres!Calls
  BY DEF Durable, Calls
<1>2. Durable' = Postgres!Durable' /\ Calls' = Postgres!Calls'
  BY DEF Durable, Calls
<1>3. CASE UNCHANGED Postgres!Port!vars
  BY <1>1, <1>2, <1>3 DEF Postgres!Port!vars, Port!vars
<1>4. CASE Postgres!Port!Next
  <2>1. PICK c \in Clients :
          \/ Postgres!Port!Request(c)
          \/ \E answer \in Postgres!Port!Answers : Postgres!Port!Perform(c, answer)
          \/ Postgres!Port!Forget(c)
          \/ Postgres!Port!Return(c)
    BY <1>4 DEF Postgres!Port!Next
  <2>2. CASE Postgres!Port!Request(c)
    <3>1. Port!Request(c)
      BY <1>1, <1>2, <2>2 DEF Postgres!Port!Request, Port!Request, Postgres!Port!None, Port!None,
         Postgres!Port!Requests, Port!Requests, Postgres!Port!Snapshot, Port!Snapshot, Postgres!Port!Ops, Port!Ops
    <3> QED BY <3>1 DEF Port!Next
  <2>3. CASE \E answer \in Postgres!Port!Answers : Postgres!Port!Perform(c, answer)
    <3>1. PICK answer \in Postgres!Port!Answers : Postgres!Port!Perform(c, answer)
      BY <2>3
    <3>2. Postgres!Port!Verdict(Postgres!Calls[c]) = Port!Verdict(Calls[c])
      BY <1>1 DEF Postgres!Port!Verdict, Port!Verdict, Postgres!Port!IsPrefix, Port!IsPrefix
    <3>3. Port!Perform(c, answer)
      BY <1>1, <1>2, <3>1, <3>2 DEF Postgres!Port!Perform, Port!Perform, Postgres!Port!Performed, Port!Performed
    <3> QED BY <3>1, <3>3 DEF Port!Next, Postgres!Port!Answers, Port!Answers
  <2>4. CASE Postgres!Port!Forget(c)
    <3>1. Port!Forget(c)
      BY <1>1, <1>2, <2>4 DEF Postgres!Port!Forget, Port!Forget, Postgres!Port!Performed, Port!Performed
    <3> QED BY <3>1 DEF Port!Next
  <2>5. CASE Postgres!Port!Return(c)
    <3>1. Port!Return(c)
      BY <1>1, <1>2, <2>5 DEF Postgres!Port!Return, Port!Return, Postgres!Port!None, Port!None
    <3> QED BY <3>1 DEF Port!Next
  <2> QED BY <2>1, <2>2, <2>3, <2>4, <2>5
<1> QED BY <1>3, <1>4

LEMMA MySQLPortStep ==
  ASSUME adapter = "mysql", adapter' = adapter,
         MySQL!Port!Next \/ UNCHANGED MySQL!Port!vars
  PROVE  Port!Next \/ UNCHANGED Port!vars
<1>1. Durable = MySQL!Durable /\ Calls = MySQL!Calls
  BY DEF Durable, Calls
<1>2. Durable' = MySQL!Durable' /\ Calls' = MySQL!Calls'
  BY DEF Durable, Calls
<1>3. CASE UNCHANGED MySQL!Port!vars
  BY <1>1, <1>2, <1>3 DEF MySQL!Port!vars, Port!vars
<1>4. CASE MySQL!Port!Next
  <2>1. PICK c \in Clients :
          \/ MySQL!Port!Request(c)
          \/ \E answer \in MySQL!Port!Answers : MySQL!Port!Perform(c, answer)
          \/ MySQL!Port!Forget(c)
          \/ MySQL!Port!Return(c)
    BY <1>4 DEF MySQL!Port!Next
  <2>2. CASE MySQL!Port!Request(c)
    <3>1. Port!Request(c)
      BY <1>1, <1>2, <2>2 DEF MySQL!Port!Request, Port!Request, MySQL!Port!None, Port!None,
         MySQL!Port!Requests, Port!Requests, MySQL!Port!Snapshot, Port!Snapshot, MySQL!Port!Ops, Port!Ops
    <3> QED BY <3>1 DEF Port!Next
  <2>3. CASE \E answer \in MySQL!Port!Answers : MySQL!Port!Perform(c, answer)
    <3>1. PICK answer \in MySQL!Port!Answers : MySQL!Port!Perform(c, answer)
      BY <2>3
    <3>2. MySQL!Port!Verdict(MySQL!Calls[c]) = Port!Verdict(Calls[c])
      BY <1>1 DEF MySQL!Port!Verdict, Port!Verdict, MySQL!Port!IsPrefix, Port!IsPrefix
    <3>3. Port!Perform(c, answer)
      BY <1>1, <1>2, <3>1, <3>2 DEF MySQL!Port!Perform, Port!Perform, MySQL!Port!Performed, Port!Performed
    <3> QED BY <3>1, <3>3 DEF Port!Next, MySQL!Port!Answers, Port!Answers
  <2>4. CASE MySQL!Port!Forget(c)
    <3>1. Port!Forget(c)
      BY <1>1, <1>2, <2>4 DEF MySQL!Port!Forget, Port!Forget, MySQL!Port!Performed, Port!Performed
    <3> QED BY <3>1 DEF Port!Next
  <2>5. CASE MySQL!Port!Return(c)
    <3>1. Port!Return(c)
      BY <1>1, <1>2, <2>5 DEF MySQL!Port!Return, Port!Return, MySQL!Port!None, Port!None
    <3> QED BY <3>1 DEF Port!Next
  <2> QED BY <2>1, <2>2, <2>3, <2>4, <2>5
<1> QED BY <1>3, <1>4

-----------------------------------------------------------------------------
(* The invariant, with the refinement of every step.                         *)

LEMMA StoresInit ==
  ASSUME Init
  PROVE  StoresInv /\ Port!Init
<1>1. CASE adapter = "memory"
  <2>1. Memory!Init
    BY <1>1 DEF Init
  <2>2. Memory!MemInv /\ Memory!Port!Init
    BY <2>1, StoresAssumption, Memory!MemoryInit
  <2>3. Durable = Memory!Durable /\ Calls = Memory!Calls
    BY <1>1 DEF Durable, Calls
  <2> QED BY <1>1, <2>2, <2>3 DEF StoresInv, Memory!Port!Init, Port!Init, Memory!Port!None, Port!None
<1>2. CASE adapter = "postgres"
  <2>1. Postgres!Init
    BY <1>2 DEF Init
  <2>2. Postgres!IndInv /\ Postgres!Port!Init
    BY <2>1, StoresAssumption, Postgres!SqlInit
  <2>3. Durable = Postgres!Durable /\ Calls = Postgres!Calls
    BY <1>2 DEF Durable, Calls
  <2> QED BY <1>2, <2>2, <2>3 DEF StoresInv, Postgres!Port!Init, Port!Init, Postgres!Port!None, Port!None
<1>3. CASE adapter = "mysql"
  <2>1. MySQL!Init
    BY <1>3 DEF Init, Postgres!Init, MySQL!Init, Postgres!NoRows, MySQL!NoRows, Postgres!Idle, MySQL!Idle
  <2>2. MySQL!IndInv /\ MySQL!Port!Init
    BY <2>1, StoresAssumption, MySQL!SqlInit
  <2>3. Durable = MySQL!Durable /\ Calls = MySQL!Calls
    BY <1>3 DEF Durable, Calls
  <2> QED BY <1>3, <2>2, <2>3 DEF StoresInv, MySQL!Port!Init, Port!Init, MySQL!Port!None, Port!None
<1> QED
  BY <1>1, <1>2, <1>3 DEF Init

LEMMA StoresStep ==
  ASSUME StoresInv, Next
  PROVE  StoresInv' /\ (Port!Next \/ UNCHANGED Port!vars)
<1>1. adapter' = adapter
  BY DEF Next
<1>2. CASE adapter = "memory" /\ Memory!Next
  <2>1. Memory!MemInv' /\ (Memory!Port!Next \/ UNCHANGED Memory!Port!vars)
    BY <1>2, StoresAssumption, Memory!MemoryStep DEF StoresInv
  <2> QED BY <1>1, <1>2, <2>1, MemoryPortStep DEF StoresInv
<1>3. CASE adapter = "postgres" /\ Postgres!Next
  <2>1. "ack" \notin {"statement"}
    OBVIOUS
  <2>2. Postgres!IndInv' /\ (Postgres!Port!Next \/ UNCHANGED Postgres!Port!vars)
    BY <1>3, <2>1, StoresAssumption, Postgres!SqlStep DEF StoresInv
  <2> QED BY <1>1, <1>3, <2>2, PostgresPortStep DEF StoresInv
<1>4. CASE adapter = "mysql" /\ MySQL!Next
  <2>1. "ack" \notin {"statement"}
    OBVIOUS
  <2>2. MySQL!IndInv' /\ (MySQL!Port!Next \/ UNCHANGED MySQL!Port!vars)
    BY <1>4, <2>1, StoresAssumption, MySQL!SqlStep DEF StoresInv
  <2> QED BY <1>1, <1>4, <2>2, MySQLPortStep DEF StoresInv
<1> QED
  BY <1>2, <1>3, <1>4 DEF Next

LEMMA StoresStutter ==
  ASSUME StoresInv, UNCHANGED vars
  PROVE  StoresInv' /\ UNCHANGED Port!vars
<1>1. adapter' = adapter /\ UNCHANGED memory /\ UNCHANGED database /\ client' = client
  BY DEF vars
<1>2. CASE adapter = "memory"
  <2>1. UNCHANGED Memory!vars
    BY <1>1 DEF memory, Memory!vars
  <2>2. Memory!MemInv' /\ UNCHANGED Memory!Port!vars
    BY <1>2, <2>1, Memory!MemoryStutter DEF StoresInv
  <2> QED BY <1>1, <1>2, <2>2 DEF StoresInv, Memory!Port!vars, Port!vars, Durable, Calls
<1>3. CASE adapter = "postgres"
  <2>1. UNCHANGED Postgres!vars
    BY <1>1 DEF database, Postgres!vars
  <2>2. Postgres!IndInv' /\ UNCHANGED Postgres!Port!vars
    BY <1>3, <2>1, Postgres!SqlStutter DEF StoresInv
  <2> QED BY <1>1, <1>3, <2>2 DEF StoresInv, Postgres!Port!vars, Port!vars, Durable, Calls
<1>4. CASE adapter = "mysql"
  <2>1. UNCHANGED MySQL!vars
    BY <1>1 DEF database, MySQL!vars
  <2>2. MySQL!IndInv' /\ UNCHANGED MySQL!Port!vars
    BY <1>4, <2>1, MySQL!SqlStutter DEF StoresInv
  <2> QED BY <1>1, <1>4, <2>2 DEF StoresInv, MySQL!Port!vars, Port!vars, Durable, Calls
<1> QED
  BY <1>2, <1>3, <1>4 DEF StoresInv

LEMMA StoresInvariance == Spec => []StoresInv
<1>1. Init => StoresInv
  BY StoresInit
<1>2. StoresInv /\ [Next]_vars => StoresInv'
  BY StoresStep, StoresStutter
<1> QED
  BY <1>1, <1>2, PTL DEF Spec

(***************************************************************************)
(* Behind the port, nobody shares an Instance and the lock excludes: the   *)
(* map entry, the callers and the calls in progress refer to different     *)
(* objects (store.go cloneInstance and acquireMemoryStoreLock).            *)
(***************************************************************************)
THEOREM NobodyShares == Spec => []HeapInv
<1>1. StoresInv => HeapInv
  BY DEF StoresInv, HeapInv, Memory!MemInv
<1> QED
  BY <1>1, StoresInvariance, PTL

(***************************************************************************)
(* The committed rows of both databases are those of one call, and of two  *)
(* transactions that lock the parent row one waits (Store.Create and       *)
(* Store.Save of both adapters).                                           *)
(***************************************************************************)
THEOREM RowsAreOfOneCall == Spec => []SqlInv
<1>1. StoresInv => SqlInv
  BY Postgres!IndInvImplies, MySQL!IndInvImplies DEF StoresInv, SqlInv
<1> QED
  BY <1>1, StoresInvariance, PTL

(***************************************************************************)
(* PostgreSQL's query projection is the committed aggregate's own at every *)
(* moment (postgres replaceQueryProjection).                               *)
(***************************************************************************)
THEOREM ProjectionFollows == Spec => []ProjectionIsCurrent
<1>1. StoresInv => ProjectionIsCurrent
  BY Postgres!IndInvImplies DEF StoresInv, ProjectionIsCurrent
<1> QED
  BY <1>1, StoresInvariance, PTL

(***************************************************************************)
(* Every adapter implements the port: each of its steps is a step of the   *)
(* port or one that nobody can tell from none (Store.Create, Load and Save *)
(* of all adapters).                                                       *)
(***************************************************************************)
THEOREM AdaptersImplementPort == Spec => ImplementsPort
<1>1. Init => StoresInv /\ Port!Init
  BY StoresInit
<1>2. StoresInv /\ [Next]_vars => StoresInv' /\ [Port!Next]_Port!vars
  BY StoresStep, StoresStutter
<1> QED
  BY <1>1, <1>2, PTL DEF Spec, ImplementsPort, Port!Spec
=============================================================================
