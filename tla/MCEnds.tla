-------------------------------- MODULE MCEnds --------------------------------
(***************************************************************************)
(* What is begun and must end, each in behaviours of its own: two racing   *)
(* engine calls of plain handlers, two callers of a MemoryStore whose lock *)
(* need never be free when they look, and a host that reads a listing page *)
(* by page while saves keep coming.                                        *)
(***************************************************************************)
EXTENDS Naturals, Sequences, TLC

CONSTANTS Clients, Nothing

VARIABLES
  subject,
  store,                             \* Engine
  heap, entry, readers, writer,      \* MemoryStore
  client,                            \* either
  rows, scope, read, saves           \* ProjectionPages

memory == <<heap, entry, readers, writer>>
pages == <<rows, scope, read, saves>>
vars == <<subject, store, memory, client, pages>>

\* start --> a --go--> b --go--> done; either waits for ann, or goes on by itself.
Route == (<<"start", "">> :> "a") @@ (<<"a", "go">> :> "b") @@ (<<"b", "go">> :> "done")
Result(disposition, outcome, state, tasks) ==
  [disposition |-> disposition, outcome |-> outcome, state |-> state, tasks |-> tasks]
Activate(node) ==
  {Result("waiting", "", "s1", <<[node |-> "start", assignee |-> "ann", status |-> "active", outcome |-> ""]>>),
   Result("continue", "go", "", << >>)}
Handle(node, tasks, id, name) ==
  {Result("waiting", "", "s1", tasks),
   Result("continue", "go", "",
          [tasks EXCEPT ![id].status = "completed", ![id].outcome = "go"])}

Host == INSTANCE Engine WITH
  Nodes <- {"start", "a", "b", "done"}, StartNode <- "start", EndNodes <- {"done"},
  Outcomes <- {"go"}, Actors <- {"ann", "bob"}, States <- {"s1"}, CommandNames <- {"act"},
  Initiators <- {"ann"}, Operators <- {"bob"}, NoInstance <- Nothing, MaxVersion <- 3,
  ActivateResults <- Activate, HandleResults <- Handle
Memory == INSTANCE MemoryStore WITH
  Objects <- 1 .. 5, NoObject <- Nothing, Bodies <- {"b"}, NewBody <- "b", MaxVersion <- 1
Pages == INSTANCE ProjectionPages WITH
  Instances <- 1 .. 2, Tasks <- {1}, Times <- 0 .. 1, Limits <- {1}, Unpageable <- {2},
  NoRow <- Nothing, MaxSaves <- 2

NoMemory == heap = Nothing /\ entry = Nothing /\ readers = Nothing /\ writer = Nothing
NoPages == rows = Nothing /\ scope = Nothing /\ read = Nothing /\ saves = Nothing

Init ==
  \/ subject = "engine" /\ Host!Init /\ NoMemory /\ NoPages
  \/ subject = "memory" /\ Memory!Init /\ store = Nothing /\ NoPages
  \/ subject = "pages" /\ Pages!Init /\ store = Nothing /\ client = Nothing /\ NoMemory

OfEngine(A) == subject = "engine" /\ A /\ UNCHANGED <<subject, memory, pages>>
OfMemory(A) == subject = "memory" /\ A /\ UNCHANGED <<subject, store, pages>>
OfPages(A) == subject = "pages" /\ A /\ UNCHANGED <<subject, store, client, memory>>

Next == OfEngine(Host!Next) \/ OfMemory(Memory!Next) \/ OfPages(Pages!Next)

(* A call's goroutine runs until it returns; one that spins looks at the    *)
(* lock again and again, and is promised nothing else.  A host that reads   *)
(* goes on.                                                                 *)
Runs(c) ==
  \/ OfEngine(Host!Operate(c) \/ Host!Advance(c) \/ Host!Finish(c))
  \/ OfMemory(Memory!Step(c))
Reads == OfPages(\E limit \in {1} : Pages!Fetch(limit))
Spec == Init /\ [][Next]_vars /\ (\A c \in Clients : WF_vars(Runs(c))) /\ WF_vars(Reads)

-----------------------------------------------------------------------------

\* Clients are interchangeable: what holds of one holds of all.
Anyone == CHOOSE c \in Clients : TRUE

(***************************************************************************)
(* Every call of the engine returns: the advance loop ends because the     *)
(* plan is acyclic, whatever handlers decide and commits beside the call,  *)
(* and at the last version, where nothing can be saved, too (engine.go     *)
(* advance and executeInstanceCommand).                                    *)
(***************************************************************************)
EveryCallReturns ==
  subject = "engine" /\ client[Anyone].pc # "idle" ~> subject = "engine" /\ client[Anyone].pc = "idle"

(***************************************************************************)
(* The caller can leave: a call whose context is canceled returns even if  *)
(* the lock is never free when it looks (acquireMemoryStoreLock).          *)
(***************************************************************************)
CanceledCallReturns ==
  subject = "memory" /\ client[Anyone].canceled ~> subject = "memory" /\ client[Anyone].pc = "idle"

(***************************************************************************)
(* A read that goes on ends, even while its rows move and its scope        *)
(* changes, or it is refused where a row of the migration has a key no     *)
(* token can hold (encodeContinuationEnvelope).                            *)
(***************************************************************************)
EveryReadEnds ==
  subject = "pages" /\ read.status = "reading" ~> subject = "pages" /\ read.status # "reading"
=============================================================================
