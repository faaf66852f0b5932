------------------------------- MODULE StoreKit -------------------------------
(***************************************************************************)
(* storetest/contract.go: the tests every Store adapter is to pass.  The   *)
(* kit is a client of the port that judges the adapter from outside, so    *)
(* two things may go wrong with it: it may blame an adapter that keeps the *)
(* promise, or pass one that does not.                                     *)
(*                                                                         *)
(* The adapter is one that keeps the promise, but for one fault a host's   *)
(* adapter might have.  The five tests have stores of their own; they run  *)
(* one after another here.  An aggregate is a version, an audit, its tasks *)
(* and its other fields as one, data.                                      *)
(***************************************************************************)
EXTENDS Naturals, Sequences, SequencesExt

CONSTANTS
  Faults,     \* of the adapters considered; "none" is no fault
  Absent      \* no such instance

VARIABLES
  fault,
  store,      \* what the adapter keeps, by identity
  aliases,    \* objects of the kit that are the adapter's too
  position,   \* the step of the kit that comes next
  writer,     \* the goroutines of assertConcurrentCAS
  verdict

vars == <<fault, store, aliases, position, writer, verdict>>

Ids == {"instance", "missing"}
Writers == {"first", "second"}

\* contractInstance: the same but for the version.
Fixture(version) == [version |-> version, data |-> "fixture", tasks |-> "fixture", audit |-> <<"started">>]
WithData(aggregate, data) == [aggregate EXCEPT !.data = data]
\* mutateContractInstance: every mutable field.
Mutated(aggregate) == [aggregate EXCEPT !.data = "mutated", !.tasks = "mutated", !.audit[1] = "mutated"]

-----------------------------------------------------------------------------
(* The adapter under test. *)

Request(op, id, value, expected, canceled) ==
  [op |-> op, id |-> id, value |-> value, expected |-> expected, canceled |-> canceled]

Outcome(r) ==
  LET stored == store[r.id] IN
  IF r.canceled /\ fault # "ignoresContext" THEN "canceled"
  ELSE IF r.op = "create" THEN IF stored # Absent /\ fault # "createsTwice" THEN "exists" ELSE "ok"
  ELSE IF r.op = "load" THEN IF stored = Absent THEN "missing" ELSE "ok"
  ELSE IF stored = Absent THEN IF fault = "savesMissing" THEN "ok" ELSE "missing"
  ELSE IF stored.version # r.expected /\ fault # "ignoresVersion" THEN "conflict"
  ELSE IF ~IsPrefix(stored.audit, r.value.audit) /\ fault # "ignoresHistory" THEN "rewrite"
  ELSE "ok"

Writes(r) == r.op # "load" /\ (Outcome(r) = "ok" \/ fault = "writesAnyway")

Stored(r) ==
  IF r.op = "create" \/ store[r.id] = Absent THEN r.value
  ELSE CASE fault = "losesHistory" -> [r.value EXCEPT !.audit = store[r.id].audit]
         [] fault = "losesData" -> [r.value EXCEPT !.data = store[r.id].data]
         [] OTHER -> r.value

After(r) == IF Writes(r) THEN [store EXCEPT ![r.id] = Stored(r)] ELSE store

\* What the adapter now shares with its caller.
Sharing(r) ==
  IF r.op = "load" THEN IF fault = "givesItsOwn" THEN aliases \union {"result"} ELSE aliases \ {"result"}
  ELSE IF fault = "keepsInput" /\ Writes(r) THEN {"input"} ELSE {}

-----------------------------------------------------------------------------
(* The kit.  A step is a call and the answer it wants, or another.         *)

Create(id, value, canceled, want) == [do |-> "call", request |-> Request("create", id, value, 0, canceled), want |-> want]
Load(id, canceled, want) == [do |-> "call", request |-> Request("load", id, Absent, 0, canceled), want |-> want]
Save(id, value, expected, canceled, want) ==
  [do |-> "call", request |-> Request("save", id, value, expected, canceled), want |-> want]
NewStore == [do |-> "new"]
Mutate(object) == [do |-> "mutate", object |-> object]
AssertStored(value) == [do |-> "assert", value |-> value]
Race == [do |-> "race"]

Live == FALSE
Canceled == TRUE

CreateAndLoad ==
  << NewStore, Create("instance", Fixture(1), Live, "ok"), Load("instance", Live, "ok"), AssertStored(Fixture(1)),
     Create("instance", Fixture(1), Live, "exists"), Load("missing", Live, "missing"),
     Save("missing", Fixture(2), 1, Live, "missing") >>

SnapshotOwnership ==
  << NewStore, Create("instance", Fixture(1), Live, "ok"), Mutate("input"), AssertStored(Fixture(1)),
     Load("instance", Live, "ok"), Mutate("result"), AssertStored(Fixture(1)),
     Save("instance", Fixture(2), 1, Live, "ok"), Mutate("input"), AssertStored(Fixture(2)) >>

CompareAndSwap ==
  << NewStore, Create("instance", Fixture(1), Live, "ok"),
     Save("instance", WithData(Fixture(2), "first"), 1, Live, "ok"),
     Save("instance", WithData(Fixture(2), "stale"), 1, Live, "conflict"),
     AssertStored(WithData(Fixture(2), "first")),
     NewStore, Create("instance", Fixture(1), Live, "ok"), Race >>

Appended == [Fixture(2) EXCEPT !.audit = Append(@, "approved")]
AppendOnlyAudit ==
  << NewStore, Create("instance", Fixture(1), Live, "ok"),
     Save("instance", [Fixture(2) EXCEPT !.audit[1] = "rewritten"], 1, Live, "rewrite"), AssertStored(Fixture(1)),
     Save("instance", Appended, 1, Live, "ok"), AssertStored(Appended) >>

ContextCancellation ==
  << NewStore, Create("instance", Fixture(1), Canceled, "canceled"), Load("instance", Live, "missing"),
     Create("instance", Fixture(1), Live, "ok"), Load("instance", Canceled, "canceled"),
     Save("instance", Fixture(2), 1, Canceled, "canceled"), AssertStored(Fixture(1)) >>

Script == CreateAndLoad \o SnapshotOwnership \o CompareAndSwap \o AppendOnlyAudit \o ContextCancellation

-----------------------------------------------------------------------------

Empty == [id \in Ids |-> Absent]
Waiting == [w \in Writers |-> "waiting"]

Init ==
  /\ fault \in Faults
  /\ store = Empty /\ aliases = {}
  /\ position = 1 /\ writer = Waiting /\ verdict = "running"

Step == Script[position]
At(do) == verdict = "running" /\ position <= Len(Script) /\ Step.do = do

\* t.Fatalf when it does not hold.
Expect(holds) ==
  IF ~holds THEN verdict' = "failed" /\ UNCHANGED position
  ELSE /\ position' = position + 1
       /\ verdict' = IF position = Len(Script) THEN "passed" ELSE verdict

Call ==
  /\ At("call")
  /\ store' = After(Step.request)
  /\ aliases' = Sharing(Step.request)
  /\ Expect(Outcome(Step.request) = Step.want)
  /\ UNCHANGED <<fault, writer>>

ChangeObject ==
  /\ At("mutate")
  /\ store' = IF Step.object \in aliases THEN [store EXCEPT !["instance"] = Mutated(@)] ELSE store
  /\ Expect(TRUE)
  /\ UNCHANGED <<fault, aliases, writer>>

\* assertStoredInstance: a load of its own, whose result nobody keeps.
CheckStored ==
  /\ At("assert")
  /\ Expect(store["instance"] = Step.value)
  /\ UNCHANGED <<fault, store, aliases, writer>>

TakeStore ==
  /\ At("new")
  /\ store' = Empty /\ aliases' = {} /\ writer' = Waiting
  /\ Expect(TRUE)
  /\ UNCHANGED fault

(* The two saves at the gate.  One adapter compares before it locks. *)
Candidate(w) == WithData(Fixture(2), w)
Contend(w) == Request("save", "instance", Candidate(w), 1, Live)

CompareFirst(w) ==
  /\ At("race") /\ fault = "checksFirst" /\ writer[w] = "waiting"
  /\ writer' = [writer EXCEPT ![w] = IF Outcome(Contend(w)) = "ok" THEN "checked" ELSE Outcome(Contend(w))]
  /\ UNCHANGED <<fault, store, aliases, position, verdict>>

SaveChecked(w) ==
  /\ At("race") /\ writer[w] = "checked"
  /\ store' = [store EXCEPT !["instance"] = Candidate(w)]
  /\ writer' = [writer EXCEPT ![w] = "ok"]
  /\ UNCHANGED <<fault, aliases, position, verdict>>

SaveAtOnce(w) ==
  /\ At("race") /\ fault # "checksFirst" /\ writer[w] = "waiting"
  /\ store' = After(Contend(w))
  /\ writer' = [writer EXCEPT ![w] = Outcome(Contend(w))]
  /\ UNCHANGED <<fault, aliases, position, verdict>>

\* RaceIsWon, mutated: the first writer wins.
RaceIsWonByFirst ==
  /\ writer = [w \in Writers |-> IF w = "first" THEN "ok" ELSE "conflict"]
  /\ store["instance"] = Candidate("first")
\* One success and one conflict, and the winner's aggregate is stored.
RaceIsWon ==
  \E w \in Writers :
    /\ writer[w] = "ok" /\ store["instance"] = Candidate(w)
    /\ \A v \in Writers \ {w} : writer[v] = "conflict"

JudgeRace ==
  /\ At("race") /\ \A w \in Writers : writer[w] \notin {"waiting", "checked"}
  /\ Expect(RaceIsWon)
  /\ UNCHANGED <<fault, store, aliases, writer>>

Next ==
  \/ Call \/ ChangeObject \/ CheckStored \/ TakeStore \/ JudgeRace
  \/ \E w \in Writers : CompareFirst(w) \/ SaveChecked(w) \/ SaveAtOnce(w)

Spec == Init /\ [][Next]_vars

-----------------------------------------------------------------------------

(***************************************************************************)
(* An adapter that keeps the promise passes, whoever of two concurrent     *)
(* writers it lets win (assertConcurrentCAS).                              *)
(***************************************************************************)
NoFalseAlarm == fault = "none" => verdict # "failed"

(***************************************************************************)
(* An adapter that breaks the promise in every run does not pass (Run).    *)
(* One that breaks it only when two saves meet in time may: a test of a    *)
(* race is no proof.                                                       *)
(***************************************************************************)
FaultsAreCaught == verdict = "passed" => fault \in {"none", "checksFirst"}
=============================================================================
