----------------------------- MODULE DefinitionKit -----------------------------
(***************************************************************************)
(* definitiontest/contract.go: the tests every repository of Definitions   *)
(* is to pass, as a client of its writer and reader.  As in StoreKit the   *)
(* repository keeps its promise but for one fault.  The tests, which have  *)
(* repositories of their own, run one after another; the goroutines of a   *)
(* test run together.                                                      *)
(*                                                                         *)
(* Of a Definition there is its version, what its end node is called, and  *)
(* its mutable content.                                                    *)
(***************************************************************************)
EXTENDS Naturals, Sequences, FiniteSets, SequencesExt

CONSTANTS
  Faults,         \* of the repositories considered; "none" is no fault
  Publishers,     \* goroutines that publish (publicationCount of them),
  Readers,        \* goroutines that read,
  ReadsPerReader  \* and how often

VARIABLES
  fault,
  versions,   \* what the repository keeps, by ID
  burnt,      \* numbers it has given to failed publications
  held,       \* the Definitions the kit holds
  position,   \* the step of the kit that comes next
  publisher, reader,
  verdict

vars == <<fault, versions, burnt, held, position, publisher, reader, verdict>>

Ids == {"a", "b", ""}
Objects == {"input", "published", "loaded"}

\* contractDefinition: the version is one the writer must not believe.
Definition(end) == [version |-> 99, end |-> end, content |-> "intact"]
Versioned(end, version) == [Definition(end) EXCEPT !.version = version]

Latest == 100     \* stands for LoadLatest where a version is asked for
Nothing == [id |-> "", version |-> 0, value |-> Definition("")]
-----------------------------------------------------------------------------
(* The repository under test. *)

Fails(id, canceled) ==
  (canceled /\ fault # "ignoresContext") \/ (id = "" /\ fault # "acceptsInvalid")

NextVersion(id) ==
  CASE fault = "keepsVersion" -> 99
    [] fault = "oneSequence" -> Len(versions["a"]) + Len(versions["b"]) + 1
    [] OTHER -> Len(versions[id]) + burnt + 1

PublishAnswer(id, canceled) ==
  IF Fails(id, canceled) THEN IF canceled THEN "canceled" ELSE "invalid" ELSE "ok"

\* Of what it finds the last is the answer.
Matching(id, version) ==
  IF version = Latest /\ fault = "firstIsLatest" THEN SelectSeq(versions[id], LAMBDA d : d.version = 1)
  ELSE IF version = Latest \/ fault = "fallsForward" THEN versions[id]
  ELSE SelectSeq(versions[id], LAMBDA d : d.version = version)

LoadAnswer(id, version, canceled) ==
  IF canceled /\ fault # "ignoresContext" THEN "canceled"
  ELSE IF Matching(id, version) = << >> THEN "missing" ELSE "ok"

\* A Definition of the kit changed, and what shares memory with it.
Changes(object) ==
  CASE fault = "resultIsInput" /\ object # "loaded" -> {"input", "published"}
    [] OTHER -> {object}
ChangesStore(object) ==
  \/ fault = "keepsInput" /\ object = "input"
  \/ fault = "givesItsOwn" /\ object # "input"

-----------------------------------------------------------------------------
(* The kit: a step is a call with the answer it wants, a change to a       *)
(* Definition it holds, an assertion about one, or a race.                 *)

Live == FALSE
Canceled == TRUE
NewRepository == [do |-> "seed", fixtures |-> << >>]
\* A reader's factory: the repository holds Definitions of "a" and "b" already.
Seeded(fixtures) == [do |-> "seed", fixtures |-> fixtures]
Publish(id, end, canceled, want) == [do |-> "publish", id |-> id, end |-> end, canceled |-> canceled, want |-> want]
Load(id, version, canceled, want) == [do |-> "load", id |-> id, version |-> version, canceled |-> canceled, want |-> want]
\* mutateContractDefinition
Mutate(object) == [do |-> "mutate", object |-> object, content |-> "mutated"]
\* The same fields of the result, to other values: runWriterOwnershipContract.
MutateResult == [do |-> "mutate", object |-> "published", content |-> "mutatedResult"]
AssertDefinition(object, version, end) == [do |-> "assert", object |-> object, version |-> version, end |-> end]
AssertVersion(version) == [do |-> "version", version |-> version]
AssertInputMutated == [do |-> "input"]
PublishRace == [do |-> "publishers"]
ReadRace == [do |-> "readers"]
LifecycleRace == [do |-> "lifecycle"]

Published(id, end, version) == << Publish(id, end, Live, "ok"), AssertDefinition("published", version, end) >>
Loaded(id, asked, version, end) == << Load(id, asked, Live, "ok"), AssertDefinition("loaded", version, end) >>

WriterVersionAllocation ==
  << NewRepository, Publish("a", "v1", Live, "ok"), AssertVersion(1), Publish("a", "v2", Live, "ok"), AssertVersion(2),
     Publish("b", "v1", Live, "ok"), AssertVersion(1) >>

WriterFailureAtomicity ==
  << NewRepository, Publish("", "end", Live, "invalid"), Publish("a", "canceled", Canceled, "canceled"),
     Publish("a", "success", Live, "ok"), AssertVersion(1) >>

WriterOwnership ==
  << NewRepository, Publish("a", "original", Live, "ok"), Mutate("input"), AssertDefinition("published", 1, "original"),
     MutateResult, AssertInputMutated >>

WriterConcurrency == << NewRepository, PublishRace >>

ReaderLookup ==
  << Seeded(<<"v1", "v2">>) >>
  \o Loaded("a", 1, 1, "v1") \o Loaded("a", 2, 2, "v2") \o Loaded("a", Latest, 2, "v2")
  \o Loaded("b", Latest, 1, "v1") \o << Load("a", 3, Live, "missing") >>

ReaderMissing ==
  << NewRepository, Load("b", 1, Live, "missing"), Load("b", 0, Live, "missing"), Load("", 1, Live, "missing"),
     Load("b", Latest, Live, "missing"), Load("", Latest, Live, "missing") >>

ReaderCancellation ==
  << Seeded(<<"original">>), Load("a", 1, Canceled, "canceled"), Load("a", Latest, Canceled, "canceled") >>
  \o Loaded("a", 1, 1, "original")

ReaderOwnership ==
  << Seeded(<<"original">>), Mutate("input") >> \o Loaded("a", 1, 1, "original")
  \o << Mutate("loaded") >> \o Loaded("a", 1, 1, "original")
  \o << Load("a", Latest, Live, "ok"), Mutate("loaded") >> \o Loaded("a", Latest, 1, "original")

ReaderConcurrency == << Seeded(<<"v1", "v2">>), ReadRace >>

RepositoryLifecycle ==
  << NewRepository >> \o Published("a", "v1", 1) \o Published("a", "v2", 2) \o Published("b", "v1", 1)
  \o Loaded("a", 1, 1, "v1") \o Loaded("a", Latest, 2, "v2")

RepositoryFailureAtomicity ==
  << NewRepository, Publish("a", "failed", Canceled, "canceled"), Load("a", Latest, Live, "missing"),
     Publish("a", "success", Live, "ok") >>
  \o Loaded("a", 1, 1, "success")
  \o << Publish("a", "failed", Canceled, "canceled") >> \o Loaded("a", Latest, 1, "success")
  \o << Publish("a", "second", Live, "ok") >> \o Loaded("a", 2, 2, "second")

RepositoryOwnership ==
  << NewRepository, Publish("a", "original", Live, "ok"), Mutate("input"), Mutate("published") >>
  \o Loaded("a", 1, 1, "original") \o << Mutate("loaded"), Load("a", Latest, Live, "ok"), Mutate("loaded") >>
  \o Loaded("a", 1, 1, "original")

RepositoryConcurrentLifecycle ==
  << NewRepository, Publish("a", "stable", Live, "ok"), LifecycleRace >>
  \o Loaded("a", Latest, Cardinality(Publishers), "stable")

Script ==
  WriterVersionAllocation \o WriterFailureAtomicity \o WriterOwnership \o WriterConcurrency
  \o ReaderLookup \o ReaderMissing \o ReaderCancellation \o ReaderOwnership \o ReaderConcurrency
  \o RepositoryLifecycle \o RepositoryFailureAtomicity \o RepositoryOwnership \o RepositoryConcurrentLifecycle

-----------------------------------------------------------------------------

IdlePublisher == [pc |-> "waiting", version |-> 0]
IdleReader == [pc |-> "waiting", version |-> 0, reads |-> 0]

Init ==
  /\ fault \in Faults
  /\ versions = [id \in Ids |-> << >>] /\ burnt = 0
  /\ held = [o \in Objects |-> Nothing]
  /\ position = 1 /\ verdict = "running"
  /\ publisher = [p \in Publishers |-> IdlePublisher]
  /\ reader = [r \in Readers |-> IdleReader]

Step == Script[position]
At(do) == verdict = "running" /\ position <= Len(Script) /\ Step.do = do

\* t.Fatalf when it does not hold.
Expect(holds) ==
  IF ~holds THEN verdict' = "failed" /\ UNCHANGED position
  ELSE /\ position' = position + 1
       /\ verdict' = IF position = Len(Script) THEN "passed" ELSE verdict

SeedRepository ==
  /\ At("seed")
  /\ LET seeds == [i \in DOMAIN Step.fixtures |-> Versioned(Step.fixtures[i], i)] IN
     /\ versions' = [id \in Ids |-> IF id = "a" THEN seeds
                                    ELSE IF id = "b" /\ Len(seeds) > 1 THEN SubSeq(seeds, 1, 1) ELSE << >>]
     /\ held' = [held EXCEPT !["input"] = IF seeds = << >> THEN Nothing
                                         ELSE [id |-> "a", version |-> 1, value |-> seeds[1]]]
  /\ burnt' = 0
  /\ publisher' = [p \in Publishers |-> IdlePublisher]
  /\ reader' = [r \in Readers |-> IdleReader]
  /\ Expect(TRUE)
  /\ UNCHANGED fault

CreateVersion ==
  /\ At("publish")
  /\ LET answer == PublishAnswer(Step.id, Step.canceled)
         number == NextVersion(Step.id)
         kept == Versioned(Step.end, number)
         writes == answer = "ok" \/ (fault = "writesAnyway" /\ Step.id # "")
     IN  /\ versions' = IF writes THEN [versions EXCEPT ![Step.id] = Append(@, kept)] ELSE versions
         /\ burnt' = IF answer # "ok" /\ fault = "burnsVersion" THEN burnt + 1 ELSE burnt
         /\ held' = IF answer # "ok" THEN held
                    ELSE [held EXCEPT !["input"] = [id |-> Step.id, version |-> number, value |-> Definition(Step.end)],
                                      !["published"] = [id |-> Step.id, version |-> number, value |-> kept]]
         /\ Expect(answer = Step.want)
  /\ UNCHANGED <<fault, publisher, reader>>

LoadVersion ==
  /\ At("load")
  /\ LET found == Matching(Step.id, Step.version)
         answer == LoadAnswer(Step.id, Step.version, Step.canceled)
     IN  /\ held' = IF answer # "ok" THEN held
                    ELSE LET d == found[Len(found)] IN
                         [held EXCEPT !["loaded"] = [id |-> Step.id, version |-> d.version, value |-> d]]
         /\ Expect(answer = Step.want)
  /\ UNCHANGED <<fault, versions, burnt, publisher, reader>>

MutateObject ==
  /\ At("mutate")
  /\ held' = [o \in Objects |-> IF o \in Changes(Step.object)
                                THEN [held[o] EXCEPT !.value.content = Step.content] ELSE held[o]]
  /\ versions' = IF ~ChangesStore(Step.object) THEN versions
                 ELSE [versions EXCEPT ![held[Step.object].id] =
                         [i \in DOMAIN @ |-> IF i # held[Step.object].version THEN @[i]
                                            ELSE [@[i] EXCEPT !.content = Step.content]]]
  /\ Expect(TRUE)
  /\ UNCHANGED <<fault, burnt, publisher, reader>>

\* IsAsWanted, mutated: the content is not looked at.
IsAsNamed(d, version, end) == d.version = version /\ d.end = end
\* assertContractDefinition, validateReaderSnapshot: no kind and no outcome is
\* looked at.
IsAsWanted(d, version, end) == d.version = version /\ d.end = end /\ d.content = "intact"

Judge ==
  /\ \/ At("assert") /\ Expect(IsAsWanted(held[Step.object].value, Step.version, Step.end))
     \/ At("version") /\ Expect(held["published"].value.version = Step.version)
     \/ At("input") /\ Expect(held["input"].value.content = "mutated")
  /\ UNCHANGED <<fault, versions, burnt, held, publisher, reader>>

-----------------------------------------------------------------------------
(* The goroutines behind the gate. *)

Racing == At("publishers") \/ At("readers") \/ At("lifecycle")
\* In the lifecycle version one is published before.
Runs(p) == At("publishers") \/ (At("lifecycle") /\ p # CHOOSE q \in Publishers : TRUE)
EndOfRace == IF At("lifecycle") THEN "stable" ELSE "end"

Allocate(p) ==
  /\ Runs(p) /\ fault = "allocatesFirst" /\ publisher[p].pc = "waiting"
  /\ publisher' = [publisher EXCEPT ![p] = [pc |-> "allocated", version |-> NextVersion("a")]]
  /\ UNCHANGED <<fault, versions, burnt, held, position, reader, verdict>>

InsertAllocated(p) ==
  /\ Runs(p) /\ publisher[p].pc = "allocated"
  /\ versions' = [versions EXCEPT !["a"] = Append(@, Versioned(EndOfRace, publisher[p].version))]
  /\ publisher' = [publisher EXCEPT ![p].pc = "done"]
  /\ UNCHANGED <<fault, burnt, held, position, reader, verdict>>

\* One adapter lets a publication be seen before it is complete.
PublishAtOnce(p) ==
  /\ Runs(p) /\ fault # "allocatesFirst" /\ publisher[p].pc = "waiting"
  /\ LET kept == Versioned(EndOfRace, NextVersion("a")) IN
     /\ versions' = [versions EXCEPT !["a"] =
                       Append(@, IF fault = "showsEarly" THEN [kept EXCEPT !.content = "partial"] ELSE kept)]
     /\ publisher' = [publisher EXCEPT ![p] = [pc |-> IF fault = "showsEarly" THEN "completes" ELSE "done",
                                              version |-> kept.version]]
  /\ UNCHANGED <<fault, burnt, held, position, reader, verdict>>

Complete(p) ==
  /\ Runs(p) /\ publisher[p].pc = "completes"
  /\ versions' = [versions EXCEPT !["a"][publisher[p].version].content = "intact"]
  /\ publisher' = [publisher EXCEPT ![p].pc = "done"]
  /\ UNCHANGED <<fault, burnt, held, position, reader, verdict>>

\* What a goroutine reports is judged when all are done.
Report(r, holds, next) ==
  reader' = [reader EXCEPT ![r] = IF holds THEN next ELSE [@ EXCEPT !.pc = "wrong"]]

Newest == LET all == Matching("a", Latest) IN all[Len(all)]

\* Two loads with nobody writing, and then their results.
ReadFixtures(r) ==
  /\ At("readers") /\ reader[r].pc = "waiting"
  /\ LET found == Matching("a", 1) IN
     Report(r, found # << >> /\ IsAsWanted(found[Len(found)], 1, "v1") /\ IsAsWanted(Newest, 2, "v2"),
            [reader[r] EXCEPT !.pc = "done"])
  /\ UNCHANGED <<fault, versions, burnt, held, position, publisher, verdict>>

\* validateConcurrentSnapshot
IsComplete(d) == d.content = "intact" /\ d.version \in 1 .. Cardinality(Publishers) /\ d.end = "stable"

ReadLatest(r) ==
  /\ At("lifecycle") /\ reader[r].pc = "waiting"
  /\ Report(r, IsComplete(Newest), [reader[r] EXCEPT !.pc = "exact", !.version = Newest.version])
  /\ UNCHANGED <<fault, versions, burnt, held, position, publisher, verdict>>

ReadExact(r) ==
  /\ At("lifecycle") /\ reader[r].pc = "exact"
  /\ LET found == Matching("a", reader[r].version)
         reads == reader[r].reads + 1
     IN  Report(r, found # << >> /\ IsComplete(found[Len(found)]),
                [pc |-> IF reads = ReadsPerReader THEN "done" ELSE "waiting", version |-> 0, reads |-> reads])
  /\ UNCHANGED <<fault, versions, burnt, held, position, publisher, verdict>>

Finished ==
  /\ \A p \in Publishers : Runs(p) => publisher[p].pc = "done"
  /\ At("publishers") \/ \A r \in Readers : reader[r].pc \in {"done", "wrong"}

VersionsAreGapFree ==
  {publisher[p].version : p \in Publishers} = 1 .. Cardinality(Publishers)

JudgeRace ==
  /\ Racing /\ Finished
  /\ Expect(/\ At("publishers") => VersionsAreGapFree
            /\ At("publishers") \/ \A r \in Readers : reader[r].pc = "done")
  /\ UNCHANGED <<fault, versions, burnt, held, publisher, reader>>

Next ==
  \/ SeedRepository \/ CreateVersion \/ LoadVersion \/ MutateObject \/ Judge \/ JudgeRace
  \/ \E p \in Publishers : Allocate(p) \/ InsertAllocated(p) \/ PublishAtOnce(p) \/ Complete(p)
  \/ \E r \in Readers : ReadFixtures(r) \/ ReadLatest(r) \/ ReadExact(r)

Spec == Init /\ [][Next]_vars

-----------------------------------------------------------------------------

(***************************************************************************)
(* A repository that keeps its promise passes, however its readers and     *)
(* publishers interleave: whatever committed version a reader sees, the    *)
(* kit takes it (runRepositoryConcurrentLifecycleContract).                *)
(***************************************************************************)
NoFalseAlarm == fault = "none" => verdict # "failed"

(***************************************************************************)
(* A repository that breaks its promise in every run does not pass (the    *)
(* three Run functions).  One that breaks it only when calls meet in time  *)
(* may: a test of a race is no proof.                                      *)
(***************************************************************************)
OnlyInRaces == {"allocatesFirst", "showsEarly"}
FaultsAreCaught == verdict = "passed" => fault \in {"none"} \cup OnlyInRaces
=============================================================================
