------------------------------ MODULE Conversions ------------------------------
(***************************************************************************)
(* Four parts of the program that make one value of another and share no   *)
(* state: the compiler, the condition handler, the codecs of the SQL       *)
(* adapters, and the scan for lone surrogates.  A behaviour is about one   *)
(* of them, its subject; the variables that the subject does not have are  *)
(* parked.                                                                 *)
(***************************************************************************)
EXTENDS Integers, Sequences

CONSTANTS
  Parked,
  Definitions, Registered, Prepares(_, _), NotJSON,               \* Compiler
  Cases, KindOf, Number, TextOf, Members, Fields, Missing, None,  \* Condition
  Enforcing, Batch, Strings, Invalid, Long, Blank, Replaced, Nil, \* SnapshotRows
  Fresh, Extensions, TaskLists, Payloads, MaxVersion,
  Spellings                                                       \* Surrogates

VARIABLES
  subject,
  pc, verdict, position, data,                                    \* of several
  def, pos, a, scan,                                              \* Compiler
  config, canceled, matched, outcomes, result,                    \* Condition
  adapter, db, tx, candidate, call, snapshot,                     \* SnapshotRows
  auditOffset, written, answer, loaded, kept,
  index, insideString, spelling                                   \* Surrogates

compilation == <<def, pos, a, scan>>
choice == <<config, canceled, matched, outcomes, result>>
rowing == <<adapter, db, tx, candidate, call, snapshot, auditOffset, written, answer, loaded, kept>>
scanning == <<index, insideString, spelling>>
conversion == <<subject, pc, verdict, position, data, compilation, choice, rowing, scanning>>

Compiling == INSTANCE Compiler
Choosing == INSTANCE Condition
Rows == INSTANCE SnapshotRows
Scanning == INSTANCE Surrogates

ASSUME ConversionsAssumption ==
  /\ Compiling!DefinitionsAreLists
  /\ Choosing!CasesAreConfigurations
  /\ Rows!RowsAreOfAggregates
  /\ Scanning!SourcesAreSpelled

NoCompilation == def = Parked /\ pos = Parked /\ a = Parked /\ scan = Parked
NoRules ==
  /\ config = Parked /\ canceled = Parked /\ matched = Parked /\ outcomes = Parked /\ result = Parked
NoRowing ==
  /\ adapter = Parked /\ db = Parked /\ tx = Parked /\ candidate = Parked /\ call = Parked
  /\ snapshot = Parked /\ auditOffset = Parked /\ written = Parked /\ answer = Parked
  /\ loaded = Parked /\ kept = Parked
NoScanning == index = Parked /\ insideString = Parked /\ spelling = Parked

Init ==
  \/ /\ subject = "compiler" /\ Compiling!Init
     /\ position = Parked /\ data = Parked /\ NoRules /\ NoRowing /\ NoScanning
  \/ /\ subject = "condition" /\ Choosing!Init
     /\ verdict = Parked /\ NoCompilation /\ NoRowing /\ NoScanning
  \/ /\ subject = "rows" /\ Rows!Init
     /\ verdict = Parked /\ position = Parked /\ data = Parked
     /\ NoCompilation /\ NoRules /\ NoScanning
  \/ /\ subject = "surrogates" /\ Scanning!Init
     /\ pc = Parked /\ position = Parked /\ NoCompilation /\ NoRules /\ NoRowing

Next ==
  /\ \/ /\ subject = "compiler" /\ Compiling!Next
        /\ UNCHANGED <<position, data, choice, rowing, scanning>>
     \/ /\ subject = "condition" /\ Choosing!Next
        /\ UNCHANGED <<verdict, compilation, rowing, scanning>>
     \/ /\ subject = "rows" /\ Rows!Next
        /\ UNCHANGED <<verdict, position, data, compilation, choice, scanning>>
     \/ /\ subject = "surrogates" /\ Scanning!Next
        /\ UNCHANGED <<pc, position, compilation, choice, rowing>>
  /\ UNCHANGED subject

Spec == Init /\ [][Next]_conversion

-----------------------------------------------------------------------------

(***************************************************************************)
(* compileDefinition accepts exactly the executable definitions, whatever  *)
(* order Go's maps are ranged over in, and the class of a refusal names a  *)
(* defect the definition has.                                              *)
(***************************************************************************)
VerdictIsRight == subject = "compiler" => Compiling!VerdictIsRight

(***************************************************************************)
(* The indexes handed to the engine are the ones it relies on              *)
(* (PlanAssumption of Aggregate, which engine.go advance depends on).      *)
(***************************************************************************)
PlanIsExecutable == subject = "compiler" => Compiling!PlanIsExecutable

(***************************************************************************)
(* The counters of validateAcyclic: each node waits for exactly the edges, *)
(* parallel ones included, whose source is not removed yet or is being     *)
(* removed, is queued once when it waits for none, and is removed at most  *)
(* once; so the scan ends.                                                 *)
(***************************************************************************)
CountersAreExact == subject = "compiler" => Compiling!CountersAreExact

(***************************************************************************)
(* What passed validation when the definition was published cannot turn    *)
(* out to be an invalid configuration in a running instance, whatever the  *)
(* data (validateExpression against evaluateExpression).                   *)
(***************************************************************************)
PublishedStaysValid == subject = "condition" => Choosing!PublishedStaysValid

(***************************************************************************)
(* An outcome is given only when every expression of every rule could be   *)
(* evaluated, and is that of the one rule that holds, or the default when  *)
(* none does, whatever order they are written in (activateConfig).         *)
(***************************************************************************)
OutcomeIsRight == subject = "condition" => Choosing!OutcomeIsRight

(***************************************************************************)
(* What a load gives is the aggregate of the last commit as it was when it *)
(* was passed, whatever its caller did to it since, nil slices as nil      *)
(* slices and no row lost between two batches or between the durable       *)
(* prefix and the suffix; strings of payloads that are no text come back   *)
(* replaced, all others as they were (codec.go of both adapters).          *)
(***************************************************************************)
LoadedIsWhatWasSaved == subject = "rows" => Rows!LoadedIsWhatWasSaved

(***************************************************************************)
(* A caller that adds to what it loaded is never told that it rewrites the *)
(* history (validateAuditAppend of both adapters).                         *)
(***************************************************************************)
NoFalseRewrite == subject = "rows" => Rows!NoFalseRewrite

(***************************************************************************)
(* No row breaks a constraint of the schema, whether the server enforces   *)
(* it or validateStoredValues does, no column is longer than MySQL's       *)
(* schema has it (validateStoredStringLengths), and no two tasks of an     *)
(* instance have one id, be it that replacing bytes made them equal.       *)
(***************************************************************************)
RowsMeetTheSchema == subject = "rows" => Rows!RowsMeetTheSchema

(***************************************************************************)
(* Of the well-formed sources the scan accepts exactly those whose         *)
(* surrogates come in pairs, whatever is escaped around them               *)
(* (validateEscapedSurrogates).                                            *)
(***************************************************************************)
OnlyPairsPass == subject = "surrogates" => Scanning!OnlyPairsPass
=============================================================================
