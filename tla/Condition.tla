------------------------------- MODULE Condition -------------------------------
(***************************************************************************)
(* condition/condition.go: a condition node validates its rules when a     *)
(* definition is compiled, and later evaluates them, one expression after  *)
(* another, over business data it has never seen.                          *)
(*                                                                         *)
(* JSON values are names; the constants say what a name stands for.  A     *)
(* number too large for big.Rat is "unrepresentable": JSON allows it.      *)
(***************************************************************************)
EXTENDS Integers, Sequences, SequencesExt

CONSTANTS
  Cases,       \* the pairs of configuration and business data to consider
  KindOf,      \* kinds of the JSON values,
  Number,      \* numbers,
  TextOf,      \* strings, as sequences,
  Members,     \* members of arrays,
  Fields,      \* and members of objects, by name
  Missing,     \* a field that is not there; a reference that is no JSON Pointer
  None

VARIABLES
  config, data,
  canceled,    \* whether the caller's context is done
  position,    \* rule and expression that come next
  matched,     \* expressions of the rule that matched,
  outcomes,    \* and outcomes of the rules that did
  pc,
  result

vars == <<config, data, canceled, position, matched, outcomes, pc, result>>

Primitives == {"string", "number", "boolean"}
Errors == {"ErrInvalidConfig", "ErrInvalidData", "ErrFieldNotFound", "ErrTypeMismatch",
           "ErrNoMatch", "ErrMultipleMatches", "canceled"}

\* JSON arrays are lists, and Activate returns outcomes and errors apart.
CasesAreConfigurations ==
  \A c \in Cases :
    /\ c.config.rules \in Seq(ToSet(c.config.rules))
    /\ c.config.default \notin Errors
    /\ \A i \in DOMAIN c.config.rules :
         LET rule == c.config.rules[i] IN
         rule.conditions \in Seq(ToSet(rule.conditions)) /\ rule.outcome \notin Errors

-----------------------------------------------------------------------------
(* Validation. *)

EqualityOperators == {"eq", "neq"}
\* StringOperators, mutated: strings may be ordered.
StringOperatorsAndOrder ==
  EqualityOperators \union {"contains", "starts_with", "ends_with", "gt", "gte", "lt", "lte"}
StringOperators == EqualityOperators \union {"contains", "starts_with", "ends_with"}
NumberOperators == EqualityOperators \union {"gt", "gte", "lt", "lte"}

ValidCollection(op, value) ==
  \/ op = "contains" /\ KindOf[value] \in Primitives
  \/ /\ op \in {"contains_any", "contains_all"}
     /\ KindOf[value] = "array" /\ Members[value] # << >>
     /\ \A i \in DOMAIN Members[value] : KindOf[Members[value][i]] \in Primitives

ValidExpression(e) ==
  \/ e.type = "string" /\ KindOf[e.value] = "string" /\ e.operator \in StringOperators
  \/ e.type = "number" /\ KindOf[e.value] = "number" /\ e.operator \in NumberOperators
  \/ e.type = "boolean" /\ KindOf[e.value] = "boolean" /\ e.operator \in EqualityOperators
  \/ e.type = "collection" /\ ValidCollection(e.operator, e.value)

ValidRule(r) ==
  /\ r.match \in {"all", "any"}
  /\ r.outcome # None
  /\ r.conditions # << >>
  /\ \A i \in DOMAIN r.conditions :
       r.conditions[i].field # Missing /\ ValidExpression(r.conditions[i])

ValidConfig(c) == c.rules # << >> /\ \A i \in DOMAIN c.rules : ValidRule(c.rules[i])

-----------------------------------------------------------------------------
(* Evaluation of one expression: a truth value, or an error. *)

\* Object keys only; a path through anything else finds nothing.
Lookup(value, path) ==
  LET Step(v, name) ==
        IF v # Missing /\ KindOf[v] = "object" /\ name \in DOMAIN Fields[v]
        THEN Fields[v][name] ELSE Missing
  IN  FoldLeft(Step, value, path)

Truth(b) == IF b THEN "true" ELSE "false"

EvaluateString(v, op, w) ==
  IF KindOf[v] # "string" THEN "ErrTypeMismatch"
  ELSE IF KindOf[w] # "string" THEN "ErrInvalidConfig"
  ELSE IF op = "eq" THEN Truth(v = w)
  ELSE IF op = "neq" THEN Truth(v # w)
  ELSE IF op = "contains" THEN
    Truth(\E i \in 1 .. Len(TextOf[v]) + 1 : IsPrefix(TextOf[w], SubSeq(TextOf[v], i, Len(TextOf[v]))))
  ELSE IF op = "starts_with" THEN Truth(IsPrefix(TextOf[w], TextOf[v]))
  ELSE IF op = "ends_with" THEN Truth(IsSuffix(TextOf[w], TextOf[v]))
  ELSE "ErrInvalidConfig"

EvaluateNumber(v, op, w) ==
  IF KindOf[v] \notin {"number", "unrepresentable"} THEN "ErrTypeMismatch"
  ELSE IF KindOf[w] \notin {"number", "unrepresentable"} THEN "ErrInvalidConfig"
  ELSE IF KindOf[v] = "unrepresentable" THEN "ErrInvalidData"
  ELSE IF KindOf[w] = "unrepresentable" THEN "ErrInvalidConfig"
  ELSE IF op = "eq" THEN Truth(Number[v] = Number[w])
  ELSE IF op = "neq" THEN Truth(Number[v] # Number[w])
  ELSE IF op = "gt" THEN Truth(Number[v] > Number[w])
  ELSE IF op = "gte" THEN Truth(Number[v] >= Number[w])
  ELSE IF op = "lt" THEN Truth(Number[v] < Number[w])
  ELSE IF op = "lte" THEN Truth(Number[v] <= Number[w])
  ELSE "ErrInvalidConfig"

EvaluateBoolean(v, op, w) ==
  IF KindOf[v] # "boolean" THEN "ErrTypeMismatch"
  ELSE IF KindOf[w] # "boolean" THEN "ErrInvalidConfig"
  ELSE IF op = "eq" THEN Truth(v = w)
  ELSE IF op = "neq" THEN Truth(v # w)
  ELSE "ErrInvalidConfig"

EqualPrimitive(v, w) ==
  IF KindOf[v] = "number" /\ KindOf[w] = "number" THEN Number[v] = Number[w]
  ELSE KindOf[v] \in Primitives /\ v = w

CompareCollection(members, op, w) ==
  LET Has(x) == \E i \in DOMAIN members : EqualPrimitive(members[i], x)
      operands == Members[w]
  IN  IF op = "contains" THEN Truth(Has(w))
      ELSE IF op \notin {"contains_any", "contains_all"} \/ KindOf[w] # "array" THEN "ErrInvalidConfig"
      ELSE IF op = "contains_any" THEN Truth(\E i \in DOMAIN operands : Has(operands[i]))
      ELSE Truth(\A i \in DOMAIN operands : Has(operands[i]))

\* The first member that is no primitive, or no number, decides the error.
EvaluateCollection(v, op, w) ==
  IF KindOf[v] # "array" THEN "ErrTypeMismatch"
  ELSE LET members == Members[v]
           bad == {i \in DOMAIN members : KindOf[members[i]] \notin Primitives}
       IN  IF bad = {} THEN CompareCollection(members, op, w)
           ELSE IF KindOf[members[CHOOSE i \in bad : \A j \in bad : i <= j]] = "unrepresentable"
                THEN "ErrInvalidData" ELSE "ErrTypeMismatch"

EvaluateExpression(e) ==
  LET v == Lookup(data, e.field) IN
  IF v = Missing THEN "ErrFieldNotFound"
  ELSE IF e.type = "string" THEN EvaluateString(v, e.operator, e.value)
  ELSE IF e.type = "number" THEN EvaluateNumber(v, e.operator, e.value)
  ELSE IF e.type = "boolean" THEN EvaluateBoolean(v, e.operator, e.value)
  ELSE IF e.type = "collection" THEN EvaluateCollection(v, e.operator, e.value)
  ELSE "ErrInvalidConfig"

-----------------------------------------------------------------------------

Init ==
  /\ \E c \in Cases : config = c.config /\ data = c.data
  /\ canceled = FALSE
  /\ position = [rule |-> 1, expression |-> 1]
  /\ matched = 0 /\ outcomes = << >>
  /\ pc = "prepare"
  /\ result = None

Finish(answer) == pc' = "done" /\ result' = answer

\* PrepareConfig; Validate and the direct Activate parse alike.
Prepare ==
  /\ pc = "prepare"
  /\ IF ValidConfig(config)
     THEN pc' = "decode" /\ UNCHANGED result
     ELSE Finish("ErrInvalidConfig")
  /\ UNCHANGED <<config, data, canceled, position, matched, outcomes>>

Cancel ==
  /\ ~canceled
  /\ canceled' = TRUE
  /\ UNCHANGED <<config, data, position, matched, outcomes, pc, result>>

\* A context is looked at before every expression, the data decoded once.
NoticeCancel ==
  /\ canceled
  /\ pc \in {"decode", "evaluate"}
  /\ Finish("canceled")
  /\ UNCHANGED <<config, data, canceled, position, matched, outcomes>>

Decode ==
  /\ pc = "decode" /\ ~canceled
  /\ IF KindOf[data] = "object"
     THEN pc' = "evaluate" /\ UNCHANGED result
     ELSE Finish("ErrInvalidData")
  /\ UNCHANGED <<config, data, canceled, position, matched, outcomes>>

Rule == config.rules[position.rule]

RuleMatches(count) ==
  IF Rule.match = "all" THEN count = Len(Rule.conditions) ELSE count > 0

Select(matching) ==
  IF Len(matching) > 1 THEN "ErrMultipleMatches"
  ELSE IF Len(matching) = 1 THEN matching[1]
  ELSE IF config.default # None THEN config.default
  ELSE "ErrNoMatch"

\* RuleEnds, mutated: a rule that is decided leaves its other expressions alone.
RuleEndsEarly(truth) ==
  \/ position.expression = Len(Rule.conditions)
  \/ Rule.match = "all" /\ truth = "false"
  \/ Rule.match = "any" /\ truth = "true"

RuleEnds(truth) == position.expression = Len(Rule.conditions)

\* The next expression; after the last of a rule the rule is counted, and after
\* the last rule the outcome is selected.
Evaluate ==
  /\ pc = "evaluate" /\ ~canceled
  /\ LET truth == EvaluateExpression(Rule.conditions[position.expression])
         count == matched + (IF truth = "true" THEN 1 ELSE 0)
         last == RuleEnds(truth)
         matching == IF last /\ RuleMatches(count)
                     THEN Append(outcomes, Rule.outcome) ELSE outcomes
     IN  IF truth \in Errors
         THEN Finish(truth) /\ UNCHANGED <<position, matched, outcomes>>
         ELSE /\ matched' = IF last THEN 0 ELSE count
              /\ outcomes' = matching
              /\ position' = IF last THEN [rule |-> position.rule + 1, expression |-> 1]
                             ELSE [position EXCEPT !.expression = @ + 1]
              /\ IF last /\ position.rule = Len(config.rules)
                 THEN Finish(Select(matching)) ELSE UNCHANGED <<pc, result>>
  /\ UNCHANGED <<config, data, canceled>>

Next == Prepare \/ Cancel \/ NoticeCancel \/ Decode \/ Evaluate

Spec == Init /\ [][Next]_vars

-----------------------------------------------------------------------------

(***************************************************************************)
(* What passed validation when the definition was published cannot turn    *)
(* out to be an invalid configuration in a running instance, whatever the  *)
(* data (validateExpression against evaluateExpression).                   *)
(***************************************************************************)
PublishedStaysValid ==
  pc = "done" /\ result = "ErrInvalidConfig" => ~ValidConfig(config)

Verdicts(r) == {EvaluateExpression(r.conditions[i]) : i \in DOMAIN r.conditions}
Holds(r) == IF r.match = "all" THEN Verdicts(r) = {"true"} ELSE "true" \in Verdicts(r)
Matching == {i \in DOMAIN config.rules : Holds(config.rules[i])}

(***************************************************************************)
(* An outcome is given only when every expression of every rule could be   *)
(* evaluated: it is that of the one rule that holds, or the default when   *)
(* none does.  An expression that fails is never hidden by a rule that is  *)
(* decided without it, nor two rules by the first, so no order of rules or *)
(* expressions chooses the winner (activateConfig).                        *)
(***************************************************************************)
OutcomeIsRight ==
  pc = "done" /\ result \notin Errors =>
    /\ \A i \in DOMAIN config.rules : Verdicts(config.rules[i]) \intersect Errors = {}
    /\ \/ \E i \in Matching : Matching = {i} /\ result = config.rules[i].outcome
       \/ Matching = {} /\ result = config.default
=============================================================================
