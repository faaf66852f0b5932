---------------------------- MODULE ConditionInputs ----------------------------
(* Configurations and data for Condition: every expression over every value,  *)
(* as a rule of its own, and rules of one or two expressions in every         *)
(* combination.                                                               *)
EXTENDS Conversions

\* "1.0" is another text for the number 1.
Kinds == [ empty |-> "string", a |-> "string", ab |-> "string", ba |-> "string",
           one |-> "number", oneDotZero |-> "number", two |-> "number",
           huge |-> "unrepresentable", yes |-> "boolean", no |-> "boolean",
           null |-> "null", object |-> "object",
           none |-> "array", mixed |-> "array", numbers |-> "array",
           nested |-> "array", overflowing |-> "array" ]
Values == DOMAIN Kinds
Numbers == [one |-> 1, oneDotZero |-> 1, two |-> 2]
Texts == [empty |-> << >>, a |-> <<"a">>, ab |-> <<"a", "b">>, ba |-> <<"b", "a">>]
Arrays == [none |-> << >>, mixed |-> <<"a", "one", "yes">>, numbers |-> <<"oneDotZero", "two">>,
           nested |-> <<"a", "none">>, overflowing |-> <<"huge", "null">>]

\* Documents: one member "f" of each value, below "o" too, or none.
Document(v) == "f=" \o v
Documents == {Document(v) : v \in Values}
Several == "several"
AllKinds == [d \in Values \union Documents \union {Several} |->
               IF d \in Values THEN Kinds[d] ELSE "object"]
Objects == [d \in {"object", Several} \union Documents |->
              CASE d = "object" -> [f |-> "a"]
                [] d = Several -> [f |-> "a", g |-> "huge", n |-> "one", o |-> "object"]
                [] OTHER -> [f |-> CHOOSE v \in Values : Document(v) = d]]

Types == {"string", "number", "boolean", "collection", "date"}
Operators == {"eq", "neq", "contains", "starts_with", "ends_with", "gt", "gte", "lt", "lte",
              "contains_any", "contains_all", "matches"}
Expression(path, type, op, value) == [field |-> path, type |-> type, operator |-> op, value |-> value]
OneRule(match, conditions, outcome) == [match |-> match, conditions |-> conditions, outcome |-> outcome]
Configuration(rules, default) == [rules |-> rules, default |-> default]

\* One expression of each form.
Singles == [config : {Configuration(<<OneRule("all", <<Expression(<<"f">>, t, op, v)>>, "approve")>>, None) :
                        t \in Types, op \in Operators, v \in Values},
            data : Documents \union {"null", "one"}]

\* Holds, does not, finds nothing, finds another kind, finds no number.
Probes == {Expression(<<"o", "f">>, "string", "eq", "a"), Expression(<<"n">>, "number", "gt", "two"),
           Expression(<<"o", "f", "x">>, "string", "eq", "a"), Expression(<<"f">>, "boolean", "eq", "yes"),
           Expression(<<"g">>, "number", "eq", "one")}
Conditions == {<<p>> : p \in Probes} \union {<<p, q>> : p, q \in Probes}
Rules(outcome) == {OneRule(match, c, outcome) : match \in {"all", "any"}, c \in Conditions}
Sound == {Expression(<<"o", "f">>, "string", "eq", "a"), Expression(<<"n">>, "number", "gt", "two"),
          Expression(<<"g">>, "number", "eq", "one")}
SoundRules(outcome) == {r \in Rules(outcome) : \A i \in DOMAIN r.conditions : r.conditions[i] \in Sound}
Combined ==
  [config : {Configuration(<<r>>, default) : r \in Rules("approve"), default \in {"reject", None}}
            \union {Configuration(<<r, s>>, default) : r \in SoundRules("approve"),
                      s \in SoundRules("escalate"), default \in {"reject", None}}
            \union {Configuration(<< >>, None),
                    Configuration(<<OneRule("any", <<Expression(Missing, "boolean", "eq", "yes")>>,
                                            "approve")>>, None),
                    Configuration(<<OneRule("none", <<>>, "approve")>>, None)},
   data : {Several}]

AllCases == Singles \union Combined
=============================================================================
