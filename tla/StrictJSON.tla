------------------------------ MODULE StrictJSON ------------------------------
(***************************************************************************)
(* internal/jsonstrict: Decode, after the scan of Surrogates: members are  *)
(* unique at every depth (validateUniqueValue), their names are exactly    *)
(* those of the target's type (validateExactSchema), and then the typed    *)
(* decoder of encoding/json stores what it finds.                          *)
(*                                                                         *)
(* A source is the tokens json.Decoder gives: delimiters, names, scalars.  *)
(* The value the generic decoder makes of them comes with the source.      *)
(***************************************************************************)
EXTENDS Naturals, Sequences, SequencesExt

CONSTANTS
  Sources,     \* records of tokens and the value they are, once it is unique
  Targets,     \* types to decode into
  Folded       \* names, as encoding/json compares them

VARIABLES source, target,
  position,    \* the token that comes next
  open,        \* the containers around it, each with the member names seen
  pc, verdict

vars == <<source, target, position, open, pc, verdict>>

-----------------------------------------------------------------------------
(* The types.  Interfaces, raw messages and custom unmarshalers are open.  *)

RECURSIVE ExactValue(_, _)
ExactValue(value, type) ==
  CASE type.kind = "struct" /\ value.kind = "object" ->
         \A i \in DOMAIN value.members :
           LET m == value.members[i] IN
           m.name \in DOMAIN type.fields /\ ExactValue(m.value, type.fields[m.name])
    [] type.kind = "map" /\ value.kind = "object" ->
         \A i \in DOMAIN value.members : ExactValue(value.members[i].value, type.element)
    [] type.kind = "slice" /\ value.kind = "array" ->
         \A i \in DOMAIN value.items : ExactValue(value.items[i], type.element)
    [] OTHER -> TRUE

\* The typed decoder finds fields whatever their case, and refuses a value of
\* another shape or a name it cannot match.
RECURSIVE Decodes(_, _)
Decodes(value, type) ==
  CASE type.kind = "struct" ->
         /\ value.kind = "object"
         /\ \A i \in DOMAIN value.members :
              LET m == value.members[i] IN
              \E f \in DOMAIN type.fields :
                Folded[f] = Folded[m.name] /\ Decodes(m.value, type.fields[f])
    [] type.kind = "map" ->
         value.kind = "object" /\ \A i \in DOMAIN value.members : Decodes(value.members[i].value, type.element)
    [] type.kind = "slice" ->
         value.kind = "array" /\ \A i \in DOMAIN value.items : Decodes(value.items[i], type.element)
    [] type.kind = "scalar" -> value.kind = "scalar"
    [] OTHER -> TRUE

-----------------------------------------------------------------------------

Init ==
  /\ source \in Sources /\ target \in Targets
  /\ position = 1 /\ open = << >>
  /\ pc = "scan" /\ verdict = "none"

Token == source.tokens[position]
Reject == pc' = "done" /\ verdict' = "invalid" /\ UNCHANGED <<position, open>>
Inner == open[Len(open)]

\* The decoder stops at the end of the first value.
ValueIsComplete == position > 1 /\ open = << >>

\* scanObject: the next member's name.
Name ==
  IF Token.name \in Inner.seen THEN Reject
  ELSE /\ open' = [open EXCEPT ![Len(open)].seen = @ \union {Token.name}]
       /\ position' = position + 1
       /\ UNCHANGED <<pc, verdict>>

\* scanValue, scanObject, scanArray: the recursion is the stack of open containers.
Scan ==
  /\ pc = "scan" /\ ~ValueIsComplete /\ position <= Len(source.tokens)
  /\ \/ Token.kind = "name" /\ Name
     \/ /\ Token.kind = "open"
        /\ open' = Append(open, [seen |-> {}])
        /\ position' = position + 1 /\ UNCHANGED <<pc, verdict>>
     \/ /\ Token.kind = "close"
        /\ open' = Front(open)
        /\ position' = position + 1 /\ UNCHANGED <<pc, verdict>>
     \/ /\ Token.kind = "scalar"
        /\ position' = position + 1 /\ UNCHANGED <<open, pc, verdict>>
  /\ UNCHANGED <<source, target>>

\* The end of the source in a value, or a token after it.
EndScan ==
  /\ pc = "scan"
  /\ \/ /\ ValueIsComplete /\ position > Len(source.tokens)
        /\ pc' = "schema" /\ UNCHANGED <<verdict, position, open>>
     \/ ValueIsComplete /\ position <= Len(source.tokens) /\ Reject
     \/ ~ValueIsComplete /\ position > Len(source.tokens) /\ Reject
  /\ UNCHANGED <<source, target>>

\* CheckSchema, mutated: the typed decoder alone decides.
CheckShape(value) == Decodes(value, target)

\* Either check may refuse first; one verdict stands for both.
CheckSchema(value) == ExactValue(value, target) /\ Decodes(value, target)

DecodeValue ==
  /\ pc = "schema"
  /\ pc' = "done"
  /\ verdict' = IF CheckSchema(source.value) THEN "decoded" ELSE "invalid"
  /\ UNCHANGED <<source, target, position, open>>

Next == Scan \/ EndScan \/ DecodeValue
Spec == Init /\ [][Next]_vars

-----------------------------------------------------------------------------

\* What each member of an object is stored under, in a value of the type.
Slot(type, name) == IF type.kind = "struct" THEN Folded[name] ELSE name
Inside(type, name) ==
  CASE type.kind = "struct" ->
         LET f == {g \in DOMAIN type.fields : Folded[g] = Folded[name]} IN
         IF f = {} THEN [kind |-> "open"] ELSE type.fields[CHOOSE g \in f : TRUE]
    [] type.kind = "map" -> type.element
    [] OTHER -> [kind |-> "open"]

\* Two members, or none, for one slot: something of the source would be lost.
RECURSIVE KeepsAll(_, _)
KeepsAll(value, type) ==
  CASE value.kind = "object" ->
         /\ \A i, j \in DOMAIN value.members :
              i # j => Slot(type, value.members[i].name) # Slot(type, value.members[j].name)
         /\ \A i \in DOMAIN value.members :
              KeepsAll(value.members[i].value, Inside(type, value.members[i].name))
    [] value.kind = "array" ->
         \A i \in DOMAIN value.items :
           KeepsAll(value.items[i], IF type.kind = "slice" THEN type.element ELSE [kind |-> "open"])
    [] OTHER -> TRUE

(***************************************************************************)
(* "JSON that cannot be consumed without discarding or ambiguously         *)
(* replacing caller input" is refused (ErrInvalid): what is decoded is one *)
(* whole value, no two members of which share a field, not even by case.   *)
(***************************************************************************)
NothingIsLost ==
  verdict = "decoded" => source.whole /\ KeepsAll(source.value, target)

Canonical(value, type) ==
  /\ Decodes(value, type) /\ KeepsAll(value, type) /\ ExactValue(value, type)

(***************************************************************************)
(* The checks refuse no more than that: a whole value of the type's shape, *)
(* with the type's own names, once each, is decoded.                       *)
(***************************************************************************)
CanonicalIsDecoded ==
  pc = "done" /\ source.whole /\ Canonical(source.value, target) => verdict = "decoded"
=============================================================================
