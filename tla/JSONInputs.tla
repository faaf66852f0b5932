------------------------------ MODULE JSONInputs ------------------------------
(* Sources for StrictJSON: all small values, as values and as their tokens,   *)
(* whole, truncated or followed by another.                                   *)
EXTENDS Sequences, SequencesExt

Scalar == [kind |-> "scalar"]
Object(members) == [kind |-> "object", members |-> members]
Array(items) == [kind |-> "array", items |-> items]
Member(name, value) == [name |-> name, value |-> value]

Names == {"id", "ID", "to"}
Fold == [id |-> "id", ID |-> "id", to |-> "to"]

Flat == {Scalar, Object(<< >>), Array(<<Scalar>>)}
        \union {Object(<<Member(n, Scalar)>>) : n \in Names}
        \union {Object(<<Member(n, Scalar), Member(m, Scalar)>>) : n, m \in Names}
Nested == Flat
          \union {Object(<<Member(n, v)>>) : n \in Names, v \in Flat}
          \union {Object(<<Member(n, v), Member(m, w)>>) : n, m \in Names, v, w \in Flat}
          \union {Array(<<v, w>>) : v, w \in Flat}

RECURSIVE Tokens(_)
Tokens(value) ==
  CASE value.kind = "scalar" -> <<[kind |-> "scalar"]>>
    [] value.kind = "object" ->
         <<[kind |-> "open"]>>
         \o FoldLeft(LAMBDA ts, m : ts \o <<[kind |-> "name", name |-> m.name]>> \o Tokens(m.value),
                     << >>, value.members)
         \o <<[kind |-> "close"]>>
    [] value.kind = "array" ->
         <<[kind |-> "open"]>>
         \o FoldLeft(LAMBDA ts, v : ts \o Tokens(v), << >>, value.items)
         \o <<[kind |-> "close"]>>

Whole(value) == [tokens |-> Tokens(value), value |-> value, whole |-> TRUE]
Truncated(value) == [tokens |-> Front(Tokens(value)), value |-> value, whole |-> FALSE]
Followed(value) == [tokens |-> Tokens(value) \o Tokens(Scalar), value |-> value, whole |-> FALSE]
AllSources == {Whole(v) : v \in Nested} \union {Truncated(v) : v \in Flat} \union {Followed(v) : v \in Flat}

Plain == [kind |-> "scalar"]
Struct(fields) == [kind |-> "struct", fields |-> fields]
Pair == Struct([id |-> Plain, to |-> Plain])
AllTargets ==
  {[kind |-> "open"], Pair, Struct([id |-> Pair, to |-> Pair]),
   Struct([id |-> [kind |-> "open"], to |-> Plain]),
   [kind |-> "map", element |-> Pair], [kind |-> "slice", element |-> Pair]}
=============================================================================
