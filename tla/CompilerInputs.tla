---------------------------- MODULE CompilerInputs ----------------------------
(***************************************************************************)
(* Every graph over a start, two business nodes and an end, parallel edges *)
(* and self-loops included; and a three-node chain with its identities,    *)
(* kinds, configs and edges perturbed.                                     *)
(***************************************************************************)
EXTENDS Sequences, SequencesExt

Node(id, kind, config) == [id |-> id, kind |-> kind, config |-> config]
Edge(from, outcome, to) == [from |-> from, outcome |-> outcome, to |-> to]

Malformed == "not json"
Handled == {"work"}
Fits(kind, config) == config # "unfit"

GraphNodes == <<Node("e", "end", ""), Node("a", "work", ""), Node("b", "work", ""), Node("s", "start", "")>>
AllEdges ==
  <<Edge("b", "s", "s"), Edge("b", "e", "e"), Edge("b", "a", "a"), Edge("b", "b", "b"),
    Edge("a", "again", "b"), Edge("a", "e", "e"), Edge("a", "b", "b"), Edge("a", "a", "a"),
    Edge("a", "s", "s"), Edge("s", "b", "b"), Edge("s", "", "a"), Edge("s", "e", "e")>>
Graphs ==
  { [id |-> "d", nodes |-> GraphNodes, edges |-> SelectSeq(AllEdges, LAMBDA e : e \in chosen)] :
      chosen \in SUBSET ToSet(AllEdges) }

ChainEdges == <<Edge("s", "", "a"), Edge("a", "x", "e")>>
EdgeLists ==
  {ChainEdges, << >>,
   Append(ChainEdges, Edge("a", "x", "s")),
   Append(ChainEdges, Edge("a", "", "e")),
   Append(ChainEdges, Edge("z", "", "e")),
   Append(ChainEdges, Edge("a", "y", "z")),
   Append(ChainEdges, Edge("e", "", "a")),
   <<Edge("s", "x", "a"), Edge("a", "x", "e")>>}
Chains ==
  { [id |-> id, nodes |-> <<first, second, third>>, edges |-> edges] :
      id \in {"d", ""}, edges \in EdgeLists,
      first \in {Node("s", kind, config) : kind \in {"start", "work"}, config \in {"", Malformed}},
      second \in {Node(i, kind, config) : i \in {"a", "s", ""},
                    kind \in {"work", "ghost", "start", "end", ""}, config \in {"", "unfit", Malformed}},
      third \in {Node("e", kind, "") : kind \in {"end", "work"}} }

AllDefinitions == Graphs \union Chains
=============================================================================
