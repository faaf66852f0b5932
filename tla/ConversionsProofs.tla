--------------------------- MODULE ConversionsProofs ---------------------------
(***************************************************************************)
(* That the compiler, the condition handler, the row codecs and the scan   *)
(* for lone surrogates keep what Conversions promises of them, for every   *)
(* definition, configuration, aggregate and source.  Each part has an      *)
(* invariant of its own and the lemmas that its steps keep it; the         *)
(* theorems at the end combine them.                                       *)
(***************************************************************************)
EXTENDS Conversions, FiniteSetTheorems, SequenceTheorems, WellFoundedInduction, TLAPS

-----------------------------------------------------------------------------
(* The compiler.  In the invariant of each pass, n and m count the nodes and *)
(* edges that are indexed.                                                   *)

Ids(n) == {def.nodes[k].id : k \in 1 .. n}
IdsOfKind(n, kind) == {def.nodes[k].id : k \in {j \in 1 .. n : def.nodes[j].kind = kind}}
Into(m, id) == {k \in 1 .. m : def.edges[k].to = id}
OutOf(m, id) == {k \in 1 .. m : def.edges[k].from = id}
Occurrences(list, first, id) == {j \in first .. Len(list) : list[j] = id}

IsAnalysis(r) ==
  r = [nodes |-> r.nodes, starts |-> r.starts, ends |-> r.ends, routes |-> r.routes,
       adjacency |-> r.adjacency, predecessors |-> r.predecessors, indegree |-> r.indegree]
IsScan(s) ==
  s = [queue |-> s.queue, targets |-> s.targets, visited |-> s.visited,
       order |-> s.order, remaining |-> s.remaining]

Named(node) == node.id # "" /\ node.kind # ""
NodesIndexedTo(n) ==
  /\ IsAnalysis(a)
  /\ n \in 0 .. Len(def.nodes)
  /\ Compiling!NodeIds = Ids(n)
  /\ \A k \in 1 .. n : Named(def.nodes[k]) /\ a.nodes[def.nodes[k].id] = k
  /\ IsFiniteSet(Ids(n)) /\ Cardinality(Ids(n)) = n
  /\ a.starts \in Seq(Ids(n)) /\ a.ends \in Seq(Ids(n))
  /\ Compiling!ToSet(a.starts) = IdsOfKind(n, "start")
  /\ Len(a.starts) = Cardinality(IdsOfKind(n, "start"))
  /\ Compiling!ToSet(a.ends) = IdsOfKind(n, "end")
  /\ DOMAIN a.adjacency = Ids(n) /\ DOMAIN a.predecessors = Ids(n) /\ DOMAIN a.indegree = Ids(n)

NoEdgesYet ==
  /\ DOMAIN a.routes = {}
  /\ \A id \in Compiling!NodeIds :
       a.adjacency[id] = << >> /\ a.predecessors[id] = << >> /\ a.indegree[id] = 0

IsRouted(edge) ==
  /\ edge.from \in Compiling!NodeIds /\ edge.to \in Compiling!NodeIds
  /\ Compiling!Kind(edge.from) # "end"
  /\ Compiling!Selector(edge) \in DOMAIN a.routes
  /\ a.routes[Compiling!Selector(edge)] = edge.to
NeighboursKnown(m, id) ==
  /\ a.adjacency[id] \in Seq(Compiling!NodeIds) /\ a.predecessors[id] \in Seq(Compiling!NodeIds)
  /\ Len(a.adjacency[id]) = Cardinality(OutOf(m, id))
  /\ \A to \in Compiling!NodeIds : Cardinality(Occurrences(a.adjacency[id], 1, to))
               = Cardinality(OutOf(m, id) \intersect Into(m, to))
  /\ Compiling!ToSet(a.predecessors[id]) = {def.edges[k].from : k \in Into(m, id)}
  /\ a.indegree[id] = Cardinality(Into(m, id))
EdgesIndexedTo(m) ==
  /\ m \in 0 .. Len(def.edges)
  /\ \A k \in 1 .. m : IsRouted(def.edges[k])
  /\ \A s \in DOMAIN a.routes : \E k \in 1 .. m : s = Compiling!Selector(def.edges[k])
  /\ \A j, k \in 1 .. m : Compiling!Selector(def.edges[j]) = Compiling!Selector(def.edges[k]) => j = k
  /\ \A id \in Compiling!NodeIds : NeighboursKnown(m, id)

Analysed ==
  /\ NodesIndexedTo(Len(def.nodes)) /\ EdgesIndexedTo(Len(def.edges))
  /\ def.id # "" /\ Len(a.starts) = 1 /\ a.ends # << >>

\* validateAcyclic: what is removed comes in topological order.
Started == scan.order \o scan.queue
Waiting(id, removed) == {k \in Into(Len(def.edges), id) : def.edges[k].from \notin removed}
Counters ==
  /\ \A i, j \in 1 .. Len(Started) : Started[i] = Started[j] => i = j
  /\ \A id \in Compiling!NodeIds :
       /\ scan.remaining[id] = Cardinality(Waiting(id, Compiling!ToSet(scan.order)))
                                 + Cardinality(Occurrences(scan.targets, pos, id))
       /\ scan.remaining[id] = 0 <=> \E i \in 1 .. Len(Started) : Started[i] = id
InOrder ==
  \A i \in 1 .. Len(scan.order), k \in DOMAIN def.edges :
    def.edges[k].to = scan.order[i] => \E j \in 1 .. i - 1 : scan.order[j] = def.edges[k].from
AcyclicInv ==
  /\ IsScan(scan)
  /\ scan.order \in Seq(Compiling!NodeIds) /\ scan.queue \in Seq(Compiling!NodeIds)
  /\ scan.targets \in Seq(Compiling!NodeIds) /\ pos \in 1 .. Len(scan.targets) + 1
  /\ DOMAIN scan.remaining = Compiling!NodeIds
  /\ \A id \in Compiling!NodeIds : scan.remaining[id] \in Nat
  /\ InOrder
  /\ Counters

\* A reachability scan: what is visited, but for the neighbours of what is
\* queued or being ranged over, is closed, and no more than the roots require.
Closed(X, neighbours) == \A id \in X : Compiling!ToSet(neighbours[id]) \subseteq X
Coming(s, p) == {s.targets[j] : j \in p .. Len(s.targets)}
IsVisit(V, s, p, neighbours, roots) ==
  /\ IsScan(s)
  /\ s.visited \subseteq V /\ roots \subseteq s.visited
  /\ s.queue \in Seq(s.visited)
  /\ s.targets \in Seq(V) /\ p \in 1 .. Len(s.targets) + 1
  /\ \A id \in s.visited \ Compiling!ToSet(s.queue) :
       Compiling!ToSet(neighbours[id]) \subseteq s.visited \union Coming(s, p)
  /\ \A X \in SUBSET V :
       roots \subseteq X /\ Closed(X, neighbours) => s.visited \union Coming(s, p) \subseteq X

CompilationInv ==
  /\ def \in Definitions
  /\ pc \in {"nodes", "edges", "acyclic", "reachable", "ends", "config", "prepare", "done"}
  /\ pc # "done" => verdict = ""
  /\ pc = "nodes" => (\E n \in Nat : pos = n + 1 /\ NodesIndexedTo(n)) /\ NoEdgesYet
  /\ pc = "edges" =>
       /\ NodesIndexedTo(Len(def.nodes)) /\ def.id # "" /\ Len(a.starts) = 1 /\ a.ends # << >>
       /\ \E m \in Nat : pos = m + 1 /\ EdgesIndexedTo(m)
  /\ pc \in {"acyclic", "reachable", "ends", "config", "prepare"} => Analysed
  /\ pc = "acyclic" => AcyclicInv
  /\ pc \in {"reachable", "ends", "config", "prepare"} => Compiling!HasNoCycle
  /\ pc = "reachable" => IsVisit(Compiling!NodeIds, scan, pos, a.adjacency, {Compiling!StartID})
  /\ pc \in {"ends", "config", "prepare"} => Compiling!AllFromStart
  /\ pc = "ends" => IsVisit(Compiling!NodeIds, scan, pos, a.predecessors, Compiling!ToSet(a.ends))
  /\ pc \in {"config", "prepare"} => Compiling!AllToAnEnd
  /\ pc = "prepare" =>
       /\ Compiling!StartsUnconditionally
       /\ \A k \in DOMAIN def.nodes : def.nodes[k].config # NotJSON
       /\ pos \in 1 .. Len(def.nodes) + 1
       /\ \A k \in 1 .. pos - 1 :
            def.nodes[k].kind \in {"start", "end"}
              \/ (def.nodes[k].kind \in Registered /\ Prepares(def.nodes[k].kind, def.nodes[k].config))
  /\ Compiling!VerdictIsRight /\ Compiling!PlanIsExecutable

\* A bounded set of numbers that is not empty has a greatest.
LEMMA Greatest ==
  ASSUME NEW n \in Nat, NEW I \in SUBSET (1 .. n), I # {}
  PROVE  \E m \in I : \A i \in I : i <= m
<1> DEFINE T == {j \in Nat : \A i \in I : i <= j}
           R == OpToRel(<, Nat)
<1>1. n \in T
  OBVIOUS
<1>2. PICK m \in T : \A j \in T : ~(<<j, m>> \in R)
  <2>1. IsWellFoundedOn(R, Nat)
    BY NatLessThanWellFounded
  <2>2. T \subseteq Nat
    OBVIOUS
  <2> HIDE DEF R, T
  <2> QED
    BY <1>1, <2>1, <2>2, WFMin
<1>3. \A j \in T : ~(j < m)
  BY <1>2 DEF OpToRel
<1>4. m \in I
  <2> SUFFICES ASSUME m \notin I PROVE FALSE
    OBVIOUS
  <2>0. m \in Nat /\ \A i \in I : i \in 1 .. n /\ i < m
    OBVIOUS
  <2>1. PICK i \in I : TRUE
    OBVIOUS
  <2>2. m - 1 \in Nat
    BY <2>0, <2>1
  <2>3. \A k \in I : k <= m - 1
    BY <2>0
  <2>4. m - 1 \in T
    BY <2>2, <2>3
  <2> QED
    BY <2>4, <1>3, <2>0
<1> QED
  BY <1>4

\* In a finite graph of which every nonempty part has a sink, every nonempty part
\* has a source.
LEMMA SinksGiveSources ==
  ASSUME NEW V, IsFiniteSet(V), NEW A,
         \A X \in (SUBSET V) \ {{}} : \E x \in X : \A y \in X : <<x, y>> \notin A,
         NEW X \in SUBSET V, X # {}
  PROVE  \E y \in X : \A x \in X : <<x, y>> \notin A
<1> DEFINE G == {Y \in SUBSET V : Y # {} /\ \A y \in Y : \E x \in Y : <<x, y>> \in A}
<1> SUFFICES ASSUME X \in G PROVE FALSE
  OBVIOUS
<1>1. G \subseteq FiniteSubsetsOf(V)
  BY FS_Subset DEF FiniteSubsetsOf
<1>2. PICK Y \in G : \A Z \in G : ~(<<Z, Y>> \in StrictSubsetOrdering(V))
  <2> HIDE DEF G
  <2> QED
    BY <1>1, FS_StrictSubsetOrderingWellFounded, WFMin
<1>3. PICK s \in Y : \A y \in Y : <<s, y>> \notin A
  OBVIOUS
<1> DEFINE Z == Y \ {s}
<1>4. Z # {}
  <2>1. PICK x \in Y : <<x, s>> \in A
    OBVIOUS
  <2> QED
    BY <2>1, <1>3
<1>5. \A y \in Z : \E x \in Z : <<x, y>> \in A
  BY <1>3
<1>6. Z \in G
  BY <1>4, <1>5
<1>7. <<Z, Y>> \in StrictSubsetOrdering(V)
  <2>1. Z \in SUBSET V /\ Y \in SUBSET V
    OBVIOUS
  <2>2. Z \subseteq Y /\ Z # Y
    OBVIOUS
  <2> HIDE DEF Z, G
  <2> QED
    BY <2>1, <2>2 DEF StrictSubsetOrdering
<1> QED
  BY <1>2, <1>6, <1>7

\* A set of the indexes up to n + 1 has one more member than up to n, if it has n + 1.
LEMMA OneMore ==
  ASSUME NEW n \in Nat, NEW I \in SUBSET (1 .. n + 1)
  PROVE  /\ IsFiniteSet(I) /\ IsFiniteSet(I \ {n + 1})
         /\ Cardinality(I) \in Nat /\ Cardinality(I \ {n + 1}) \in Nat
         /\ Cardinality(I) = Cardinality(I \ {n + 1}) + (IF n + 1 \in I THEN 1 ELSE 0)
<1>1. IsFiniteSet(1 .. n + 1)
  BY FS_Interval
<1>2. IsFiniteSet(I) /\ IsFiniteSet(I \ {n + 1})
  BY <1>1, FS_Subset
<1>3. Cardinality(I) \in Nat /\ Cardinality(I \ {n + 1}) \in Nat
  BY <1>2, FS_CardinalityType
<1>4. CASE n + 1 \in I
  BY <1>2, <1>3, <1>4, FS_RemoveElement
<1>5. CASE n + 1 \notin I
  <2>1. I \ {n + 1} = I
    BY <1>5
  <2>2. Cardinality(I \ {n + 1}) = Cardinality(I)
    BY <2>1
  <2> QED
    BY <2>2, <1>2, <1>3, <1>5
<1> QED
  BY <1>2, <1>3, <1>4, <1>5

\* A list of length n has n members only if it does not repeat one.
LEMMA NoRepetition ==
  ASSUME NEW n \in Nat, NEW f, f = [i \in 1 .. n |-> f[i]]
  PROVE  /\ IsFiniteSet({f[i] : i \in 1 .. n}) /\ Cardinality({f[i] : i \in 1 .. n}) \in Nat
         /\ Cardinality({f[i] : i \in 1 .. n}) <= n
         /\ Cardinality({f[i] : i \in 1 .. n}) = n <=> \A j, k \in 1 .. n : f[j] = f[k] => j = k
<1> DEFINE S == {f[i] : i \in 1 .. n}
           I == 1 .. n
<1>1. IsFiniteSet(I) /\ Cardinality(I) = n
  BY FS_Interval
<1>2. f \in [I -> S] /\ \A t \in S : \E i \in I : f[i] = t
  OBVIOUS
<1>3. f \in Surjection(I, S)
  <2> HIDE DEF I, S
  <2> QED
    BY <1>2 DEF Surjection
<1>4. f \in Injection(I, S) <=> \A j, k \in I : f[j] = f[k] => j = k
  <2> HIDE DEF I, S
  <2> QED
    BY <1>2 DEF Injection, IsInjective
<1>5. IsFiniteSet(S) /\ Cardinality(S) <= n /\ (Cardinality(S) = n <=> f \in Injection(I, S))
  <2> HIDE DEF I, S
  <2> QED
    BY <1>1, <1>3, FS_Surjection
<1>6. Cardinality(S) \in Nat
  BY <1>5, FS_CardinalityType
<1> QED
  BY <1>4, <1>5, <1>6

\* What a definition is made of are lists (DefinitionsAreLists).
LEMMA Lists ==
  ASSUME def \in Definitions
  PROVE  /\ Len(def.nodes) \in Nat /\ DOMAIN def.nodes = 1 .. Len(def.nodes)
         /\ Len(def.edges) \in Nat /\ DOMAIN def.edges = 1 .. Len(def.edges)
BY ConversionsAssumption DEF Compiling!DefinitionsAreLists

\* Compiler counts with the same operator as the theorems about finite sets.
LEMMA SameCardinality == \A S : Compiling!Cardinality(S) = Cardinality(S)
BY DEF Compiling!Cardinality, Cardinality

\* Counters says what CountersAreExact says, in the terms of the proof.
LEMMA Counting ==
  ASSUME def \in Definitions, pc = "acyclic",
         scan.order \in Seq(Compiling!NodeIds), scan.queue \in Seq(Compiling!NodeIds)
  PROVE  Compiling!CountersAreExact <=> Counters
<1>1. Started \in Seq(Compiling!NodeIds) /\ DOMAIN Started = 1 .. Len(Started)
  BY DEF Started
<1>2. Compiling!IsInjective(Started) <=> \A i, j \in 1 .. Len(Started) : Started[i] = Started[j] => i = j
  BY <1>1 DEF Compiling!IsInjective
<1>3. \A id : id \in Compiling!ToSet(Started) <=> \E i \in 1 .. Len(Started) : Started[i] = id
  BY <1>1 DEF Compiling!ToSet
<1>4. \A id : {k \in DOMAIN def.edges : def.edges[k].to = id /\ def.edges[k].from \notin Compiling!ToSet(scan.order)}
          = Waiting(id, Compiling!ToSet(scan.order))
  BY Lists DEF Waiting, Into
<1>5. \A id : {j \in pos .. Len(scan.targets) : scan.targets[j] = id} = Occurrences(scan.targets, pos, id)
  BY DEF Occurrences
<1>6. Compiling!CountersAreExact <=>
        /\ Compiling!IsInjective(Started)
        /\ \A id \in Compiling!NodeIds :
             scan.remaining[id] =
               Compiling!Cardinality({k \in DOMAIN def.edges : def.edges[k].to = id
                                         /\ def.edges[k].from \notin Compiling!ToSet(scan.order)})
               + Compiling!Cardinality({j \in pos .. Len(scan.targets) : scan.targets[j] = id})
        /\ \A id \in Compiling!NodeIds : id \in Compiling!ToSet(Started) <=> scan.remaining[id] = 0
  BY DEF Compiling!CountersAreExact, Started
<1>7. Compiling!CountersAreExact <=>
        /\ Compiling!IsInjective(Started)
        /\ \A id \in Compiling!NodeIds :
             scan.remaining[id] = Cardinality(Waiting(id, Compiling!ToSet(scan.order)))
                                   + Cardinality(Occurrences(scan.targets, pos, id))
        /\ \A id \in Compiling!NodeIds : id \in Compiling!ToSet(Started) <=> scan.remaining[id] = 0
  BY <1>4, <1>5, <1>6, SameCardinality
<1> QED
  BY <1>2, <1>3, <1>7 DEF Counters

\* The fields that indexNodes assigns for a node.
LEMMA NodeFields ==
  ASSUME IsAnalysis(a), NEW node
  PROVE  LET r == Compiling!WithNode(node) IN
         /\ IsAnalysis(r)
         /\ r.nodes = Compiling!With(a.nodes, node.id, pos)
         /\ r.starts = IF node.kind = "start" THEN Append(a.starts, node.id) ELSE a.starts
         /\ r.ends = IF node.kind = "end" THEN Append(a.ends, node.id) ELSE a.ends
         /\ r.routes = a.routes
         /\ r.adjacency = Compiling!With(a.adjacency, node.id, << >>)
         /\ r.predecessors = Compiling!With(a.predecessors, node.id, << >>)
         /\ r.indegree = Compiling!With(a.indegree, node.id, 0)
BY DEF IsAnalysis, Compiling!WithNode

\* The fields that indexEdges assigns for an edge.
LEMMA EdgeFields ==
  ASSUME IsAnalysis(a), NEW edge
  PROVE  LET r == Compiling!WithEdge(edge) IN
         /\ IsAnalysis(r)
         /\ r.nodes = a.nodes /\ r.starts = a.starts /\ r.ends = a.ends
         /\ r.routes = Compiling!With(a.routes, Compiling!Selector(edge), edge.to)
         /\ r.adjacency = [a.adjacency EXCEPT ![edge.from] = Append(@, edge.to)]
         /\ r.predecessors = [a.predecessors EXCEPT ![edge.to] = Append(@, edge.from)]
         /\ r.indegree = [a.indegree EXCEPT ![edge.to] = @ + 1]
BY DEF IsAnalysis, Compiling!WithEdge, Compiling!Routed

\* An assignment to a map changes one key of it.
LEMMA Assigned ==
  ASSUME NEW map, NEW key, NEW value
  PROVE  /\ DOMAIN Compiling!With(map, key, value) = DOMAIN map \union {key}
         /\ Compiling!With(map, key, value)[key] = value
         /\ \A k \in DOMAIN map \ {key} : Compiling!With(map, key, value)[k] = map[k]
BY DEF Compiling!With

\* append adds one member to what a list holds.
LEMMA Appended ==
  ASSUME NEW S, NEW list \in Seq(S), NEW x
  PROVE  /\ Append(list, x) \in Seq(S \union {x}) /\ Len(Append(list, x)) = Len(list) + 1
         /\ Compiling!ToSet(Append(list, x)) = Compiling!ToSet(list) \union {x}
<1> DEFINE longer == Append(list, x)
<1>1. longer \in Seq(S \union {x}) /\ Len(longer) = Len(list) + 1
  OBVIOUS
<1>2. \A i \in 1 .. Len(list) : longer[i] = list[i]
  OBVIOUS
<1>3. longer[Len(list) + 1] = x
  OBVIOUS
<1>4. Len(list) \in Nat /\ DOMAIN list = 1 .. Len(list) /\ DOMAIN longer = 1 .. Len(list) + 1
  OBVIOUS
<1> HIDE DEF longer
<1>5. Compiling!ToSet(longer) = Compiling!ToSet(list) \union {x}
  BY <1>2, <1>3, <1>4 DEF Compiling!ToSet
<1> QED
  BY <1>1, <1>5 DEF longer

\* What is said of the definition alone stays so.
LEMMA SameDefinition ==
  ASSUME def' = def
  PROVE  /\ Compiling!Deterministic' <=> Compiling!Deterministic
         /\ Compiling!HasNoCycle' <=> Compiling!HasNoCycle
         /\ Compiling!AllFromStart' <=> Compiling!AllFromStart
         /\ Compiling!AllToAnEnd' <=> Compiling!AllToAnEnd
         /\ Compiling!StartsUnconditionally' <=> Compiling!StartsUnconditionally
         /\ Compiling!HandlersAccept' <=> Compiling!HandlersAccept
         /\ Compiling!WellFormed' <=> Compiling!WellFormed
<1>1. Compiling!DefNodes' = Compiling!DefNodes /\ Compiling!DefEdges' = Compiling!DefEdges
  BY DEF Compiling!DefNodes, Compiling!DefEdges
<1>2. \A kind : Compiling!OfKind(kind)' = Compiling!OfKind(kind)
  BY DEF Compiling!OfKind
<1>3. Compiling!Arrows' = Compiling!Arrows
  BY <1>1 DEF Compiling!Arrows
<1>4. Compiling!Deterministic' <=> Compiling!Deterministic
  BY DEF Compiling!Deterministic, Compiling!Selector
<1>5. Compiling!HasNoCycle' <=> Compiling!HasNoCycle
  BY <1>1, <1>3 DEF Compiling!HasNoCycle
<1>6. Compiling!AllFromStart' <=> Compiling!AllFromStart
  BY <1>1, <1>2, <1>3 DEF Compiling!AllFromStart
<1>7. Compiling!AllToAnEnd' <=> Compiling!AllToAnEnd
  BY <1>1, <1>2, <1>3 DEF Compiling!AllToAnEnd
<1>8. Compiling!StartsUnconditionally' <=> Compiling!StartsUnconditionally
  BY <1>1, <1>2 DEF Compiling!StartsUnconditionally
<1>9. Compiling!HandlersAccept' <=> Compiling!HandlersAccept
  BY DEF Compiling!HandlersAccept
<1>10. Compiling!WellNamed' <=> Compiling!WellNamed
  BY <1>1, <1>2 DEF Compiling!WellNamed
<1> QED
  BY <1>4, <1>5, <1>6, <1>7, <1>8, <1>9, <1>10 DEF Compiling!WellFormed

\* Nor does the analysis change when neither it nor the definition does.
LEMMA SameAnalysis ==
  ASSUME def' = def, a' = a
  PROVE  /\ \A n : NodesIndexedTo(n)' <=> NodesIndexedTo(n)
         /\ \A m : EdgesIndexedTo(m)' <=> EdgesIndexedTo(m)
         /\ Analysed' <=> Analysed
         /\ Compiling!NodeIds' = Compiling!NodeIds /\ Compiling!StartID' = Compiling!StartID
<1>1. /\ \A n : Ids(n)' = Ids(n)
      /\ \A n, kind : IdsOfKind(n, kind)' = IdsOfKind(n, kind)
      /\ \A m, id : Into(m, id)' = Into(m, id) /\ OutOf(m, id)' = OutOf(m, id)
  BY DEF Ids, IdsOfKind, Into, OutOf
<1>2. Compiling!NodeIds' = Compiling!NodeIds /\ Compiling!StartID' = Compiling!StartID
  BY DEF Compiling!NodeIds, Compiling!StartID
<1>3. \A id : Compiling!Kind(id)' = Compiling!Kind(id)
  BY DEF Compiling!Kind
<1>4. \A n : NodesIndexedTo(n)' <=> NodesIndexedTo(n)
  BY <1>1, <1>2 DEF NodesIndexedTo
<1>5. \A m : EdgesIndexedTo(m)' <=> EdgesIndexedTo(m)
  <2>1. \A edge : IsRouted(edge)' <=> IsRouted(edge)
    BY <1>2, <1>3 DEF IsRouted, Compiling!Selector
  <2>2. \A m, id : NeighboursKnown(m, id)' <=> NeighboursKnown(m, id)
    BY <1>1, <1>2 DEF NeighboursKnown
  <2> QED
    BY <1>2, <2>1, <2>2 DEF EdgesIndexedTo, Compiling!Selector
<1> QED
  BY <1>2, <1>4, <1>5 DEF Analysed

\* Before there is a verdict, nothing is claimed of it.
LEMMA NoVerdictYet ==
  ASSUME verdict' = ""
  PROVE  Compiling!VerdictIsRight' /\ Compiling!PlanIsExecutable'
BY DEF Compiling!VerdictIsRight, Compiling!PlanIsExecutable

\* A refusal is right if the definition has the defect that it names.
LEMMA Refused ==
  ASSUME CompilationInv, NEW class, Compiling!Refuse(class), class \notin {"", "ok"},
         ~Compiling!WellFormed,
         class = "ambiguous" => ~Compiling!Deterministic,
         class \in {"config", "no handler"} => ~Compiling!HandlersAccept,
         class = "no route" => ~Compiling!StartsUnconditionally
  PROVE  CompilationInv'
<1>1. def' = def /\ pc' = "done" /\ verdict' = class
  BY DEF Compiling!Refuse
<1>2. Compiling!VerdictIsRight'
  BY <1>1, SameDefinition DEF Compiling!VerdictIsRight
<1>3. Compiling!PlanIsExecutable'
  BY <1>1 DEF Compiling!PlanIsExecutable
<1> QED
  BY <1>1, <1>2, <1>3 DEF CompilationInv

\* The invariant holds of a definition that is about to be compiled.
LEMMA CompilationBegins == Compiling!Init => CompilationInv
<1> SUFFICES ASSUME Compiling!Init PROVE CompilationInv
  OBVIOUS
<1>1. def \in Definitions /\ pc = "nodes" /\ verdict = "" /\ a = Compiling!NoAnalysis
  BY DEF Compiling!Init
<1>8. pos = 1
  BY DEF Compiling!Init
<1>2. Ids(0) = {} /\ \A kind : IdsOfKind(0, kind) = {}
  <2>1. 1 .. 0 = {}
    OBVIOUS
  <2> QED
    BY <2>1 DEF Ids, IdsOfKind
<1>3. /\ a.nodes = << >> /\ a.starts = << >> /\ a.ends = << >> /\ a.routes = << >>
      /\ a.adjacency = << >> /\ a.predecessors = << >> /\ a.indegree = << >>
  BY <1>1 DEF Compiling!NoAnalysis
<1>4. NodesIndexedTo(0)
  <2>1. Compiling!ToSet(<< >>) = {}
    BY DEF Compiling!ToSet
  <2>2. IsFiniteSet({}) /\ Cardinality({}) = 0
    BY FS_EmptySet
  <2>3. IsAnalysis(a)
    BY <1>1, <1>3 DEF IsAnalysis, Compiling!NoAnalysis
  <2>4. DOMAIN << >> = {} /\ Len(<< >>) = 0 /\ << >> \in Seq({})
    OBVIOUS
  <2>5. Compiling!NodeIds = {}
    BY <1>3, <2>4 DEF Compiling!NodeIds
  <2>6. 0 \in 0 .. Len(def.nodes)
    <3>1. def \in Definitions
      BY DEF Compiling!Init
    <3> QED
      BY <3>1, Lists
  <2>7. \A k \in 1 .. 0 : FALSE
    OBVIOUS
  <2> QED
    BY <1>2, <1>3, <2>1, <2>2, <2>3, <2>4, <2>5, <2>6, <2>7 DEF NodesIndexedTo
<1>5. NoEdgesYet
  <2>1. DOMAIN << >> = {}
    OBVIOUS
  <2> QED
    BY <1>3, <2>1 DEF NoEdgesYet, Compiling!NodeIds
<1>6. Compiling!VerdictIsRight /\ Compiling!PlanIsExecutable
  BY <1>1 DEF Compiling!VerdictIsRight, Compiling!PlanIsExecutable
<1>7. \E n \in Nat : pos = n + 1 /\ NodesIndexedTo(n)
  <2>1. pos = 0 + 1
    BY <1>8
  <2> QED
    BY <1>4, <2>1
<1> QED
  BY <1>1, <1>5, <1>6, <1>7 DEF CompilationInv

\* Once every node is indexed, the indexes speak of the whole definition.
LEMMA AllIndexed ==
  ASSUME def \in Definitions
  PROVE  /\ Ids(Len(def.nodes)) = Compiling!DefNodes
         /\ \A kind : IdsOfKind(Len(def.nodes), kind) = Compiling!OfKind(kind)
BY Lists DEF Ids, IdsOfKind, Compiling!DefNodes, Compiling!OfKind

\* A node that is not bad is added to every index (indexNodes).
LEMMA NodeAdded ==
  ASSUME CompilationInv, pc = "nodes", pos <= Len(def.nodes), def' = def,
         ~Compiling!NodeIsBad(def.nodes[pos]), a' = Compiling!WithNode(def.nodes[pos])
  PROVE  (\E n \in Nat : n = pos /\ NodesIndexedTo(n)') /\ NoEdgesYet'
<1> DEFINE node == def.nodes[pos]
<1>0. PICK n \in Nat : pos = n + 1 /\ NodesIndexedTo(n)
  BY DEF CompilationInv
<1>1. /\ NodesIndexedTo(n) /\ NoEdgesYet /\ pos = n + 1
      /\ Len(def.nodes) \in Nat /\ DOMAIN def.nodes = 1 .. Len(def.nodes)
  BY <1>0, Lists DEF CompilationInv
<1>2. Named(node) /\ node.id \notin Ids(n)
  BY <1>1 DEF Compiling!NodeIsBad, NodesIndexedTo, Named
<1>3. n \in Nat /\ 1 .. pos = 1 .. n \union {pos} /\ pos \notin 1 .. n /\ pos \in 0 .. Len(def.nodes)
  BY <1>1
<1>4. /\ Ids(pos) = Ids(n) \union {node.id}
      /\ \A kind : IdsOfKind(pos, kind) = IdsOfKind(n, kind) \union (IF node.kind = kind THEN {node.id} ELSE {})
  BY <1>3 DEF Ids, IdsOfKind
<1>5. /\ IsAnalysis(a') /\ a'.nodes = Compiling!With(a.nodes, node.id, pos)
      /\ a'.starts = IF node.kind = "start" THEN Append(a.starts, node.id) ELSE a.starts
      /\ a'.ends = IF node.kind = "end" THEN Append(a.ends, node.id) ELSE a.ends
      /\ a'.routes = a.routes
      /\ a'.adjacency = Compiling!With(a.adjacency, node.id, << >>)
      /\ a'.predecessors = Compiling!With(a.predecessors, node.id, << >>)
      /\ a'.indegree = Compiling!With(a.indegree, node.id, 0)
  BY <1>1, NodeFields DEF NodesIndexedTo
<1> HIDE DEF node
<1>6. DOMAIN a.nodes = Ids(n)
  BY <1>1 DEF NodesIndexedTo, Compiling!NodeIds
<1>7. Compiling!NodeIds' = Ids(pos)
  <2>1. a'.nodes = Compiling!With(a.nodes, node.id, pos)
    BY <1>5
  <2>2. DOMAIN Compiling!With(a.nodes, node.id, pos) = DOMAIN a.nodes \union {node.id}
    BY Assigned DEF Compiling!With
  <2>3. Compiling!NodeIds' = DOMAIN a'.nodes
    BY DEF Compiling!NodeIds
  <2> QED
    BY <1>4, <2>1, <2>2, <2>3, <1>6
<1>8. \A k \in 1 .. pos : Named(def.nodes[k]) /\ a'.nodes[def.nodes[k].id] = k
  <2> TAKE k \in 1 .. pos
  <2>1. CASE k = pos
    BY <2>1, <1>2, <1>5, Assigned DEF node, Compiling!With
  <2>2. CASE k \in 1 .. n
    <3>1. Named(def.nodes[k]) /\ a.nodes[def.nodes[k].id] = k
      BY <2>2, <1>1 DEF NodesIndexedTo
    <3>2. def.nodes[k].id \in Ids(n)
      BY <2>2 DEF Ids
    <3>3. \A key \in DOMAIN a.nodes \ {node.id} : a'.nodes[key] = a.nodes[key]
      <4>1. a'.nodes = Compiling!With(a.nodes, node.id, pos)
        BY <1>5
      <4> QED
        BY <4>1 DEF Compiling!With
    <3>4. def.nodes[k].id \in DOMAIN a.nodes \ {node.id}
      BY <3>2, <1>2, <1>6
    <3> QED
      BY <3>1, <3>3, <3>4
  <2> QED
    BY <2>1, <2>2, <1>3
<1>9. IsFiniteSet(Ids(pos)) /\ Cardinality(Ids(pos)) = pos
  <2>1. IsFiniteSet(Ids(n)) /\ Cardinality(Ids(n)) = n
    BY <1>1 DEF NodesIndexedTo
  <2>2. IsFiniteSet(Ids(n) \union {node.id}) /\ Cardinality(Ids(n) \union {node.id}) = n + 1
    BY <2>1, <1>2, FS_AddElement
  <2> QED
    BY <2>2, <1>1, <1>4
<1>10. /\ a'.starts \in Seq(Ids(pos)) /\ Compiling!ToSet(a'.starts) = IdsOfKind(pos, "start")
       /\ Len(a'.starts) = Cardinality(IdsOfKind(pos, "start"))
  <2>1. /\ a.starts \in Seq(Ids(n)) /\ Compiling!ToSet(a.starts) = IdsOfKind(n, "start")
        /\ Len(a.starts) = Cardinality(IdsOfKind(n, "start"))
    BY <1>1 DEF NodesIndexedTo
  <2>2. CASE node.kind = "start"
    <3>1. a'.starts = Append(a.starts, node.id) /\ IdsOfKind(pos, "start") = IdsOfKind(n, "start") \union {node.id}
      BY <2>2, <1>4, <1>5
    <3>2. IdsOfKind(n, "start") \subseteq Ids(n)
      BY DEF IdsOfKind, Ids
    <3>3. IsFiniteSet(IdsOfKind(n, "start")) /\ node.id \notin IdsOfKind(n, "start")
      BY <3>2, <1>1, <1>2, FS_Subset DEF NodesIndexedTo
    <3>4. Cardinality(IdsOfKind(pos, "start")) = Cardinality(IdsOfKind(n, "start")) + 1
      BY <3>1, <3>3, FS_AddElement
    <3>5. /\ a'.starts \in Seq(Ids(n) \union {node.id}) /\ Len(a'.starts) = Len(a.starts) + 1
          /\ Compiling!ToSet(a'.starts) = Compiling!ToSet(a.starts) \union {node.id}
      <4>1. /\ Append(a.starts, node.id) \in Seq(Ids(n) \union {node.id})
            /\ Len(Append(a.starts, node.id)) = Len(a.starts) + 1
            /\ Compiling!ToSet(Append(a.starts, node.id)) = Compiling!ToSet(a.starts) \union {node.id}
        BY <2>1, Appended
      <4> QED
        BY <3>1, <4>1
    <3> QED
      BY <2>1, <3>1, <3>4, <3>5, <1>4
  <2>3. CASE node.kind # "start"
    <3>1. a'.starts = a.starts /\ IdsOfKind(pos, "start") = IdsOfKind(n, "start")
      BY <2>3, <1>4, <1>5
    <3> QED
      BY <2>1, <3>1, <1>4
  <2> QED
    BY <2>2, <2>3
<1>11. a'.ends \in Seq(Ids(pos)) /\ Compiling!ToSet(a'.ends) = IdsOfKind(pos, "end")
  <2>1. a.ends \in Seq(Ids(n)) /\ Compiling!ToSet(a.ends) = IdsOfKind(n, "end")
    BY <1>1 DEF NodesIndexedTo
  <2>2. CASE node.kind = "end"
    <3>1. a'.ends = Append(a.ends, node.id) /\ IdsOfKind(pos, "end") = IdsOfKind(n, "end") \union {node.id}
      BY <2>2, <1>4, <1>5
    <3>2. /\ a'.ends \in Seq(Ids(n) \union {node.id})
          /\ Compiling!ToSet(a'.ends) = Compiling!ToSet(a.ends) \union {node.id}
      <4>1. /\ Append(a.ends, node.id) \in Seq(Ids(n) \union {node.id})
            /\ Compiling!ToSet(Append(a.ends, node.id)) = Compiling!ToSet(a.ends) \union {node.id}
        BY <2>1, Appended
      <4> QED
        BY <3>1, <4>1
    <3> QED
      BY <2>1, <3>1, <3>2, <1>4
  <2>3. CASE node.kind # "end"
    <3>1. a'.ends = a.ends /\ IdsOfKind(pos, "end") = IdsOfKind(n, "end")
      BY <2>3, <1>4, <1>5
    <3> QED
      BY <2>1, <3>1, <1>4
  <2> QED
    BY <2>2, <2>3
<1>12. DOMAIN a.adjacency = Ids(n) /\ DOMAIN a.predecessors = Ids(n) /\ DOMAIN a.indegree = Ids(n)
  BY <1>1 DEF NodesIndexedTo
<1>13. /\ DOMAIN a'.adjacency = Ids(pos) /\ DOMAIN a'.predecessors = Ids(pos)
       /\ DOMAIN a'.indegree = Ids(pos)
  BY <1>4, <1>5, <1>12, Assigned DEF Compiling!With
<1>14. \A id \in Ids(pos) : a'.adjacency[id] = << >> /\ a'.predecessors[id] = << >> /\ a'.indegree[id] = 0
  <2> TAKE id \in Ids(pos)
  <2>1. CASE id = node.id
    BY <2>1, <1>5, Assigned DEF Compiling!With
  <2>2. CASE id # node.id
    <3>1. id \in Ids(n)
      BY <2>2, <1>4
    <3>2. a.adjacency[id] = << >> /\ a.predecessors[id] = << >> /\ a.indegree[id] = 0
      BY <3>1, <1>1 DEF NoEdgesYet, NodesIndexedTo
    <3>3. a'.adjacency[id] = a.adjacency[id] /\ a'.predecessors[id] = a.predecessors[id] /\ a'.indegree[id] = a.indegree[id]
      BY <3>1, <2>2, <1>5, <1>12, Assigned DEF Compiling!With
    <3> QED
      BY <3>2, <3>3
  <2> QED
    BY <2>1, <2>2
<1>15. /\ \A k : Ids(k)' = Ids(k)
       /\ \A k, kind : IdsOfKind(k, kind)' = IdsOfKind(k, kind)
  BY DEF Ids, IdsOfKind
<1>16. \A k \in Nat : k = pos => NodesIndexedTo(k)'
  BY <1>3, <1>5, <1>7, <1>8, <1>9, <1>10, <1>11, <1>13, <1>15 DEF NodesIndexedTo
<1>17. NoEdgesYet'
  BY <1>1, <1>5, <1>7, <1>14 DEF NoEdgesYet
<1> QED
  BY <1>1, <1>16, <1>17

\* A node that is bad, or an index without its start or an end, is a defect.
LEMMA BadNode ==
  ASSUME CompilationInv, pc = "nodes", pos <= Len(def.nodes), Compiling!NodeIsBad(def.nodes[pos])
  PROVE  ~Compiling!WellNamed
<1>0. PICK m \in Nat : pos = m + 1 /\ NodesIndexedTo(m)
  BY DEF CompilationInv
<1>1. Len(def.nodes) \in Nat /\ DOMAIN def.nodes = 1 .. Len(def.nodes)
  BY Lists DEF CompilationInv
<1>2. pos \in DOMAIN def.nodes
  BY <1>0, <1>1
<1> SUFFICES ASSUME Compiling!WellNamed PROVE FALSE
  OBVIOUS
<1>3. def.nodes[pos].id # "" /\ def.nodes[pos].kind # ""
  BY <1>2 DEF Compiling!WellNamed
<1>4. def.nodes[pos].id \in Ids(m)
  BY <1>0, <1>3 DEF Compiling!NodeIsBad, NodesIndexedTo
<1>5. PICK k \in 1 .. m : def.nodes[k].id = def.nodes[pos].id
  BY <1>4 DEF Ids
<1> DEFINE n == Len(def.nodes)
           f == [i \in 1 .. n |-> def.nodes[i].id]
<1>6. {f[i] : i \in 1 .. n} = Compiling!DefNodes
  BY <1>1 DEF Compiling!DefNodes
<1>7. k \in 1 .. n /\ pos \in 1 .. n /\ k # pos
  BY <1>0, <1>1, <1>5
<1>8. f[k] = f[pos]
  BY <1>5, <1>7
<1>9. Cardinality(Compiling!DefNodes) = n
  BY SameCardinality DEF Compiling!WellNamed, Compiling!Cardinality, Cardinality
<1>10. f = [i \in 1 .. n |-> f[i]]
  OBVIOUS
<1>11. n \in Nat
  BY <1>1
<1> HIDE DEF f, n
<1> QED
  BY <1>6, <1>7, <1>8, <1>9, <1>10, <1>11, NoRepetition

\* An iteration of indexNodes indexes a node or names a defect.
LEMMA IndexNodeStep ==
  ASSUME CompilationInv, Compiling!IndexNode
  PROVE  CompilationInv'
<1>1. pc = "nodes" /\ pos <= Len(def.nodes) /\ verdict = "" /\ def \in Definitions
  BY DEF Compiling!IndexNode, CompilationInv
<1>2. CASE Compiling!NodeIsBad(def.nodes[pos])
  <2>1. Compiling!Refuse("structure")
    BY <1>2 DEF Compiling!IndexNode
  <2>2. ~Compiling!WellFormed
    BY <1>1, <1>2, BadNode DEF Compiling!WellFormed
  <2> QED
    BY <2>1, <2>2, Refused
<1>3. CASE ~Compiling!NodeIsBad(def.nodes[pos])
  <2>1. /\ a' = Compiling!WithNode(def.nodes[pos]) /\ pos' = pos + 1
        /\ def' = def /\ pc' = "nodes" /\ verdict' = ""
    BY <1>1, <1>3 DEF Compiling!IndexNode
  <2>2. (\E n \in Nat : n = pos /\ NodesIndexedTo(n)') /\ NoEdgesYet'
    BY <1>1, <1>3, <2>1, NodeAdded
  <2>4. (\E n \in Nat : pos = n + 1 /\ NodesIndexedTo(n))'
    BY <2>1, <2>2
  <2>5. Compiling!VerdictIsRight' /\ Compiling!PlanIsExecutable'
    BY <2>1, NoVerdictYet
  <2> QED
    BY <1>1, <2>1, <2>2, <2>4, <2>5 DEF CompilationInv
<1> QED
  BY <1>2, <1>3

\* After indexNodes there is one start and an end, or a defect is named.
LEMMA NodesIndexedStep ==
  ASSUME CompilationInv, Compiling!NodesIndexed
  PROVE  CompilationInv'
<1> DEFINE nameless == def.id = ""
<1>1. /\ pc = "nodes" /\ (pos > Len(def.nodes) \/ nameless) /\ def \in Definitions
      /\ NoEdgesYet
  BY DEF Compiling!NodesIndexed, CompilationInv
<1>0. verdict = ""
  BY <1>1 DEF CompilationInv
<1> HIDE DEF nameless
<1>2. PICK n \in Nat : pos = n + 1 /\ NodesIndexedTo(n)
  BY <1>1 DEF CompilationInv
<1>3. Len(def.nodes) \in Nat /\ Len(def.edges) \in Nat
  BY <1>1, Lists
<1>4. pos > Len(def.nodes) => n = Len(def.nodes)
  BY <1>2, <1>3 DEF NodesIndexedTo
<1>5. CASE def.id = "" \/ Len(a.starts) # 1 \/ a.ends = << >>
  <2>1. Compiling!Refuse("structure")
    BY <1>5 DEF Compiling!NodesIndexed
  <2>2. CASE def.id = ""
    BY <2>1, <2>2, Refused DEF Compiling!WellFormed, Compiling!WellNamed
  <2>3. CASE def.id # ""
    <3>1. n = Len(def.nodes)
      BY <2>3, <1>1, <1>4 DEF nameless
    <3>2. IdsOfKind(n, "start") = Compiling!OfKind("start") /\ IdsOfKind(n, "end") = Compiling!OfKind("end")
      BY <1>1, <3>1, AllIndexed
    <3>3. Len(a.starts) = Cardinality(Compiling!OfKind("start"))
      BY <1>2, <3>2 DEF NodesIndexedTo
    <3>4. a.ends = << >> => Compiling!OfKind("end") = {}
      <4>1. Compiling!ToSet(a.ends) = Compiling!OfKind("end")
        BY <1>2, <3>2 DEF NodesIndexedTo
      <4>2. a.ends = << >> => Compiling!ToSet(a.ends) = {}
        BY DEF Compiling!ToSet
      <4> QED
        BY <4>1, <4>2
    <3>5. ~Compiling!WellNamed
      BY <1>5, <2>3, <3>3, <3>4, SameCardinality DEF Compiling!WellNamed
    <3> QED
      BY <2>1, <3>5, Refused DEF Compiling!WellFormed
  <2> QED
    BY <2>2, <2>3
<1>6. CASE ~(def.id = "" \/ Len(a.starts) # 1 \/ a.ends = << >>)
  <2>0. pos' = 1
    BY <1>1, <1>6 DEF Compiling!NodesIndexed, Compiling!Enter
  <2>1. def' = def /\ a' = a /\ pc' = "edges" /\ verdict' = ""
    BY <1>0, <1>1, <1>6 DEF Compiling!NodesIndexed, Compiling!Enter
  <2>2. n = Len(def.nodes)
    BY <1>1, <1>4, <1>6 DEF nameless
  <2>3. NodesIndexedTo(Len(def.nodes))
    BY <1>2, <2>2
  <2>4. EdgesIndexedTo(0)
    <3>1. \A id : Into(0, id) = {} /\ OutOf(0, id) = {}
      BY DEF Into, OutOf
    <3>2. Cardinality({}) = 0 /\ Len(<< >>) = 0 /\ << >> \in Seq(Compiling!NodeIds)
      BY FS_EmptySet
    <3>3. \A id : Occurrences(<< >>, 1, id) = {}
      BY DEF Occurrences
    <3>4. Compiling!ToSet(<< >>) = {}
      BY DEF Compiling!ToSet
    <3>5. \A id \in Compiling!NodeIds : NeighboursKnown(0, id)
      BY <1>1, <3>1, <3>2, <3>3, <3>4 DEF NoEdgesYet, NeighboursKnown
    <3>6. \A k \in 1 .. 0 : FALSE
      OBVIOUS
    <3>7. 0 \in 0 .. Len(def.edges) /\ DOMAIN a.routes = {}
      BY <1>1, <1>3 DEF NoEdgesYet
    <3> QED
      BY <3>5, <3>6, <3>7 DEF EdgesIndexedTo
  <2>5. NodesIndexedTo(Len(def.nodes))' /\ EdgesIndexedTo(0)'
    BY <2>1, <2>3, <2>4, SameAnalysis
  <2>6. (\E m \in Nat : pos = m + 1 /\ EdgesIndexedTo(m))'
    <3>1. pos' = 0 + 1
      BY <2>0
    <3> QED
      BY <2>5, <3>1
  <2>7. Compiling!VerdictIsRight' /\ Compiling!PlanIsExecutable'
    BY <2>1, NoVerdictYet
  <2>8. def'.id # "" /\ Len(a'.starts) = 1 /\ a'.ends # << >>
    BY <1>6, <2>1
  <2> QED
    BY <1>1, <2>1, <2>5, <2>6, <2>7, <2>8 DEF CompilationInv
<1> QED
  BY <1>5, <1>6

\* A list that grew by a member has it once more.
LEMMA OccursAppended ==
  ASSUME NEW S, NEW list \in Seq(S), NEW x, NEW y
  PROVE  /\ Cardinality(Occurrences(list, 1, y)) \in Nat
         /\ Cardinality(Occurrences(Append(list, x), 1, y))
              = Cardinality(Occurrences(list, 1, y)) + (IF x = y THEN 1 ELSE 0)
<1> DEFINE n == Len(list)
           longer == Append(list, x)
           I == Occurrences(longer, 1, y)
<1>1. n \in Nat /\ Len(longer) = n + 1 /\ longer[n + 1] = x /\ \A i \in 1 .. n : longer[i] = list[i]
  OBVIOUS
<1> HIDE DEF n, longer
<1>2. I \in SUBSET (1 .. n + 1) /\ (n + 1 \in I <=> x = y)
  BY <1>1 DEF Occurrences
<1>3. I \ {n + 1} = Occurrences(list, 1, y)
  BY <1>1 DEF Occurrences, n
<1>4. /\ Cardinality(I \ {n + 1}) \in Nat
      /\ Cardinality(I) = Cardinality(I \ {n + 1}) + (IF n + 1 \in I THEN 1 ELSE 0)
  BY <1>1, <1>2, OneMore
<1> QED
  BY <1>2, <1>3, <1>4 DEF longer

\* An edge that is not bad is added to every index (indexEdges).
LEMMA EdgeAdded ==
  ASSUME NEW m \in Nat, def \in Definitions, pos = m + 1, m + 1 <= Len(def.edges), def' = def,
         NodesIndexedTo(Len(def.nodes)), EdgesIndexedTo(m),
         ~Compiling!EdgeIsBad(def.edges[m + 1]),
         Compiling!Selector(def.edges[m + 1]) \notin DOMAIN a.routes,
         a' = Compiling!WithEdge(def.edges[m + 1])
  PROVE  /\ NodesIndexedTo(Len(def.nodes))' /\ EdgesIndexedTo(m + 1)'
         /\ a'.starts = a.starts /\ a'.ends = a.ends
<1> DEFINE edge == def.edges[m + 1]
<1>1. Len(def.edges) \in Nat /\ m + 1 \in 0 .. Len(def.edges) /\ 1 .. m + 1 = 1 .. m \union {m + 1} /\ m + 1 \notin 1 .. m
  BY Lists, SMTT(30)
<1>2. /\ IsAnalysis(a') /\ a'.nodes = a.nodes /\ a'.starts = a.starts /\ a'.ends = a.ends
      /\ a'.routes = Compiling!With(a.routes, Compiling!Selector(edge), edge.to)
      /\ a'.adjacency = [a.adjacency EXCEPT ![edge.from] = Append(@, edge.to)]
      /\ a'.predecessors = [a.predecessors EXCEPT ![edge.to] = Append(@, edge.from)]
      /\ a'.indegree = [a.indegree EXCEPT ![edge.to] = @ + 1]
  BY EdgeFields DEF NodesIndexedTo
<1>3. edge.from \in Compiling!NodeIds /\ edge.to \in Compiling!NodeIds /\ Compiling!Kind(edge.from) # "end"
  BY DEF Compiling!EdgeIsBad
<1>4. /\ DOMAIN a.adjacency = Compiling!NodeIds /\ DOMAIN a.predecessors = Compiling!NodeIds
      /\ DOMAIN a.indegree = Compiling!NodeIds
  BY SMTT(30) DEF NodesIndexedTo
<1>5. Compiling!NodeIds' = Compiling!NodeIds /\ \A id : Compiling!Kind(id)' = Compiling!Kind(id)
  BY <1>2 DEF Compiling!NodeIds, Compiling!Kind
<1>6. /\ \A n : Ids(n)' = Ids(n)
      /\ \A n, kind : IdsOfKind(n, kind)' = IdsOfKind(n, kind)
      /\ \A n, id : Into(n, id)' = Into(n, id) /\ OutOf(n, id)' = OutOf(n, id)
  BY SMTT(30) DEF Ids, IdsOfKind, Into, OutOf
<1>7. /\ DOMAIN a'.adjacency = Compiling!NodeIds /\ DOMAIN a'.predecessors = Compiling!NodeIds
      /\ DOMAIN a'.indegree = Compiling!NodeIds
  BY <1>2, <1>4, SMTT(30)
<1>8. NodesIndexedTo(Len(def.nodes))'
  BY <1>2, <1>4, <1>5, <1>6, <1>7 DEF NodesIndexedTo
<1>9. \A id : /\ Into(m + 1, id) = Into(m, id) \union (IF edge.to = id THEN {m + 1} ELSE {})
              /\ OutOf(m + 1, id) = OutOf(m, id) \union (IF edge.from = id THEN {m + 1} ELSE {})
              /\ m + 1 \notin Into(m, id) /\ m + 1 \notin OutOf(m, id)
              /\ Into(m + 1, id) \in SUBSET (1 .. m + 1) /\ OutOf(m + 1, id) \in SUBSET (1 .. m + 1)
  BY <1>1 DEF Into, OutOf
<1> HIDE DEF edge
<1>10. \A id \in Compiling!NodeIds : NeighboursKnown(m + 1, id)'
  <2> TAKE id \in Compiling!NodeIds
  <2>0. NeighboursKnown(m, id)
    BY DEF EdgesIndexedTo
  <2>1. /\ a.adjacency[id] \in Seq(Compiling!NodeIds) /\ a.predecessors[id] \in Seq(Compiling!NodeIds)
        /\ Len(a.adjacency[id]) = Cardinality(OutOf(m, id))
        /\ a.indegree[id] = Cardinality(Into(m, id))
    BY <2>0 DEF NeighboursKnown
  <2>2. a'.adjacency[id] = IF id = edge.from THEN Append(a.adjacency[id], edge.to) ELSE a.adjacency[id]
    BY <1>2, <1>4
  <2>3. a'.predecessors[id] = IF id = edge.to THEN Append(a.predecessors[id], edge.from) ELSE a.predecessors[id]
    BY <1>2, <1>4
  <2>4. a'.indegree[id] = IF id = edge.to THEN a.indegree[id] + 1 ELSE a.indegree[id]
    BY <1>2, <1>4
  <2>5. a'.adjacency[id] \in Seq(Compiling!NodeIds) /\ a'.predecessors[id] \in Seq(Compiling!NodeIds)
    BY <1>3, <2>1, <2>2, <2>3
  <2>6. a'.indegree[id] = Cardinality(Into(m + 1, id))
    <3>1. Into(m + 1, id) \ {m + 1} = Into(m, id) /\ (m + 1 \in Into(m + 1, id) <=> edge.to = id)
      BY <1>9
    <3>2. /\ Cardinality(Into(m + 1, id) \ {m + 1}) \in Nat
          /\ Cardinality(Into(m + 1, id)) = Cardinality(Into(m + 1, id) \ {m + 1})
                                             + (IF m + 1 \in Into(m + 1, id) THEN 1 ELSE 0)
      BY <1>9, OneMore
    <3> QED
      BY <2>1, <2>4, <3>1, <3>2
  <2>7. Len(a'.adjacency[id]) = Cardinality(OutOf(m + 1, id))
    <3>1. OutOf(m + 1, id) \ {m + 1} = OutOf(m, id) /\ (m + 1 \in OutOf(m + 1, id) <=> edge.from = id)
      BY <1>9
    <3>2. /\ Cardinality(OutOf(m + 1, id) \ {m + 1}) \in Nat
          /\ Cardinality(OutOf(m + 1, id)) = Cardinality(OutOf(m + 1, id) \ {m + 1})
                                              + (IF m + 1 \in OutOf(m + 1, id) THEN 1 ELSE 0)
      BY <1>9, OneMore
    <3>3. CASE id = edge.from
      <4>1. a'.adjacency[id] = Append(a.adjacency[id], edge.to)
        BY <2>2, <3>3
      <4>2. Len(Append(a.adjacency[id], edge.to)) = Len(a.adjacency[id]) + 1
        BY <2>1
      <4> QED
        BY <2>1, <3>1, <3>2, <3>3, <4>1, <4>2
    <3>4. CASE id # edge.from
      BY <2>1, <2>2, <3>1, <3>2, <3>4
    <3> QED
      BY <3>3, <3>4
  <2>8. \A to \in Compiling!NodeIds : Cardinality(Occurrences(a'.adjacency[id], 1, to))
               = Cardinality(OutOf(m + 1, id) \intersect Into(m + 1, to))
    <3> TAKE to \in Compiling!NodeIds
    <3> DEFINE I == OutOf(m + 1, id) \intersect Into(m + 1, to)
    <3>1. I \in SUBSET (1 .. m + 1) /\ I \ {m + 1} = OutOf(m, id) \intersect Into(m, to)
          /\ (m + 1 \in I <=> edge.from = id /\ edge.to = to)
      BY <1>9
    <3>2. /\ Cardinality(I \ {m + 1}) \in Nat
          /\ Cardinality(I) = Cardinality(I \ {m + 1}) + (IF m + 1 \in I THEN 1 ELSE 0)
      BY <3>1, OneMore
    <3>3. Cardinality(Occurrences(a.adjacency[id], 1, to)) = Cardinality(I \ {m + 1})
      BY <2>0, <3>1 DEF NeighboursKnown
    <3>4. CASE id = edge.from
      <4>1. Cardinality(Occurrences(Append(a.adjacency[id], edge.to), 1, to))
              = Cardinality(Occurrences(a.adjacency[id], 1, to)) + (IF edge.to = to THEN 1 ELSE 0)
        BY <2>1, OccursAppended
      <4> HIDE DEF I
      <4> QED
        BY <3>1, <3>2, <3>3, <3>4, <4>1, <2>2 DEF I
    <3>5. CASE id # edge.from
      <4> HIDE DEF I
      <4> QED
        BY <3>1, <3>2, <3>3, <3>5, <2>2 DEF I
    <3> QED
      BY <3>4, <3>5
  <2>9. Compiling!ToSet(a'.predecessors[id]) = {def.edges[k].from : k \in Into(m + 1, id)}
    <3>1. Compiling!ToSet(a.predecessors[id]) = {def.edges[k].from : k \in Into(m, id)}
      BY <2>0 DEF NeighboursKnown
    <3>2. CASE id = edge.to
      <4>1. Compiling!ToSet(Append(a.predecessors[id], edge.from))
              = Compiling!ToSet(a.predecessors[id]) \union {edge.from}
        <5>1. PICK list \in Seq(Compiling!NodeIds) : list = a.predecessors[id]
          BY <2>1
        <5>2. PICK from : from = edge.from
          OBVIOUS
        <5>3. Compiling!ToSet(Append(list, from)) = Compiling!ToSet(list) \union {from}
          BY Appended
        <5> QED
          BY <5>1, <5>2, <5>3
      <4>2. {def.edges[k].from : k \in Into(m + 1, id)}
              = {def.edges[k].from : k \in Into(m, id)} \union {edge.from}
        BY <1>9, <3>2 DEF edge
      <4> QED
        BY <2>3, <3>1, <3>2, <4>1, <4>2
    <3>3. CASE id # edge.to
      <4>1. Into(m + 1, id) = Into(m, id) /\ a'.predecessors[id] = a.predecessors[id]
        BY <1>9, <2>3, <3>3
      <4> QED
        BY <3>1, <4>1
    <3> QED
      BY <3>2, <3>3
  <2> QED
    BY <1>5, <1>6, <2>5, <2>6, <2>7, <2>8, <2>9 DEF NeighboursKnown
<1>11. \A k \in 1 .. m : IsRouted(def.edges[k])
  BY DEF EdgesIndexedTo
<1>12. /\ DOMAIN a'.routes = DOMAIN a.routes \union {Compiling!Selector(edge)}
       /\ a'.routes[Compiling!Selector(edge)] = edge.to
       /\ \A s \in DOMAIN a.routes : a'.routes[s] = a.routes[s]
  BY <1>2 DEF Compiling!With, edge
<1>13. \A k \in 1 .. m + 1 : IsRouted(def.edges[k])'
  <2> TAKE k \in 1 .. m + 1
  <2>1. CASE k = m + 1
    BY <2>1, <1>3, <1>5, <1>12 DEF IsRouted, edge, Compiling!Selector
  <2>2. CASE k \in 1 .. m
    BY <2>2, <1>5, <1>11, <1>12 DEF IsRouted, Compiling!Selector
  <2> QED
    BY <1>1, <2>1, <2>2
<1>14. \A s \in DOMAIN a'.routes : \E k \in 1 .. m + 1 : s = Compiling!Selector(def.edges[k])
  BY <1>1, <1>12 DEF EdgesIndexedTo, edge
<1>15. \A j, k \in 1 .. m + 1 : Compiling!Selector(def.edges[j]) = Compiling!Selector(def.edges[k]) => j = k
  <2>1. \A j \in 1 .. m : Compiling!Selector(def.edges[j]) # Compiling!Selector(edge)
    BY <1>11 DEF IsRouted, edge
  <2> QED
    BY <1>1, <2>1 DEF EdgesIndexedTo, edge
<1>16. EdgesIndexedTo(m + 1)'
  BY <1>1, <1>5, <1>10, <1>13, <1>14, <1>15 DEF EdgesIndexedTo, Compiling!Selector
<1> QED
  BY <1>2, <1>8, <1>16

\* The index of the nodes gives each of them its kind.
LEMMA KindIndexed ==
  ASSUME def \in Definitions, NodesIndexedTo(Len(def.nodes))
  PROVE  /\ Compiling!NodeIds = Compiling!DefNodes
         /\ \A id \in Compiling!NodeIds : \A kind : Compiling!Kind(id) = kind <=> id \in Compiling!OfKind(kind)
<1>1. DOMAIN def.nodes = 1 .. Len(def.nodes) /\ Compiling!NodeIds = Compiling!DefNodes
  BY Lists, AllIndexed DEF NodesIndexedTo
<1>2. \A k \in DOMAIN def.nodes : a.nodes[def.nodes[k].id] = k
  BY <1>1 DEF NodesIndexedTo
<1>3. \A k \in DOMAIN def.nodes : Compiling!Kind(def.nodes[k].id) = def.nodes[k].kind
  BY <1>2 DEF Compiling!Kind
<1> QED
  BY <1>1, <1>3 DEF Compiling!DefNodes, Compiling!OfKind

\* The start and the ends, as the analysis has them.
LEMMA TheStartAndTheEnds ==
  ASSUME def \in Definitions, Analysed
  PROVE  /\ Compiling!StartID \in Compiling!NodeIds /\ Compiling!OfKind("start") = {Compiling!StartID}
         /\ a.ends \in Seq(Compiling!NodeIds) /\ Compiling!ToSet(a.ends) = Compiling!OfKind("end")
         /\ Compiling!OfKind("end") # {}
<1>1. NodesIndexedTo(Len(def.nodes)) /\ Len(a.starts) = 1 /\ a.ends # << >>
  BY DEF Analysed
<1>2. /\ a.starts \in Seq(Compiling!NodeIds) /\ a.ends \in Seq(Compiling!NodeIds)
      /\ Compiling!ToSet(a.starts) = Compiling!OfKind("start")
      /\ Compiling!ToSet(a.ends) = Compiling!OfKind("end")
  BY <1>1, AllIndexed DEF NodesIndexedTo
<1>3. DOMAIN a.starts = {1} /\ a.starts[1] \in Compiling!NodeIds
  BY <1>1, <1>2
<1>4. Compiling!ToSet(a.starts) = {Compiling!StartID}
  BY <1>3 DEF Compiling!ToSet, Compiling!StartID
<1>5. Compiling!ToSet(a.ends) # {}
  <2>1. 1 \in DOMAIN a.ends
    BY <1>1, <1>2
  <2> QED
    BY <2>1 DEF Compiling!ToSet
<1> QED
  BY <1>2, <1>3, <1>4, <1>5 DEF Compiling!StartID

\* An iteration of indexEdges indexes an edge or names a defect.
LEMMA IndexEdgeStep ==
  ASSUME CompilationInv, Compiling!IndexEdge
  PROVE  CompilationInv'
<1>1. /\ pc = "edges" /\ pos <= Len(def.edges) /\ def \in Definitions
      /\ NodesIndexedTo(Len(def.nodes)) /\ Len(a.starts) = 1 /\ a.ends # << >>
  BY DEF Compiling!IndexEdge, CompilationInv
<1>0. verdict = "" /\ def.id # ""
  BY <1>1 DEF CompilationInv
<1>2. PICK m \in Nat : pos = m + 1 /\ EdgesIndexedTo(m)
  BY <1>1 DEF CompilationInv
<1> DEFINE edge == def.edges[pos]
<1>3. pos \in DOMAIN def.edges /\ edge \in Compiling!DefEdges
  BY <1>1, <1>2, Lists DEF Compiling!DefEdges, Compiling!ToSet
<1>4. CASE Compiling!EdgeIsBad(edge)
  <2>1. Compiling!Refuse("structure")
    BY <1>4 DEF Compiling!IndexEdge
  <2>2. ~(edge.from \in Compiling!DefNodes \ Compiling!OfKind("end") /\ edge.to \in Compiling!DefNodes)
    BY <1>1, <1>4, KindIndexed DEF Compiling!EdgeIsBad
  <2>3. ~Compiling!WellNamed
    BY <1>3, <2>2 DEF Compiling!WellNamed
  <2> QED
    BY <2>1, <2>3, Refused DEF Compiling!WellFormed
<1>5. CASE ~Compiling!EdgeIsBad(edge) /\ Compiling!Selector(edge) \in DOMAIN a.routes
  <2>1. Compiling!Refuse("ambiguous")
    BY <1>5 DEF Compiling!IndexEdge
  <2>2. PICK k \in 1 .. m : Compiling!Selector(edge) = Compiling!Selector(def.edges[k])
    BY <1>2, <1>5 DEF EdgesIndexedTo
  <2>3. k \in DOMAIN def.edges /\ k # pos
    BY <1>1, <1>2, Lists
  <2>4. ~Compiling!Deterministic
    BY <1>3, <2>2, <2>3 DEF Compiling!Deterministic
  <2> QED
    BY <2>1, <2>4, Refused DEF Compiling!WellFormed
<1>6. CASE ~Compiling!EdgeIsBad(edge) /\ Compiling!Selector(edge) \notin DOMAIN a.routes
  <2>0. pos' = pos + 1
    BY <1>6 DEF Compiling!IndexEdge
  <2>1. a' = Compiling!WithEdge(edge) /\ def' = def /\ pc' = "edges" /\ verdict' = ""
    BY <1>0, <1>1, <1>6 DEF Compiling!IndexEdge
  <2>2. /\ NodesIndexedTo(Len(def.nodes))' /\ EdgesIndexedTo(m + 1)'
        /\ a'.starts = a.starts /\ a'.ends = a.ends
    <3>1. edge = def.edges[m + 1] /\ m + 1 <= Len(def.edges)
      BY <1>1, <1>2
    <3>2. a' = Compiling!WithEdge(def.edges[m + 1]) /\ def' = def
      BY <2>1, <3>1
    <3>3. ~Compiling!EdgeIsBad(def.edges[m + 1]) /\ Compiling!Selector(def.edges[m + 1]) \notin DOMAIN a.routes
      BY <1>6, <3>1
    <3> HIDE DEF edge
    <3> QED
      BY <1>1, <1>2, <3>1, <3>2, <3>3, EdgeAdded
  <2>3. (\E n \in Nat : pos = n + 1 /\ EdgesIndexedTo(n))'
    <3>1. pos' = (m + 1) + 1 /\ m + 1 \in Nat
      BY <1>2, <2>0
    <3> QED
      BY <2>2, <3>1
  <2>4. Compiling!VerdictIsRight' /\ Compiling!PlanIsExecutable'
    BY <2>1, NoVerdictYet
  <2>5. def'.id # "" /\ Len(a'.starts) = 1 /\ a'.ends # << >>
    BY <1>0, <1>1, <2>1, <2>2
  <2> QED
    BY <1>1, <2>1, <2>2, <2>3, <2>4, <2>5 DEF CompilationInv
<1> QED
  BY <1>4, <1>5, <1>6

\* A queue that has each node of indegree zero once.
LEMMA RootsQueued ==
  ASSUME NEW V, IsFiniteSet(V), NEW R \in SUBSET V, NEW roots \in Compiling!SetToSeqs(R)
  PROVE  /\ roots \in Seq(V)
         /\ \A i, j \in 1 .. Len(roots) : roots[i] = roots[j] => i = j
         /\ \A id : id \in R <=> \E i \in 1 .. Len(roots) : roots[i] = id
<1> DEFINE n == Cardinality(R)
           D == 1 .. n
<1>1. IsFiniteSet(R) /\ n \in Nat
  BY FS_Subset, FS_CardinalityType
<1>2. roots \in [D -> R] /\ \A i, j \in D : roots[i] = roots[j] => i = j
  BY SameCardinality DEF Compiling!SetToSeqs, Compiling!Cardinality, Cardinality
<1>3. IsFiniteSet(D) /\ Cardinality(D) = n
  BY <1>1, FS_Interval
<1>4. Len(roots) = n /\ roots \in Seq(V)
  BY <1>1, <1>2
<1>5. \A id \in R : \E i \in D : roots[i] = id
  <2> HIDE DEF D
  <2>1. roots \in Injection(D, R)
    BY <1>2 DEF Injection, IsInjective
  <2>2. roots \in Surjection(D, R)
    BY <2>1, <1>1, <1>3, FS_Injection
  <2> QED
    BY <2>2 DEF Surjection
<1> QED
  BY <1>2, <1>4, <1>5

\* validateAcyclic begins with the nodes of indegree zero queued, in any order.
LEMMA EdgesIndexedStep ==
  ASSUME CompilationInv, Compiling!EdgesIndexed
  PROVE  CompilationInv'
<1>1. /\ pc = "edges" /\ pos > Len(def.edges) /\ def \in Definitions
      /\ NodesIndexedTo(Len(def.nodes)) /\ Len(a.starts) = 1 /\ a.ends # << >>
  BY DEF Compiling!EdgesIndexed, CompilationInv
<1>0. verdict = "" /\ def.id # ""
  BY <1>1 DEF CompilationInv
<1>2. PICK m \in Nat : pos = m + 1 /\ EdgesIndexedTo(m)
  BY <1>1 DEF CompilationInv
<1>3. m = Len(def.edges)
  BY <1>1, <1>2, Lists DEF EdgesIndexedTo
<1>4. EdgesIndexedTo(Len(def.edges))
  BY <1>2, <1>3
<1>5. Analysed
  BY <1>0, <1>1, <1>4 DEF Analysed
<1>6. def' = def /\ a' = a /\ pc' = "acyclic" /\ verdict' = ""
  BY <1>0 DEF Compiling!EdgesIndexed, Compiling!Enter
<1>7. pos' = 1
  BY DEF Compiling!EdgesIndexed, Compiling!Enter
<1> DEFINE R == {n \in Compiling!NodeIds : a.indegree[n] = 0}
<1>8. PICK roots \in Compiling!SetToSeqs(R) :
        scan' = [Compiling!NoScan EXCEPT !.queue = roots, !.remaining = a.indegree]
  BY DEF Compiling!EdgesIndexed
<1>9. scan' = [queue |-> roots, targets |-> << >>, visited |-> {}, order |-> << >>, remaining |-> a.indegree]
  BY <1>8 DEF Compiling!NoScan
<1>10. /\ roots \in Seq(Compiling!NodeIds)
       /\ \A i, j \in 1 .. Len(roots) : roots[i] = roots[j] => i = j
       /\ \A id : id \in R <=> \E i \in 1 .. Len(roots) : roots[i] = id
  <2>1. IsFiniteSet(Compiling!NodeIds)
    BY <1>1 DEF NodesIndexedTo
  <2>2. R \in SUBSET Compiling!NodeIds
    OBVIOUS
  <2> HIDE DEF R
  <2> QED
    BY <2>1, <2>2, RootsQueued
<1>11. Analysed' /\ Compiling!NodeIds' = Compiling!NodeIds
  BY <1>5, <1>6, SameAnalysis
<1>12. Started' = roots
  BY <1>9, <1>10 DEF Started
<1>13. \A id \in Compiling!NodeIds : Waiting(id, {}) = Into(Len(def.edges), id)
  BY DEF Waiting
<1>14. \A id : Occurrences(<< >>, 1, id) = {}
  BY DEF Occurrences
<1>15. \A id \in Compiling!NodeIds : a.indegree[id] = Cardinality(Into(Len(def.edges), id)) /\ a.indegree[id] \in Nat
  <2> TAKE id \in Compiling!NodeIds
  <2>1. a.indegree[id] = Cardinality(Into(Len(def.edges), id))
    BY <1>4 DEF EdgesIndexedTo, NeighboursKnown
  <2>2. Into(Len(def.edges), id) \in SUBSET (1 .. Len(def.edges)) /\ Len(def.edges) \in Nat
    BY <1>1, Lists DEF Into
  <2>3. IsFiniteSet(1 .. Len(def.edges))
    BY <2>2, FS_Interval
  <2>4. IsFiniteSet(Into(Len(def.edges), id))
    BY <2>2, <2>3, FS_Subset
  <2> QED
    BY <2>1, <2>4, FS_CardinalityType
<1>16. Cardinality({}) = 0
  BY FS_EmptySet
<1>17. Counters'
  <2>1. \A id : Waiting(id, {})' = Waiting(id, {})
    BY <1>6 DEF Waiting, Into
  <2>2. Compiling!ToSet(scan'.order) = {}
    BY <1>9 DEF Compiling!ToSet
  <2>3. \A id : Occurrences(scan'.targets, pos', id) = {}
    BY <1>7, <1>9, <1>14
  <2>4. \A id : Waiting(id, Compiling!ToSet(scan.order))' = Waiting(id, {})
    BY <2>1, <2>2 DEF Waiting
  <2>5. scan'.remaining = a.indegree
    BY <1>9
  <2>6. \A id \in Compiling!NodeIds :
          scan'.remaining[id] = Cardinality(Waiting(id, Compiling!ToSet(scan.order))')
                                 + Cardinality(Occurrences(scan'.targets, pos', id))
    BY <1>13, <1>15, <1>16, <2>3, <2>4, <2>5
  <2>7. \A id \in Compiling!NodeIds : scan'.remaining[id] = 0 <=> \E i \in 1 .. Len(Started') : Started'[i] = id
    BY <1>10, <1>12, <2>5
  <2> QED
    BY <1>10, <1>11, <1>12, <2>6, <2>7 DEF Counters
<1>18. AcyclicInv'
  <2>1. IsScan(scan)' /\ scan'.order = << >> /\ scan'.queue = roots /\ scan'.targets = << >> /\ scan'.remaining = a.indegree
    BY <1>9 DEF IsScan
  <2>2. DOMAIN a.indegree = Compiling!NodeIds /\ \A id \in Compiling!NodeIds : a.indegree[id] \in Nat
    BY <1>1, <1>15 DEF NodesIndexedTo
  <2>3. << >> \in Seq(Compiling!NodeIds) /\ Len(<< >>) = 0
    OBVIOUS
  <2>4. pos' \in 1 .. Len(scan'.targets) + 1
    BY <1>7, <2>1, <2>3
  <2>5. \A i \in 1 .. Len(scan'.order) : FALSE
    BY <2>1, <2>3
  <2>6. InOrder'
    BY <2>5 DEF InOrder
  <2> QED
    BY <1>10, <1>11, <1>17, <2>1, <2>2, <2>3, <2>4, <2>6 DEF AcyclicInv
<1>19. Compiling!VerdictIsRight' /\ Compiling!PlanIsExecutable'
  BY <1>6, NoVerdictYet
<1> QED
  BY <1>1, <1>6, <1>11, <1>18, <1>19 DEF CompilationInv

\* What the adjacency lists hold are the arrows of the definition.
LEMMA NeighboursAreArrows ==
  ASSUME def \in Definitions, Analysed
  PROVE  \A x, y \in Compiling!NodeIds :
           /\ y \in Compiling!ToSet(a.adjacency[x]) <=> <<x, y>> \in Compiling!Arrows
           /\ x \in Compiling!ToSet(a.predecessors[y]) <=> <<x, y>> \in Compiling!Arrows
<1> TAKE x, y \in Compiling!NodeIds
<1> DEFINE m == Len(def.edges)
           I == OutOf(m, x) \intersect Into(m, y)
           J == Occurrences(a.adjacency[x], 1, y)
<1>1. m \in Nat /\ DOMAIN def.edges = 1 .. m
  BY Lists
<1>2. <<x, y>> \in Compiling!Arrows <=> I # {}
  BY <1>1 DEF Compiling!Arrows, Compiling!DefEdges, Compiling!ToSet, OutOf, Into
<1>3. NeighboursKnown(m, x) /\ NeighboursKnown(m, y)
  BY DEF Analysed, EdgesIndexedTo
<1>4. a.adjacency[x] \in Seq(Compiling!NodeIds) /\ Cardinality(J) = Cardinality(I)
  BY <1>3 DEF NeighboursKnown
<1>5. I \in SUBSET (1 .. m) /\ J \in SUBSET (1 .. Len(a.adjacency[x])) /\ Len(a.adjacency[x]) \in Nat
  BY <1>4 DEF OutOf, Occurrences
<1>6. IsFiniteSet(I) /\ IsFiniteSet(J)
  <2>1. \A n \in Nat : IsFiniteSet(1 .. n)
    BY FS_Interval
  <2> HIDE DEF I, J, m
  <2>2. IsFiniteSet(1 .. m)
    BY <1>1, <2>1
  <2>3. IsFiniteSet(1 .. Len(a.adjacency[x]))
    BY <1>5, <2>1
  <2> QED
    BY <1>5, <2>2, <2>3, FS_Subset
<1>7. I = {} <=> J = {}
  <2> HIDE DEF I, J
  <2> QED
    BY <1>4, <1>6, FS_EmptySet
<1>8. y \in Compiling!ToSet(a.adjacency[x]) <=> J # {}
  <2>1. DOMAIN a.adjacency[x] = 1 .. Len(a.adjacency[x])
    BY <1>4
  <2> QED
    BY <2>1 DEF Occurrences, Compiling!ToSet
<1>9. x \in Compiling!ToSet(a.predecessors[y]) <=> I # {}
  <2>1. Compiling!ToSet(a.predecessors[y]) = {def.edges[k].from : k \in Into(m, y)}
    BY <1>3 DEF NeighboursKnown
  <2> QED
    BY <2>1 DEF OutOf, Into
<1> QED
  BY <1>2, <1>7, <1>8, <1>9

\* The front of the queue becomes the end of the order.
LEMMA Moved ==
  ASSUME NEW V, NEW order \in Seq(V), NEW queue \in Seq(V), queue # << >>
  PROVE  /\ Append(order, Head(queue)) \o Tail(queue) = order \o queue
         /\ (order \o queue)[Len(order) + 1] = Head(queue) /\ Len(order) + 1 \in 1 .. Len(order \o queue)
         /\ \A i \in 1 .. Len(order) : (order \o queue)[i] = order[i] /\ i \in 1 .. Len(order \o queue)
<1> DEFINE longer == Append(order, Head(queue))
           rest == Tail(queue)
<1>1. /\ longer \in Seq(V) /\ rest \in Seq(V) /\ Len(queue) \in Nat \ {0} /\ Len(order) \in Nat
      /\ Len(longer) = Len(order) + 1 /\ Len(rest) = Len(queue) - 1
      /\ longer[Len(order) + 1] = Head(queue) /\ Head(queue) = queue[1]
      /\ \A i \in 1 .. Len(order) : longer[i] = order[i]
      /\ \A i \in 1 .. Len(rest) : rest[i] = queue[i + 1]
  OBVIOUS
<1> HIDE DEF longer, rest
<1>2. longer \o rest \in Seq(V) /\ order \o queue \in Seq(V)
  BY <1>1
<1>3. /\ Len(order \o queue) = Len(order) + Len(queue)
      /\ \A i \in 1 .. Len(order) + Len(queue) :
           (order \o queue)[i] = IF i <= Len(order) THEN order[i] ELSE queue[i - Len(order)]
  BY <1>1
<1>4. /\ Len(longer \o rest) = Len(longer) + Len(rest)
      /\ \A i \in 1 .. Len(longer) + Len(rest) :
           (longer \o rest)[i] = IF i <= Len(longer) THEN longer[i] ELSE rest[i - Len(longer)]
  <2>1. longer \in Seq(V) /\ rest \in Seq(V)
    BY <1>1
  <2> QED
    BY <2>1, ConcatProperties
<1>8. Len(longer \o rest) = Len(order \o queue)
  BY <1>1, <1>3, <1>4
<1>5. \A i \in 1 .. Len(order) + Len(queue) : (longer \o rest)[i] = (order \o queue)[i]
  <2> TAKE i \in 1 .. Len(order) + Len(queue)
  <2>1. /\ i \in 1 .. Len(longer) + Len(rest)
        /\ (longer \o rest)[i] = IF i <= Len(longer) THEN longer[i] ELSE rest[i - Len(longer)]
        /\ (order \o queue)[i] = IF i <= Len(order) THEN order[i] ELSE queue[i - Len(order)]
    BY <1>1, <1>3, <1>4
  <2>2. CASE i <= Len(order)
    BY <1>1, <2>1, <2>2
  <2>3. CASE i = Len(order) + 1
    <3>1. i - Len(order) = 1
      BY <1>1, <2>3
    <3> QED
      BY <1>1, <2>1, <2>3, <3>1
  <2>4. CASE i > Len(order) + 1
    <3>1. i - Len(longer) \in 1 .. Len(rest) /\ (i - Len(longer)) + 1 = i - Len(order)
      BY <1>1, <2>1, <2>4
    <3>2. rest[i - Len(longer)] = queue[(i - Len(longer)) + 1]
      BY <1>1, <3>1
    <3> QED
      BY <1>1, <2>1, <2>4, <3>1, <3>2
  <2> QED
    BY <1>1, <2>1, <2>2, <2>3, <2>4
<1>6. longer \o rest = order \o queue
  BY <1>2, <1>3, <1>5, <1>8, SeqEqual
<1>7. /\ (order \o queue)[Len(order) + 1] = Head(queue) /\ Len(order) + 1 \in 1 .. Len(order \o queue)
      /\ \A i \in 1 .. Len(order) : (order \o queue)[i] = order[i] /\ i \in 1 .. Len(order \o queue)
  BY <1>1, <1>3
<1> QED
  BY <1>6, <1>7 DEF longer, rest

\* Removing a node whose counter is zero: its predecessors are removed already,
\* and its successors wait for it as one that is being removed.
LEMMA RemoveReadyStep ==
  ASSUME CompilationInv, Compiling!RemoveReady
  PROVE  CompilationInv'
<1> DEFINE V == Compiling!NodeIds
           m == Len(def.edges)
           h == Head(scan.queue)
           n == Len(scan.order)
<1>1. pc = "acyclic" /\ def \in Definitions /\ Analysed /\ AcyclicInv
  BY DEF Compiling!RemoveReady, CompilationInv
<1>0. verdict = ""
  BY <1>1 DEF CompilationInv
<1>2. /\ pos > Len(scan.targets) /\ scan.queue # << >>
      /\ scan' = [scan EXCEPT !.queue = Tail(@), !.order = Append(@, Head(scan.queue)),
                              !.targets = a.adjacency[Head(scan.queue)]]
      /\ pos' = 1
  BY DEF Compiling!RemoveReady, Compiling!Pop, Compiling!RangedOver
<1>3. def' = def /\ pc' = pc /\ a' = a /\ verdict' = verdict
  BY DEF Compiling!RemoveReady, Compiling!Pop
<1>4. /\ scan'.queue = Tail(scan.queue) /\ scan'.order = Append(scan.order, h)
      /\ scan'.targets = a.adjacency[h] /\ scan'.remaining = scan.remaining /\ IsScan(scan')
  <2>1. IsScan(scan)
    BY <1>1 DEF AcyclicInv
  <2>2. scan' = [queue |-> Tail(scan.queue), targets |-> a.adjacency[h], visited |-> scan.visited,
                 order |-> Append(scan.order, h), remaining |-> scan.remaining]
    BY <1>2, <2>1 DEF IsScan
  <2> QED
    BY <2>2 DEF IsScan
<1>5. /\ scan.order \in Seq(V) /\ scan.queue \in Seq(V) /\ scan.targets \in Seq(V)
      /\ pos \in 1 .. Len(scan.targets) + 1 /\ Counters
      /\ DOMAIN scan.remaining = V /\ \A id \in V : scan.remaining[id] \in Nat
  BY <1>1 DEF AcyclicInv
<1>6. h \in V /\ Tail(scan.queue) \in Seq(V) /\ n \in Nat
  BY <1>2, <1>5
<1>7. /\ Started' = Started
      /\ Started[n + 1] = h /\ n + 1 \in 1 .. Len(Started)
      /\ \A i \in 1 .. n : Started[i] = scan.order[i] /\ i \in 1 .. Len(Started)
  <2>1. /\ Append(scan.order, h) \o Tail(scan.queue) = Started
        /\ Started[n + 1] = h /\ n + 1 \in 1 .. Len(Started)
        /\ \A i \in 1 .. n : Started[i] = scan.order[i] /\ i \in 1 .. Len(Started)
    BY <1>2, <1>5, Moved DEF Started
  <2>2. Started' = Append(scan.order, h) \o Tail(scan.queue)
    BY <1>4 DEF Started
  <2> QED
    BY <2>1, <2>2
<1>8. /\ \A i, j \in 1 .. Len(Started) : Started[i] = Started[j] => i = j
      /\ \A id \in V : /\ scan.remaining[id] = Cardinality(Waiting(id, Compiling!ToSet(scan.order)))
                                                + Cardinality(Occurrences(scan.targets, pos, id))
                       /\ scan.remaining[id] = 0 <=> \E i \in 1 .. Len(Started) : Started[i] = id
  BY <1>5 DEF Counters
<1>9. \A id : Occurrences(scan.targets, pos, id) = {}
  BY <1>2, <1>5 DEF Occurrences
<1>10. h \notin Compiling!ToSet(scan.order)
  <2>1. \A i \in 1 .. n : scan.order[i] # h
    BY <1>6, <1>7, <1>8
  <2>2. DOMAIN scan.order = 1 .. n
    BY <1>5
  <2> HIDE DEF h, n
  <2> QED
    BY <2>1, <2>2 DEF Compiling!ToSet
<1>11. \A id \in V : scan.remaining[id] = Cardinality(Waiting(id, Compiling!ToSet(scan.order)))
  <2> TAKE id \in V
  <2>1. IsFiniteSet(Waiting(id, Compiling!ToSet(scan.order)))
    <3>1. Waiting(id, Compiling!ToSet(scan.order)) \in SUBSET (1 .. m)
      BY DEF Waiting, Into
    <3>2. IsFiniteSet(1 .. m)
      BY <1>1, Lists, FS_Interval
    <3> QED
      BY <3>1, <3>2, FS_Subset
  <2>2. Cardinality(Waiting(id, Compiling!ToSet(scan.order))) \in Nat
    BY <2>1, FS_CardinalityType
  <2>3. Cardinality(Occurrences(scan.targets, pos, id)) = 0
    BY <1>9, FS_EmptySet
  <2> QED
    BY <1>8, <2>2, <2>3
<1>12. Compiling!ToSet(scan'.order) = Compiling!ToSet(scan.order) \union {h}
  BY <1>4, <1>5, <1>6, Appended
<1> DEFINE removed == Compiling!ToSet(scan.order)
<1>13. \A id \in V : Cardinality(Waiting(id, removed))
                      = Cardinality(Waiting(id, removed \union {h}))
                        + Cardinality(Occurrences(a.adjacency[h], 1, id))
  <2> TAKE id \in V
  <2> DEFINE W == Waiting(id, removed \union {h})
             O == OutOf(m, h) \intersect Into(m, id)
  <2>1. Waiting(id, removed) = W \union O /\ W \intersect O = {}
    <3> HIDE DEF removed, h
    <3> QED
      BY <1>10 DEF Waiting, OutOf, Into, removed
  <2>2. W \in SUBSET (1 .. m) /\ O \in SUBSET (1 .. m)
    BY DEF Waiting, Into
  <2>3. IsFiniteSet(1 .. m)
    BY <1>1, Lists, FS_Interval
  <2>4. Cardinality(O) = Cardinality(Occurrences(a.adjacency[h], 1, id))
    BY <1>1, <1>6 DEF Analysed, EdgesIndexedTo, NeighboursKnown
  <2> HIDE DEF W, O
  <2>5. IsFiniteSet(W) /\ IsFiniteSet(O)
    BY <2>2, <2>3, FS_Subset
  <2>6. Cardinality(W \union O) = Cardinality(W) + Cardinality(O) - Cardinality(W \intersect O)
    BY <2>5, FS_Union
  <2>7. Cardinality(W) \in Nat /\ Cardinality(O) \in Nat /\ Cardinality(W \intersect O) = 0
    BY <2>1, <2>5, FS_CardinalityType, FS_EmptySet
  <2>8. Cardinality(Waiting(id, removed)) = Cardinality(W) + Cardinality(O)
    BY <2>1, <2>6, <2>7
  <2> QED
    BY <2>4, <2>8 DEF W
<1>14. V' = V /\ Analysed'
  BY <1>1, <1>3, SameAnalysis
<1>15. Counters'
  <2>1. \A id : Waiting(id, Compiling!ToSet(scan.order))' = Waiting(id, removed \union {h})
    BY <1>3, <1>12 DEF Waiting, Into
  <2>2. \A id : Occurrences(scan.targets, pos, id)' = Occurrences(a.adjacency[h], 1, id)
    BY <1>2, <1>4 DEF Occurrences
  <2>3. \A id \in V : scan'.remaining[id] = Cardinality(Waiting(id, Compiling!ToSet(scan.order))')
                                             + Cardinality(Occurrences(scan.targets, pos, id)')
    <3> HIDE DEF removed, h, V
    <3> QED
      BY <1>4, <1>11, <1>13, <2>1, <2>2 DEF removed
  <2>4. \A id \in V : scan'.remaining[id] = 0 <=> \E i \in 1 .. Len(Started') : Started'[i] = id
    BY <1>4, <1>7, <1>8
  <2>5. \A i, j \in 1 .. Len(Started') : Started'[i] = Started'[j] => i = j
    BY <1>7, <1>8
  <2> HIDE DEF V
  <2> QED
    BY <1>14, <2>3, <2>4, <2>5 DEF Counters, V
<1>16. \A k \in Into(m, h) : \E j \in 1 .. n : scan.order[j] = def.edges[k].from
  <2>1. scan.remaining[h] = 0
    BY <1>6, <1>7, <1>8
  <2>2. Cardinality(Waiting(h, removed)) = 0
    BY <1>6, <1>11, <2>1
  <2>3. IsFiniteSet(Waiting(h, removed))
    <3>1. Waiting(h, removed) \in SUBSET (1 .. m)
      BY DEF Waiting, Into
    <3>2. IsFiniteSet(1 .. m)
      BY <1>1, Lists, FS_Interval
    <3> QED
      BY <3>1, <3>2, FS_Subset
  <2>4. Waiting(h, removed) = {}
    BY <2>2, <2>3, FS_EmptySet
  <2>5. \A k \in Into(m, h) : def.edges[k].from \in removed
    BY <2>4 DEF Waiting
  <2>6. DOMAIN scan.order = 1 .. n
    BY <1>5
  <2> HIDE DEF h, m, n
  <2> QED
    BY <2>5, <2>6 DEF Compiling!ToSet
<1>17. InOrder'
  <2>0. /\ Len(scan'.order) = n + 1 /\ scan'.order[n + 1] = h
        /\ \A j \in 1 .. n : scan'.order[j] = scan.order[j]
    BY <1>4, <1>5, <1>6
  <2>1. DOMAIN def.edges = 1 .. m
    BY <1>1, Lists
  <2>2. InOrder
    BY <1>1 DEF AcyclicInv
  <2> SUFFICES ASSUME NEW i \in 1 .. Len(scan'.order), NEW k \in DOMAIN def.edges, def.edges[k].to = scan'.order[i]
               PROVE  \E j \in 1 .. i - 1 : scan'.order[j] = def.edges[k].from
    BY <1>3 DEF InOrder
  <2>3. CASE i = n + 1
    <3>1. 1 .. i - 1 = 1 .. n
      BY <1>6, <2>3
    <3>2. k \in Into(m, h)
      BY <2>0, <2>1, <2>3 DEF Into
    <3> HIDE DEF h, m, n
    <3> QED
      BY <1>16, <2>0, <2>3, <3>1, <3>2
  <2>4. CASE i \in 1 .. n
    <3>1. \E j \in 1 .. i - 1 : scan.order[j] = def.edges[k].from
      BY <2>0, <2>2, <2>4 DEF InOrder
    <3>2. \A j \in 1 .. i - 1 : j \in 1 .. n
      BY <1>6, <2>4
    <3> HIDE DEF h, m, n
    <3> QED
      BY <2>0, <2>4, <3>1, <3>2
  <2> QED
    BY <1>6, <2>0, <2>3, <2>4
<1>18. /\ scan'.order \in Seq(V) /\ scan'.queue \in Seq(V) /\ scan'.targets \in Seq(V)
       /\ pos' \in 1 .. Len(scan'.targets) + 1
  <2>1. a.adjacency[h] \in Seq(V)
    BY <1>1, <1>6 DEF Analysed, EdgesIndexedTo, NeighboursKnown
  <2> QED
    BY <1>2, <1>4, <1>5, <1>6, <2>1
<1>20. AcyclicInv'
  <2> HIDE DEF V, h, n
  <2> QED
    BY <1>3, <1>4, <1>5, <1>14, <1>15, <1>17, <1>18 DEF AcyclicInv, V
<1>21. Compiling!VerdictIsRight' /\ Compiling!PlanIsExecutable'
  BY <1>0, <1>3, NoVerdictYet
<1> QED
  BY <1>0, <1>1, <1>3, <1>14, <1>20, <1>21 DEF CompilationInv

\* What is appended to the queue is started last.
LEMMA AppendedLater ==
  ASSUME NEW V, NEW order \in Seq(V), NEW queue \in Seq(V), NEW t \in V
  PROVE  /\ Len(order \o Append(queue, t)) = Len(order \o queue) + 1 /\ Len(order \o queue) \in Nat
         /\ (order \o Append(queue, t))[Len(order \o queue) + 1] = t
         /\ \A i \in 1 .. Len(order \o queue) : (order \o Append(queue, t))[i] = (order \o queue)[i]
<1> DEFINE longer == Append(queue, t)
<1>1. /\ longer \in Seq(V) /\ Len(longer) = Len(queue) + 1 /\ longer[Len(queue) + 1] = t
      /\ \A i \in 1 .. Len(queue) : longer[i] = queue[i]
      /\ Len(queue) \in Nat /\ Len(order) \in Nat
  OBVIOUS
<1> HIDE DEF longer
<1>2. /\ Len(order \o longer) = Len(order) + Len(longer)
      /\ \A i \in 1 .. Len(order) + Len(longer) :
           (order \o longer)[i] = IF i <= Len(order) THEN order[i] ELSE longer[i - Len(order)]
  BY <1>1, ConcatProperties
<1>3. /\ Len(order \o queue) = Len(order) + Len(queue)
      /\ \A i \in 1 .. Len(order) + Len(queue) :
           (order \o queue)[i] = IF i <= Len(order) THEN order[i] ELSE queue[i - Len(order)]
  BY ConcatProperties
<1>4. \A i \in 1 .. Len(order \o queue) : (order \o longer)[i] = (order \o queue)[i]
  <2> TAKE i \in 1 .. Len(order \o queue)
  <2>1. i \in 1 .. Len(order) + Len(queue) /\ i \in 1 .. Len(order) + Len(longer)
    BY <1>1, <1>3
  <2>2. CASE i <= Len(order)
    BY <1>2, <1>3, <2>1, <2>2
  <2>3. CASE ~(i <= Len(order))
    <3>1. i - Len(order) \in 1 .. Len(queue)
      BY <1>1, <2>1, <2>3
    <3> QED
      BY <1>1, <1>2, <1>3, <2>1, <2>3, <3>1
  <2> QED
    BY <2>2, <2>3
<1>5. (order \o longer)[Len(order \o queue) + 1] = t
  <2>1. Len(order) + Len(queue) + 1 \in 1 .. Len(order) + Len(longer) /\ ~(Len(order) + Len(queue) + 1 <= Len(order))
    BY <1>1
  <2>2. (Len(order) + Len(queue) + 1) - Len(order) = Len(queue) + 1
    BY <1>1
  <2> QED
    BY <1>1, <1>2, <1>3, <2>1, <2>2
<1> QED
  BY <1>1, <1>2, <1>3, <1>4, <1>5 DEF longer

\* One edge to a target is taken away; the target enters the queue with its last.
LEMMA ReleaseTargetStep ==
  ASSUME CompilationInv, Compiling!ReleaseTarget
  PROVE  CompilationInv'
<1> DEFINE V == Compiling!NodeIds
           m == Len(def.edges)
           t == scan.targets[pos]
           left == scan.remaining[t] - 1
           removed == Compiling!ToSet(scan.order)
<1>1. pc = "acyclic" /\ def \in Definitions /\ Analysed /\ AcyclicInv
  BY DEF Compiling!ReleaseTarget, CompilationInv
<1>0. verdict = ""
  BY <1>1 DEF CompilationInv
<1>2. ~(pos > Len(scan.targets)) /\ scan' = Compiling!Release(scan, t) /\ pos' = pos + 1
  BY DEF Compiling!ReleaseTarget, Compiling!NextTarget, Compiling!RangedOver
<1>3. def' = def /\ pc' = pc /\ a' = a /\ verdict' = verdict
  BY DEF Compiling!ReleaseTarget, Compiling!NextTarget
<1>4. /\ scan'.queue = (IF left = 0 THEN Append(scan.queue, t) ELSE scan.queue)
      /\ scan'.order = scan.order /\ scan'.targets = scan.targets
      /\ scan'.remaining = [scan.remaining EXCEPT ![t] = left] /\ IsScan(scan')
  <2>1. IsScan(scan)
    BY <1>1 DEF AcyclicInv
  <2>2. scan' = [queue |-> IF left = 0 THEN Append(scan.queue, t) ELSE scan.queue,
                 targets |-> scan.targets, visited |-> scan.visited, order |-> scan.order,
                 remaining |-> [scan.remaining EXCEPT ![t] = left]]
    BY <1>2, <2>1 DEF IsScan, Compiling!Release
  <2> QED
    BY <2>2 DEF IsScan
<1>5. /\ scan.order \in Seq(V) /\ scan.queue \in Seq(V) /\ scan.targets \in Seq(V)
      /\ pos \in 1 .. Len(scan.targets) + 1 /\ Counters
      /\ DOMAIN scan.remaining = V /\ \A id \in V : scan.remaining[id] \in Nat
  BY <1>1 DEF AcyclicInv
<1>6. pos \in 1 .. Len(scan.targets) /\ t \in V
  BY <1>2, <1>5
<1> HIDE DEF t
<1>7. /\ \A i, j \in 1 .. Len(Started) : Started[i] = Started[j] => i = j
      /\ \A id \in V : /\ scan.remaining[id] = Cardinality(Waiting(id, removed))
                                                + Cardinality(Occurrences(scan.targets, pos, id))
                       /\ scan.remaining[id] = 0 <=> \E i \in 1 .. Len(Started) : Started[i] = id
  BY <1>5 DEF Counters
<1>8. \A id \in V : /\ Cardinality(Waiting(id, removed)) \in Nat
                    /\ Cardinality(Occurrences(scan.targets, pos + 1, id)) \in Nat
                    /\ Cardinality(Occurrences(scan.targets, pos, id))
                         = Cardinality(Occurrences(scan.targets, pos + 1, id)) + (IF id = t THEN 1 ELSE 0)
  <2> TAKE id \in V
  <2> DEFINE O == Occurrences(scan.targets, pos + 1, id)
             n == Len(scan.targets)
  <2>1. Waiting(id, removed) \in SUBSET (1 .. m) /\ O \in SUBSET (1 .. n) /\ pos \notin O
    BY <1>5, <1>6 DEF Waiting, Into, Occurrences
  <2>2. IsFiniteSet(1 .. m) /\ IsFiniteSet(1 .. n)
    <3>1. m \in Nat /\ n \in Nat
      BY <1>1, <1>5, Lists
    <3> HIDE DEF m, n
    <3> QED
      BY <3>1, FS_Interval
  <2>3. IsFiniteSet(Waiting(id, removed)) /\ IsFiniteSet(O)
    <3> HIDE DEF O
    <3> QED
      BY <2>1, <2>2, FS_Subset
  <2>4. Occurrences(scan.targets, pos, id) = IF id = t THEN O \union {pos} ELSE O
    BY <1>5, <1>6 DEF Occurrences, t
  <2> HIDE DEF O
  <2>5. Cardinality(O \union {pos}) = Cardinality(O) + 1
    BY <2>1, <2>3, FS_AddElement
  <2>6. Cardinality(Waiting(id, removed)) \in Nat /\ Cardinality(O) \in Nat
    BY <2>3, FS_CardinalityType
  <2>7. Cardinality(Occurrences(scan.targets, pos, id)) = Cardinality(O) + (IF id = t THEN 1 ELSE 0)
    <3>1. CASE id = t
      BY <2>4, <2>5, <3>1
    <3>2. CASE id # t
      BY <2>4, <2>6, <3>2
    <3> QED
      BY <3>1, <3>2
  <2> QED
    BY <2>6, <2>7 DEF O
<1>9. /\ left \in Nat /\ scan.remaining[t] # 0
      /\ left = Cardinality(Waiting(t, removed)) + Cardinality(Occurrences(scan.targets, pos + 1, t))
  <2> HIDE DEF removed
  <2>1. scan.remaining[t] = Cardinality(Waiting(t, removed)) + Cardinality(Occurrences(scan.targets, pos + 1, t)) + 1
    BY <1>6, <1>7, <1>8
  <2> QED
    BY <1>6, <1>8, <2>1
<1>10. \A i \in 1 .. Len(Started) : Started[i] # t
  BY <1>6, <1>7, <1>9
<1> HIDE DEF left
<1>11. /\ scan'.remaining[t] = left /\ DOMAIN scan'.remaining = V
       /\ \A id \in V : id # t => scan'.remaining[id] = scan.remaining[id]
  BY <1>4, <1>5, <1>6
<1>12. V' = V /\ Analysed'
  BY <1>1, <1>3, SameAnalysis
<1>13. /\ \A i, j \in 1 .. Len(Started') : Started'[i] = Started'[j] => i = j
       /\ \A id \in V : (\E i \in 1 .. Len(Started') : Started'[i] = id)
                          <=> (\E i \in 1 .. Len(Started) : Started[i] = id) \/ (id = t /\ left = 0)
  <2>1. CASE left = 0
    <3> DEFINE n == Len(Started)
    <3>1. Started' = scan.order \o Append(scan.queue, t)
      BY <1>4, <2>1 DEF Started
    <3>2. /\ Len(Started') = n + 1 /\ n \in Nat /\ Started'[n + 1] = t
          /\ \A i \in 1 .. n : Started'[i] = Started[i]
      <4>1. /\ Len(scan.order \o Append(scan.queue, t)) = n + 1 /\ n \in Nat
            /\ (scan.order \o Append(scan.queue, t))[n + 1] = t
            /\ \A i \in 1 .. n : (scan.order \o Append(scan.queue, t))[i] = Started[i]
        <5>1. /\ Len(scan.order \o Append(scan.queue, t)) = Len(scan.order \o scan.queue) + 1
              /\ Len(scan.order \o scan.queue) \in Nat
              /\ (scan.order \o Append(scan.queue, t))[Len(scan.order \o scan.queue) + 1] = t
              /\ \A i \in 1 .. Len(scan.order \o scan.queue) :
                   (scan.order \o Append(scan.queue, t))[i] = (scan.order \o scan.queue)[i]
          <6> HIDE DEF V
          <6>1. PICK order \in Seq(V), queue \in Seq(V), x \in V :
                  order = scan.order /\ queue = scan.queue /\ x = t
            BY <1>5, <1>6
          <6>2. /\ Len(order \o Append(queue, x)) = Len(order \o queue) + 1 /\ Len(order \o queue) \in Nat
                /\ (order \o Append(queue, x))[Len(order \o queue) + 1] = x
                /\ \A i \in 1 .. Len(order \o queue) : (order \o Append(queue, x))[i] = (order \o queue)[i]
            BY AppendedLater
          <6> QED
            BY <6>1, <6>2
        <5> QED
          BY <5>1 DEF Started
      <4> HIDE DEF n
      <4> QED
        BY <3>1, <4>1
    <3> HIDE DEF n
    <3>3. 1 .. n + 1 = 1 .. n \union {n + 1}
      BY <3>2
    <3> QED
      BY <1>7, <1>10, <2>1, <3>2, <3>3 DEF n
  <2>2. CASE left # 0
    <3>1. Started' = Started
      BY <1>4, <2>2 DEF Started
    <3> QED
      BY <1>7, <2>2, <3>1
  <2> QED
    BY <2>1, <2>2
<1>14. Counters'
  <2>1. \A id : Waiting(id, Compiling!ToSet(scan.order))' = Waiting(id, removed)
    BY <1>3, <1>4 DEF Waiting, Into
  <2>2. \A id : Occurrences(scan.targets, pos, id)' = Occurrences(scan.targets, pos + 1, id)
    BY <1>2, <1>4 DEF Occurrences
  <2>3. \A id \in V : scan'.remaining[id] = Cardinality(Waiting(id, Compiling!ToSet(scan.order))')
                                             + Cardinality(Occurrences(scan.targets, pos, id)')
    <3> TAKE id \in V
    <3> HIDE DEF removed
    <3>1. CASE id = t
      BY <1>9, <1>11, <2>1, <2>2, <3>1
    <3>2. CASE id # t
      <4>1. scan.remaining[id] = Cardinality(Waiting(id, removed)) + Cardinality(Occurrences(scan.targets, pos + 1, id))
        BY <1>7, <1>8, <3>2
      <4> QED
        BY <1>11, <2>1, <2>2, <3>2, <4>1
    <3> QED
      BY <3>1, <3>2
  <2>4. \A id \in V : scan'.remaining[id] = 0 <=> \E i \in 1 .. Len(Started') : Started'[i] = id
    <3> TAKE id \in V
    <3>1. CASE id = t
      BY <1>9, <1>10, <1>11, <1>13, <3>1
    <3>2. CASE id # t
      BY <1>7, <1>11, <1>13, <3>2
    <3> QED
      BY <3>1, <3>2
  <2> HIDE DEF V
  <2> QED
    BY <1>12, <1>13, <2>3, <2>4 DEF Counters, V
<1>15. /\ scan'.order \in Seq(V) /\ scan'.queue \in Seq(V) /\ scan'.targets \in Seq(V)
       /\ pos' \in 1 .. Len(scan'.targets) + 1
  BY <1>2, <1>4, <1>5, <1>6
<1>16. \A id \in V : scan'.remaining[id] \in Nat
  BY <1>5, <1>9, <1>11
<1>21. InOrder'
  <2>1. InOrder
    BY <1>1 DEF AcyclicInv
  <2> QED
    BY <1>3, <1>4, <2>1 DEF InOrder
<1>19. AcyclicInv'
  <2> HIDE DEF V
  <2> QED
    BY <1>4, <1>11, <1>12, <1>14, <1>15, <1>16, <1>21 DEF AcyclicInv, V
<1>20. Compiling!VerdictIsRight' /\ Compiling!PlanIsExecutable'
  BY <1>0, <1>3, NoVerdictYet
<1> QED
  BY <1>0, <1>1, <1>3, <1>12, <1>19, <1>20 DEF CompilationInv

\* Where the scan of validateAcyclic ends, every node is removed or waits for one
\* that is not.
LEMMA AcyclicEnds ==
  ASSUME pc = "acyclic", def \in Definitions, Analysed, AcyclicInv, Compiling!ScanEnds
  PROVE  /\ scan.order \in Seq(Compiling!NodeIds)
         /\ \A i, j \in 1 .. Len(scan.order) : scan.order[i] = scan.order[j] => i = j
         /\ \A id \in Compiling!NodeIds \ Compiling!ToSet(scan.order) :
              \E x \in Compiling!NodeIds \ Compiling!ToSet(scan.order) : <<x, id>> \in Compiling!Arrows
         /\ \A i \in 1 .. Len(scan.order), x \in Compiling!NodeIds :
              <<x, scan.order[i]>> \in Compiling!Arrows => \E j \in 1 .. i - 1 : scan.order[j] = x
<1> DEFINE V == Compiling!NodeIds
           m == Len(def.edges)
           removed == Compiling!ToSet(scan.order)
<1>1. /\ scan.order \in Seq(V) /\ scan.targets \in Seq(V) /\ Counters /\ InOrder
      /\ pos > Len(scan.targets) /\ pos \in Nat /\ scan.queue = << >>
  BY DEF AcyclicInv, Compiling!ScanEnds, Compiling!RangedOver
<1>2. Started = scan.order
  BY <1>1 DEF Started
<1>3. /\ \A i, j \in 1 .. Len(scan.order) : scan.order[i] = scan.order[j] => i = j
      /\ \A id \in V : /\ scan.remaining[id] = Cardinality(Waiting(id, removed))
                                                + Cardinality(Occurrences(scan.targets, pos, id))
                       /\ scan.remaining[id] = 0 <=> \E i \in 1 .. Len(scan.order) : scan.order[i] = id
  BY <1>1, <1>2 DEF Counters
<1>4. DOMAIN def.edges = 1 .. m /\ m \in Nat
  BY Lists
<1>5. \A k \in 1 .. m : def.edges[k].from \in V
  BY DEF Analysed, EdgesIndexedTo, IsRouted
<1>6. \A id \in V \ removed : \E x \in V \ removed : <<x, id>> \in Compiling!Arrows
  <2> TAKE id \in V \ removed
  <2>1. scan.remaining[id] # 0
    <3>1. DOMAIN scan.order = 1 .. Len(scan.order)
      BY <1>1
    <3> QED
      BY <1>3, <3>1 DEF Compiling!ToSet
  <2>2. Occurrences(scan.targets, pos, id) = {}
    BY <1>1 DEF Occurrences
  <2>3. Waiting(id, removed) # {}
    <3> HIDE DEF removed
    <3> SUFFICES ASSUME Waiting(id, removed) = {} PROVE FALSE
      OBVIOUS
    <3>1. Cardinality(Waiting(id, removed)) = 0 /\ Cardinality(Occurrences(scan.targets, pos, id)) = 0
      BY <2>2, FS_EmptySet
    <3>2. scan.remaining[id] = Cardinality(Waiting(id, removed)) + Cardinality(Occurrences(scan.targets, pos, id))
      BY <1>3
    <3> QED
      BY <2>1, <3>1, <3>2
  <2>4. PICK k \in 1 .. m : def.edges[k].to = id /\ def.edges[k].from \notin removed
    BY <2>3 DEF Waiting, Into
  <2>5. <<def.edges[k].from, id>> \in Compiling!Arrows
    BY <1>4, <2>4 DEF Compiling!Arrows, Compiling!DefEdges, Compiling!ToSet
  <2> QED
    BY <1>5, <2>4, <2>5
<1>7. \A i \in 1 .. Len(scan.order), x \in V :
        <<x, scan.order[i]>> \in Compiling!Arrows => \E j \in 1 .. i - 1 : scan.order[j] = x
  <2> SUFFICES ASSUME NEW i \in 1 .. Len(scan.order), NEW x, <<x, scan.order[i]>> \in Compiling!Arrows
               PROVE  \E j \in 1 .. i - 1 : scan.order[j] = x
    OBVIOUS
  <2>1. PICK k \in DOMAIN def.edges : def.edges[k].from = x /\ def.edges[k].to = scan.order[i]
    BY DEF Compiling!Arrows, Compiling!DefEdges, Compiling!ToSet
  <2> QED
    BY <1>1, <2>1 DEF InOrder
<1> QED
  BY <1>1, <1>3, <1>6, <1>7

\* A list of all nodes in which no arrow leads backwards has no cycle among them.
LEMMA OrderHasNoCycle ==
  ASSUME NEW V, NEW A, NEW order \in Seq(V),
         \A i, j \in 1 .. Len(order) : order[i] = order[j] => i = j,
         \A id \in V : \E i \in 1 .. Len(order) : order[i] = id,
         \A i \in 1 .. Len(order), x \in V : <<x, order[i]>> \in A => \E j \in 1 .. i - 1 : order[j] = x
  PROVE  \A X \in (SUBSET V) \ {{}} : \E x \in X : \A y \in X : <<x, y>> \notin A
<1> TAKE X \in (SUBSET V) \ {{}}
<1> DEFINE n == Len(order)
           I == {i \in 1 .. n : order[i] \in X}
<1>1. n \in Nat /\ I \in SUBSET (1 .. n)
  OBVIOUS
<1>2. I # {}
  <2>1. PICK x \in X : TRUE
    OBVIOUS
  <2>2. PICK i \in 1 .. n : order[i] = x
    OBVIOUS
  <2>3. i \in I
    BY <2>2
  <2> HIDE DEF I
  <2> QED
    BY <2>3
<1>3. PICK last \in I : \A i \in I : i <= last
  <2> HIDE DEF I, n
  <2> QED
    BY <1>1, <1>2, Greatest
<1>4. \A y \in X : <<order[last], y>> \notin A
  <2> SUFFICES ASSUME NEW y \in X, <<order[last], y>> \in A PROVE FALSE
    OBVIOUS
  <2>1. PICK i \in 1 .. n : order[i] = y
    OBVIOUS
  <2>2. i \in I /\ i <= last /\ last \in 1 .. n
    BY <1>3, <2>1
  <2>3. PICK j \in 1 .. i - 1 : order[j] = order[last]
    BY <2>1, <2>2
  <2>4. j = last
    BY <2>2, <2>3
  <2> QED
    BY <2>2, <2>3, <2>4
<1> QED
  BY <1>3, <1>4

\* A scan begins with its roots visited and queued.
LEMMA VisitBegins ==
  ASSUME NEW V, NEW queue \in Seq(V), NEW neighbours
  PROVE  IsVisit(V, [queue |-> queue, targets |-> << >>, visited |-> Compiling!ToSet(queue),
                     order |-> << >>, remaining |-> << >>], 1, neighbours, Compiling!ToSet(queue))
<1> DEFINE roots == Compiling!ToSet(queue)
           s == [queue |-> queue, targets |-> << >>, visited |-> roots, order |-> << >>, remaining |-> << >>]
<1>1. /\ s.queue = queue /\ s.targets = << >> /\ s.visited = roots /\ IsScan(s)
  BY DEF IsScan
<1>2. Len(queue) \in Nat /\ DOMAIN queue = 1 .. Len(queue) /\ \A i \in 1 .. Len(queue) : queue[i] \in V
  OBVIOUS
<1>3. roots \subseteq V /\ \A i \in 1 .. Len(queue) : queue[i] \in roots
  BY <1>2 DEF Compiling!ToSet
<1> HIDE DEF roots, s
<1>4. queue \in Seq(roots)
  BY <1>2, <1>3
<1>5. Len(<< >>) = 0 /\ << >> \in Seq(V)
  OBVIOUS
<1>6. Coming(s, 1) = {}
  BY <1>1, <1>5 DEF Coming
<1>7. \A id \in s.visited \ Compiling!ToSet(s.queue) : FALSE
  BY <1>1 DEF roots
<1>8. s.visited \union Coming(s, 1) = roots /\ 1 \in 1 .. Len(s.targets) + 1
  BY <1>1, <1>5, <1>6
<1>9. IsVisit(V, s, 1, neighbours, roots)
  BY <1>1, <1>3, <1>4, <1>5, <1>7, <1>8 DEF IsVisit
<1> QED
  BY <1>9 DEF s, roots

\* The front of a queue, and the rest of it.
LEMMA Front ==
  ASSUME NEW S, NEW queue \in Seq(S), queue # << >>
  PROVE  /\ Len(queue) \in Nat \ {0} /\ Head(queue) = queue[1] /\ Head(queue) \in S
         /\ Tail(queue) \in Seq(S) /\ Len(Tail(queue)) = Len(queue) - 1
         /\ \A i \in 1 .. Len(queue) - 1 : Tail(queue)[i] = queue[i + 1]
         /\ DOMAIN queue = 1 .. Len(queue) /\ DOMAIN Tail(queue) = 1 .. Len(queue) - 1
OBVIOUS

\* Popping the front of the queue keeps what a scan knows.
LEMMA VisitPops ==
  ASSUME NEW V, NEW s, NEW p, NEW neighbours, NEW roots, NEW t,
         \A id \in V : neighbours[id] \in Seq(V),
         IsVisit(V, s, p, neighbours, roots), p > Len(s.targets), s.queue # << >>,
         t = [s EXCEPT !.queue = Tail(@), !.order = Append(@, Head(s.queue)),
                       !.targets = neighbours[Head(s.queue)]]
  PROVE  IsVisit(V, t, 1, neighbours, roots)
<1> DEFINE h == Head(s.queue)
<1>1. /\ IsScan(s) /\ s.visited \subseteq V /\ roots \subseteq s.visited
      /\ s.queue \in Seq(s.visited) /\ s.targets \in Seq(V) /\ p \in 1 .. Len(s.targets) + 1
      /\ \A id \in s.visited \ Compiling!ToSet(s.queue) :
           Compiling!ToSet(neighbours[id]) \subseteq s.visited \union Coming(s, p)
      /\ \A X \in SUBSET V :
           roots \subseteq X /\ Closed(X, neighbours) => s.visited \union Coming(s, p) \subseteq X
  BY DEF IsVisit
<1>2. t = [queue |-> Tail(s.queue), targets |-> neighbours[h], visited |-> s.visited,
           order |-> Append(s.order, h), remaining |-> s.remaining]
  BY <1>1 DEF IsScan
<1>3. t.queue = Tail(s.queue) /\ t.targets = neighbours[h] /\ t.visited = s.visited /\ IsScan(t)
  BY <1>2 DEF IsScan
<1>4. /\ h \in s.visited /\ Tail(s.queue) \in Seq(s.visited)
      /\ \A id \in Compiling!ToSet(s.queue) : id = h \/ id \in Compiling!ToSet(Tail(s.queue))
  <2>1. /\ Len(s.queue) \in Nat \ {0} /\ h = s.queue[1] /\ h \in s.visited
        /\ Tail(s.queue) \in Seq(s.visited) /\ Len(Tail(s.queue)) = Len(s.queue) - 1
        /\ \A i \in 1 .. Len(s.queue) - 1 : Tail(s.queue)[i] = s.queue[i + 1]
        /\ DOMAIN s.queue = 1 .. Len(s.queue) /\ DOMAIN Tail(s.queue) = 1 .. Len(s.queue) - 1
    BY <1>1, Front
  <2>2. \A i \in 2 .. Len(s.queue) : i - 1 \in 1 .. Len(s.queue) - 1 /\ s.queue[i] = Tail(s.queue)[i - 1]
    BY <2>1
  <2>3. \A i \in 1 .. Len(s.queue) : i = 1 \/ i \in 2 .. Len(s.queue)
    BY <2>1
  <2> HIDE DEF h
  <2> QED
    BY <2>1, <2>2, <2>3 DEF Compiling!ToSet
<1>5. neighbours[h] \in Seq(V) /\ 1 \in 1 .. Len(neighbours[h]) + 1
  BY <1>1, <1>4
<1>6. Coming(s, p) = {}
  BY <1>1 DEF Coming
<1>7. Coming(t, 1) = Compiling!ToSet(neighbours[h])
  <2>1. DOMAIN neighbours[h] = 1 .. Len(neighbours[h])
    BY <1>5
  <2> QED
    BY <1>3, <2>1 DEF Coming, Compiling!ToSet
<1> HIDE DEF h
<1>8. \A id \in t.visited \ Compiling!ToSet(t.queue) :
        Compiling!ToSet(neighbours[id]) \subseteq t.visited \union Coming(t, 1)
  <2> TAKE id \in t.visited \ Compiling!ToSet(t.queue)
  <2>1. CASE id = h
    BY <1>7, <2>1
  <2>2. CASE id # h
    <3>1. id \in s.visited \ Compiling!ToSet(s.queue)
      BY <1>3, <1>4, <2>2
    <3> QED
      BY <1>1, <1>3, <1>6, <3>1
  <2> QED
    BY <2>1, <2>2
<1>9. \A X \in SUBSET V :
        roots \subseteq X /\ Closed(X, neighbours) => t.visited \union Coming(t, 1) \subseteq X
  BY <1>1, <1>3, <1>4, <1>7 DEF Closed
<1> QED
  BY <1>1, <1>3, <1>4, <1>5, <1>8, <1>9 DEF IsVisit

\* Visiting a neighbour keeps what a scan knows.
LEMMA VisitGoesOn ==
  ASSUME NEW V, NEW s, NEW p, NEW neighbours, NEW roots, NEW t,
         IsVisit(V, s, p, neighbours, roots), ~(p > Len(s.targets)),
         t = Compiling!Visit(s, s.targets[p])
  PROVE  IsVisit(V, t, p + 1, neighbours, roots)
<1> DEFINE x == s.targets[p]
<1>1. /\ IsScan(s) /\ s.visited \subseteq V /\ roots \subseteq s.visited
      /\ s.queue \in Seq(s.visited) /\ s.targets \in Seq(V) /\ p \in 1 .. Len(s.targets) + 1
      /\ \A id \in s.visited \ Compiling!ToSet(s.queue) :
           Compiling!ToSet(neighbours[id]) \subseteq s.visited \union Coming(s, p)
      /\ \A X \in SUBSET V :
           roots \subseteq X /\ Closed(X, neighbours) => s.visited \union Coming(s, p) \subseteq X
  BY DEF IsVisit
<1>2. x \in V /\ p + 1 \in 1 .. Len(s.targets) + 1 /\ Coming(s, p) = Coming(s, p + 1) \union {x}
  BY <1>1 DEF Coming
<1> HIDE DEF x
<1>3. CASE x \in s.visited
  <2>1. t = s
    BY <1>3 DEF Compiling!Visit, x
  <2>2. s.visited \union Coming(s, p) = s.visited \union Coming(s, p + 1)
    BY <1>2, <1>3
  <2> QED
    BY <1>1, <1>2, <2>1, <2>2 DEF IsVisit
<1>4. CASE x \notin s.visited
  <2>1. t = [queue |-> Append(s.queue, x), targets |-> s.targets, visited |-> s.visited \union {x},
             order |-> s.order, remaining |-> s.remaining]
    BY <1>1, <1>4 DEF Compiling!Visit, IsScan, x
  <2>2. /\ t.queue = Append(s.queue, x) /\ t.targets = s.targets /\ t.visited = s.visited \union {x}
        /\ IsScan(t)
    BY <2>1 DEF IsScan
  <2>3. /\ Append(s.queue, x) \in Seq(s.visited \union {x})
        /\ Compiling!ToSet(Append(s.queue, x)) = Compiling!ToSet(s.queue) \union {x}
    BY <1>1, Appended
  <2>4. Coming(t, p + 1) = Coming(s, p + 1)
    BY <2>2 DEF Coming
  <2>5. t.visited \union Coming(t, p + 1) = s.visited \union Coming(s, p)
    BY <1>2, <2>2, <2>4
  <2>6. \A id \in t.visited \ Compiling!ToSet(t.queue) : id \in s.visited \ Compiling!ToSet(s.queue)
    BY <2>2, <2>3
  <2>7. /\ t.visited \subseteq V /\ roots \subseteq t.visited /\ t.queue \in Seq(t.visited)
        /\ t.targets \in Seq(V) /\ p + 1 \in 1 .. Len(t.targets) + 1
    BY <1>1, <1>2, <2>2, <2>3
  <2> QED
    BY <1>1, <2>2, <2>5, <2>6, <2>7 DEF IsVisit
<1> QED
  BY <1>3, <1>4

\* A scan that ends has visited exactly what its roots lead to.
LEMMA VisitEnds ==
  ASSUME NEW V, NEW s, NEW p, NEW neighbours, NEW roots,
         IsVisit(V, s, p, neighbours, roots), p > Len(s.targets), s.queue = << >>
  PROVE  /\ s.visited \subseteq V /\ roots \subseteq s.visited /\ Closed(s.visited, neighbours)
         /\ \A X \in SUBSET V : roots \subseteq X /\ Closed(X, neighbours) => s.visited \subseteq X
<1>1. Coming(s, p) = {}
  BY DEF IsVisit, Coming
<1>2. Compiling!ToSet(s.queue) = {}
  BY DEF Compiling!ToSet
<1> QED
  BY <1>1, <1>2 DEF IsVisit, Closed

\* validateAcyclic refuses exactly the definitions that have a cycle.
LEMMA AcyclicStep ==
  ASSUME CompilationInv, Compiling!Acyclic
  PROVE  CompilationInv'
<1> DEFINE V == Compiling!NodeIds
           order == scan.order
           n == Len(order)
           removed == Compiling!ToSet(order)
<1>1. pc = "acyclic" /\ def \in Definitions /\ Analysed /\ AcyclicInv /\ Compiling!ScanEnds
  BY DEF Compiling!Acyclic, CompilationInv
<1>0. verdict = ""
  BY <1>1 DEF CompilationInv
<1>2. /\ order \in Seq(V)
      /\ \A i, j \in 1 .. n : order[i] = order[j] => i = j
      /\ \A id \in V \ removed : \E x \in V \ removed : <<x, id>> \in Compiling!Arrows
      /\ \A i \in 1 .. n, x \in V : <<x, order[i]>> \in Compiling!Arrows => \E j \in 1 .. i - 1 : order[j] = x
  BY <1>1, AcyclicEnds
<1>3. n \in Nat /\ DOMAIN order = 1 .. n /\ order = [i \in 1 .. n |-> order[i]]
  BY <1>2
<1>4. removed = {order[i] : i \in 1 .. n} /\ removed \subseteq V
  BY <1>2, <1>3 DEF Compiling!ToSet
<1>5. Cardinality(removed) = n
  <2> HIDE DEF order, n, removed
  <2> QED
    BY <1>2, <1>3, <1>4, NoRepetition
<1>6. IsFiniteSet(V) /\ V = Compiling!DefNodes
  BY <1>1, KindIndexed DEF Analysed, NodesIndexedTo
<1>7. n = Cardinality(V) <=> removed = V
  <2> HIDE DEF removed, V, n
  <2> QED
    BY <1>4, <1>5, <1>6, FS_Subset
<1>8. CASE n # Compiling!Cardinality(V)
  <2>1. Compiling!Refuse("structure")
    BY <1>8 DEF Compiling!Acyclic
  <2>2. removed # V
    BY <1>7, <1>8, SameCardinality
  <2>3. ~Compiling!HasNoCycle
    <3> SUFFICES ASSUME Compiling!HasNoCycle PROVE FALSE
      OBVIOUS
    <3> DEFINE X == V \ removed
               A == Compiling!Arrows
    <3>1. X \in SUBSET V /\ X # {}
      BY <1>4, <2>2
    <3>2. \A Y \in (SUBSET V) \ {{}} : \E x \in Y : \A y \in Y : <<x, y>> \notin A
      BY <1>6 DEF Compiling!HasNoCycle
    <3>3. \A id \in X : \E x \in X : <<x, id>> \in A
      BY <1>2
    <3> HIDE DEF X, A, V
    <3>4. \E y \in X : \A x \in X : <<x, y>> \notin A
      BY <1>6, <3>1, <3>2, SinksGiveSources
    <3> QED
      BY <3>3, <3>4
  <2> QED
    BY <2>1, <2>3, Refused DEF Compiling!WellFormed
<1>9. CASE n = Compiling!Cardinality(V)
  <2>1. /\ def' = def /\ a' = a /\ pc' = "reachable" /\ verdict' = ""
        /\ scan' = [Compiling!NoScan EXCEPT !.queue = <<Compiling!StartID>>, !.visited = {Compiling!StartID}]
    BY <1>0, <1>9 DEF Compiling!Acyclic, Compiling!Enter
  <2>2. pos' = 1
    BY <1>9 DEF Compiling!Acyclic, Compiling!Enter
  <2>3. removed = V
    BY <1>7, <1>9, SameCardinality
  <2>4. Compiling!HasNoCycle
    <3>1. \A id \in V : \E i \in 1 .. n : order[i] = id
      BY <1>4, <2>3
    <3> DEFINE A == Compiling!Arrows
    <3>2. \A X \in (SUBSET V) \ {{}} : \E x \in X : \A y \in X : <<x, y>> \notin A
      <4> HIDE DEF V, A, order
      <4> QED
        BY <1>2, <3>1, OrderHasNoCycle DEF A
    <3> QED
      BY <1>6, <3>2 DEF Compiling!HasNoCycle
  <2>5. Compiling!HasNoCycle' /\ Analysed' /\ V' = V /\ Compiling!StartID' = Compiling!StartID
    BY <1>1, <2>1, <2>4, SameDefinition, SameAnalysis
  <2>6. Compiling!StartID \in V
    BY <1>1, TheStartAndTheEnds
  <2>7. Compiling!ToSet(<<Compiling!StartID>>) = {Compiling!StartID}
    BY DEF Compiling!ToSet
  <2>8. scan' = [queue |-> <<Compiling!StartID>>, targets |-> << >>,
                 visited |-> Compiling!ToSet(<<Compiling!StartID>>), order |-> << >>, remaining |-> << >>]
    BY <2>1, <2>7 DEF Compiling!NoScan
  <2>9. IsVisit(V, scan', 1, a.adjacency, {Compiling!StartID})
    <3>1. <<Compiling!StartID>> \in Seq(V)
      BY <2>6
    <3> HIDE DEF V
    <3> QED
      BY <3>1, <2>7, <2>8, VisitBegins
  <2>10. IsVisit(Compiling!NodeIds, scan, pos, a.adjacency, {Compiling!StartID})'
    BY <2>1, <2>2, <2>5, <2>9
  <2>11. Compiling!VerdictIsRight' /\ Compiling!PlanIsExecutable'
    BY <2>1, NoVerdictYet
  <2> QED
    BY <1>1, <2>1, <2>5, <2>10, <2>11 DEF CompilationInv
<1> QED
  BY <1>8, <1>9

\* What a scan of the compiler needs of the lists that it follows.
LEMMA ListsOfNodes ==
  ASSUME Analysed
  PROVE  \A id \in Compiling!NodeIds :
           a.adjacency[id] \in Seq(Compiling!NodeIds) /\ a.predecessors[id] \in Seq(Compiling!NodeIds)
BY DEF Analysed, EdgesIndexedTo, NeighboursKnown

\* A neighbour is visited in the scan from the start or from the ends.
LEMMA VisitTargetStep ==
  ASSUME CompilationInv, Compiling!VisitTarget
  PROVE  CompilationInv'
<1>1. pc \in {"reachable", "ends"} /\ def \in Definitions /\ Analysed
  BY DEF Compiling!VisitTarget, CompilationInv
<1>0. verdict = ""
  BY <1>1 DEF CompilationInv
<1>2. ~(pos > Len(scan.targets)) /\ scan' = Compiling!Visit(scan, scan.targets[pos]) /\ pos' = pos + 1
  BY DEF Compiling!VisitTarget, Compiling!NextTarget, Compiling!RangedOver
<1>3. def' = def /\ pc' = pc /\ a' = a /\ verdict' = verdict
  BY DEF Compiling!VisitTarget, Compiling!NextTarget
<1>4. Analysed' /\ Compiling!NodeIds' = Compiling!NodeIds /\ Compiling!StartID' = Compiling!StartID
  BY <1>1, <1>3, SameAnalysis
<1>5. /\ Compiling!HasNoCycle' <=> Compiling!HasNoCycle
      /\ Compiling!AllFromStart' <=> Compiling!AllFromStart
  BY <1>3, SameDefinition
<1>6. Compiling!VerdictIsRight' /\ Compiling!PlanIsExecutable'
  BY <1>0, <1>3, NoVerdictYet
<1>7. CASE pc = "reachable"
  <2>1. IsVisit(Compiling!NodeIds, scan, pos, a.adjacency, {Compiling!StartID})
    BY <1>7 DEF CompilationInv
  <2>2. IsVisit(Compiling!NodeIds, scan', pos + 1, a.adjacency, {Compiling!StartID})
    BY <1>2, <2>1, VisitGoesOn
  <2>3. IsVisit(Compiling!NodeIds, scan, pos, a.adjacency, {Compiling!StartID})'
    BY <1>2, <1>3, <1>4, <2>2
  <2> QED
    BY <1>0, <1>1, <1>3, <1>4, <1>5, <1>6, <1>7, <2>3 DEF CompilationInv
<1>8. CASE pc = "ends"
  <2>1. IsVisit(Compiling!NodeIds, scan, pos, a.predecessors, Compiling!ToSet(a.ends))
    BY <1>8 DEF CompilationInv
  <2>2. IsVisit(Compiling!NodeIds, scan', pos + 1, a.predecessors, Compiling!ToSet(a.ends))
    BY <1>2, <2>1, VisitGoesOn
  <2>3. IsVisit(Compiling!NodeIds, scan, pos, a.predecessors, Compiling!ToSet(a.ends))'
    BY <1>2, <1>3, <1>4, <2>2
  <2> QED
    BY <1>0, <1>1, <1>3, <1>4, <1>5, <1>6, <1>8, <2>3 DEF CompilationInv
<1> QED
  BY <1>1, <1>7, <1>8

\* The scan from the start goes on with the next node of its queue.
LEMMA PopReachableStep ==
  ASSUME CompilationInv, Compiling!PopReachable
  PROVE  CompilationInv'
<1>1. pc = "reachable" /\ def \in Definitions /\ Analysed
      /\ IsVisit(Compiling!NodeIds, scan, pos, a.adjacency, {Compiling!StartID})
  BY DEF Compiling!PopReachable, CompilationInv
<1>0. verdict = ""
  BY <1>1 DEF CompilationInv
<1>2. /\ pos > Len(scan.targets) /\ scan.queue # << >> /\ pos' = 1
      /\ scan' = [scan EXCEPT !.queue = Tail(@), !.order = Append(@, Head(scan.queue)),
                              !.targets = a.adjacency[Head(scan.queue)]]
  BY DEF Compiling!PopReachable, Compiling!Pop, Compiling!RangedOver
<1>3. def' = def /\ pc' = pc /\ a' = a /\ verdict' = verdict
  BY DEF Compiling!PopReachable, Compiling!Pop
<1>4. Analysed' /\ Compiling!NodeIds' = Compiling!NodeIds /\ Compiling!StartID' = Compiling!StartID
  BY <1>1, <1>3, SameAnalysis
<1>5. Compiling!HasNoCycle' <=> Compiling!HasNoCycle
  BY <1>3, SameDefinition
<1>6. Compiling!VerdictIsRight' /\ Compiling!PlanIsExecutable'
  BY <1>0, <1>3, NoVerdictYet
<1>7. IsVisit(Compiling!NodeIds, scan', 1, a.adjacency, {Compiling!StartID})
  BY <1>1, <1>2, ListsOfNodes, VisitPops
<1>8. IsVisit(Compiling!NodeIds, scan, pos, a.adjacency, {Compiling!StartID})'
  BY <1>2, <1>3, <1>4, <1>7
<1> QED
  BY <1>0, <1>1, <1>3, <1>4, <1>5, <1>6, <1>8 DEF CompilationInv

\* The scan from the ends goes on with the next node of its queue.
LEMMA PopCoreachableStep ==
  ASSUME CompilationInv, Compiling!PopCoreachable
  PROVE  CompilationInv'
<1>1. pc = "ends" /\ def \in Definitions /\ Analysed
      /\ IsVisit(Compiling!NodeIds, scan, pos, a.predecessors, Compiling!ToSet(a.ends))
  BY DEF Compiling!PopCoreachable, CompilationInv
<1>0. verdict = ""
  BY <1>1 DEF CompilationInv
<1>2. /\ pos > Len(scan.targets) /\ scan.queue # << >> /\ pos' = 1
      /\ scan' = [scan EXCEPT !.queue = Tail(@), !.order = Append(@, Head(scan.queue)),
                              !.targets = a.predecessors[Head(scan.queue)]]
  BY DEF Compiling!PopCoreachable, Compiling!Pop, Compiling!RangedOver
<1>3. def' = def /\ pc' = pc /\ a' = a /\ verdict' = verdict
  BY DEF Compiling!PopCoreachable, Compiling!Pop
<1>4. Analysed' /\ Compiling!NodeIds' = Compiling!NodeIds
  BY <1>1, <1>3, SameAnalysis
<1>5. /\ Compiling!HasNoCycle' <=> Compiling!HasNoCycle
      /\ Compiling!AllFromStart' <=> Compiling!AllFromStart
  BY <1>3, SameDefinition
<1>6. Compiling!VerdictIsRight' /\ Compiling!PlanIsExecutable'
  BY <1>0, <1>3, NoVerdictYet
<1>7. IsVisit(Compiling!NodeIds, scan', 1, a.predecessors, Compiling!ToSet(a.ends))
  BY <1>1, <1>2, ListsOfNodes, VisitPops
<1>8. IsVisit(Compiling!NodeIds, scan, pos, a.predecessors, Compiling!ToSet(a.ends))'
  BY <1>2, <1>3, <1>4, <1>7
<1> QED
  BY <1>0, <1>1, <1>3, <1>4, <1>5, <1>6, <1>8 DEF CompilationInv

\* The ends of the arrows are nodes, so a set is closed under the adjacency lists
\* when it is closed under the arrows.
LEMMA ClosedUnderArrows ==
  ASSUME def \in Definitions, Analysed, NEW X \in SUBSET Compiling!NodeIds
  PROVE  /\ Closed(X, a.adjacency) <=> \A e \in Compiling!Arrows : e[1] \in X => e[2] \in X
         /\ Closed(X, a.predecessors) <=> \A e \in Compiling!Arrows : e[2] \in X => e[1] \in X
<1> DEFINE V == Compiling!NodeIds
<1>1. \A e \in Compiling!Arrows : e = <<e[1], e[2]>> /\ e[1] \in V /\ e[2] \in V
  <2>1. DOMAIN def.edges = 1 .. Len(def.edges)
    BY Lists
  <2>2. \A k \in 1 .. Len(def.edges) : def.edges[k].from \in V /\ def.edges[k].to \in V
    BY DEF Analysed, EdgesIndexedTo, IsRouted
  <2> QED
    BY <2>1, <2>2 DEF Compiling!Arrows, Compiling!DefEdges, Compiling!ToSet
<1>2. \A x, y \in V : /\ y \in Compiling!ToSet(a.adjacency[x]) <=> <<x, y>> \in Compiling!Arrows
                      /\ x \in Compiling!ToSet(a.predecessors[y]) <=> <<x, y>> \in Compiling!Arrows
  BY NeighboursAreArrows
<1>3. \A x \in V : Compiling!ToSet(a.adjacency[x]) \subseteq V /\ Compiling!ToSet(a.predecessors[x]) \subseteq V
  BY ListsOfNodes DEF Compiling!ToSet
<1> HIDE DEF V
<1>4. X \subseteq V
  BY DEF V
<1>5. Closed(X, a.adjacency) <=> \A x \in X, y \in V : <<x, y>> \in Compiling!Arrows => y \in X
  BY <1>2, <1>3, <1>4 DEF Closed
<1>6. Closed(X, a.predecessors) <=> \A y \in X, x \in V : <<x, y>> \in Compiling!Arrows => x \in X
  BY <1>2, <1>3, <1>4 DEF Closed
<1>7. (\A x \in X, y \in V : <<x, y>> \in Compiling!Arrows => y \in X)
        <=> \A e \in Compiling!Arrows : e[1] \in X => e[2] \in X
  BY <1>1, <1>4
<1>8. (\A y \in X, x \in V : <<x, y>> \in Compiling!Arrows => x \in X)
        <=> \A e \in Compiling!Arrows : e[2] \in X => e[1] \in X
  BY <1>1, <1>4
<1> QED
  BY <1>5, <1>6, <1>7, <1>8

\* validateReachable refuses exactly what the start does not reach.
LEMMA ReachableStep ==
  ASSUME CompilationInv, Compiling!Reachable
  PROVE  CompilationInv'
<1> DEFINE V == Compiling!NodeIds
           roots == {Compiling!StartID}
<1>1. /\ pc = "reachable" /\ def \in Definitions /\ Analysed /\ Compiling!HasNoCycle
      /\ IsVisit(V, scan, pos, a.adjacency, roots)
  BY DEF Compiling!Reachable, CompilationInv
<1>0. verdict = ""
  BY <1>1 DEF CompilationInv
<1>2. pos > Len(scan.targets) /\ scan.queue = << >>
  BY DEF Compiling!Reachable, Compiling!ScanEnds, Compiling!RangedOver
<1>3. V = Compiling!DefNodes /\ Compiling!OfKind("start") = roots
  BY <1>1, KindIndexed, TheStartAndTheEnds DEF Analysed
<1>9. a.ends \in Seq(V)
  BY <1>1, KindIndexed, TheStartAndTheEnds DEF Analysed
<1>4. /\ scan.visited \subseteq V /\ roots \subseteq scan.visited
      /\ Closed(scan.visited, a.adjacency)
      /\ \A X \in SUBSET V : roots \subseteq X /\ Closed(X, a.adjacency) => scan.visited \subseteq X
  <2> HIDE DEF V, roots
  <2> QED
    BY <1>1, <1>2, VisitEnds
<1>5. \A X \in SUBSET V : Closed(X, a.adjacency) <=> \A e \in Compiling!Arrows : e[1] \in X => e[2] \in X
  BY <1>1, ClosedUnderArrows
<1>6. Compiling!AllFromStart <=> scan.visited = V
  <2> HIDE DEF V, roots
  <2> QED
    BY <1>3, <1>4, <1>5 DEF Compiling!AllFromStart
<1>7. CASE scan.visited # V
  <2>1. Compiling!Refuse("structure")
    BY <1>7 DEF Compiling!Reachable
  <2> QED
    BY <1>6, <1>7, <2>1, Refused DEF Compiling!WellFormed
<1>8. CASE scan.visited = V
  <2>1. /\ def' = def /\ a' = a /\ pc' = "ends" /\ verdict' = ""
        /\ scan' = [Compiling!NoScan EXCEPT !.queue = a.ends, !.visited = Compiling!ToSet(a.ends)]
    BY <1>0, <1>8 DEF Compiling!Reachable, Compiling!Enter
  <2>2. pos' = 1
    BY <1>8 DEF Compiling!Reachable, Compiling!Enter
  <2>3. Compiling!HasNoCycle' /\ Compiling!AllFromStart' /\ Analysed' /\ V' = V
    BY <1>1, <1>6, <1>8, <2>1, SameDefinition, SameAnalysis
  <2>4. scan' = [queue |-> a.ends, targets |-> << >>, visited |-> Compiling!ToSet(a.ends),
                 order |-> << >>, remaining |-> << >>]
    BY <2>1 DEF Compiling!NoScan
  <2>5. IsVisit(V, scan', 1, a.predecessors, Compiling!ToSet(a.ends))
    <3> HIDE DEF V
    <3> QED
      BY <1>9, <2>4, VisitBegins
  <2>6. IsVisit(Compiling!NodeIds, scan, pos, a.predecessors, Compiling!ToSet(a.ends))'
    BY <2>1, <2>2, <2>3, <2>5
  <2>7. Compiling!VerdictIsRight' /\ Compiling!PlanIsExecutable'
    BY <2>1, NoVerdictYet
  <2> QED
    BY <1>1, <2>1, <2>3, <2>6, <2>7 DEF CompilationInv
<1> QED
  BY <1>7, <1>8

\* validateCanReachEnd refuses exactly what reaches no end.
LEMMA CanReachEndStep ==
  ASSUME CompilationInv, Compiling!CanReachEnd
  PROVE  CompilationInv'
<1> DEFINE V == Compiling!NodeIds
           roots == Compiling!ToSet(a.ends)
<1>1. /\ pc = "ends" /\ def \in Definitions /\ Analysed
      /\ Compiling!HasNoCycle /\ Compiling!AllFromStart
      /\ IsVisit(V, scan, pos, a.predecessors, roots)
  BY DEF Compiling!CanReachEnd, CompilationInv
<1>0. verdict = ""
  BY <1>1 DEF CompilationInv
<1>2. pos > Len(scan.targets) /\ scan.queue = << >>
  BY DEF Compiling!CanReachEnd, Compiling!ScanEnds, Compiling!RangedOver
<1>3. V = Compiling!DefNodes /\ Compiling!OfKind("end") = roots
  BY <1>1, KindIndexed, TheStartAndTheEnds DEF Analysed
<1>4. /\ scan.visited \subseteq V /\ roots \subseteq scan.visited
      /\ Closed(scan.visited, a.predecessors)
      /\ \A X \in SUBSET V : roots \subseteq X /\ Closed(X, a.predecessors) => scan.visited \subseteq X
  <2> HIDE DEF V, roots
  <2> QED
    BY <1>1, <1>2, VisitEnds
<1>5. \A X \in SUBSET V : Closed(X, a.predecessors) <=> \A e \in Compiling!Arrows : e[2] \in X => e[1] \in X
  BY <1>1, ClosedUnderArrows
<1>6. Compiling!AllToAnEnd <=> scan.visited = V
  <2> HIDE DEF V, roots
  <2> QED
    BY <1>3, <1>4, <1>5 DEF Compiling!AllToAnEnd
<1>7. CASE scan.visited # V
  <2>1. Compiling!Refuse("structure")
    BY <1>7 DEF Compiling!CanReachEnd
  <2> QED
    BY <1>6, <1>7, <2>1, Refused DEF Compiling!WellFormed
<1>8. CASE scan.visited = V
  <2>1. def' = def /\ a' = a /\ pc' = "config" /\ verdict' = ""
    BY <1>0, <1>8 DEF Compiling!CanReachEnd, Compiling!Enter
  <2>2. Compiling!HasNoCycle' /\ Compiling!AllFromStart' /\ Compiling!AllToAnEnd' /\ Analysed'
    BY <1>1, <1>6, <1>8, <2>1, SameDefinition, SameAnalysis
  <2>3. Compiling!VerdictIsRight' /\ Compiling!PlanIsExecutable'
    BY <2>1, NoVerdictYet
  <2> QED
    BY <1>1, <2>1, <2>2, <2>3 DEF CompilationInv
<1> QED
  BY <1>7, <1>8

\* What leaves the start is what compileDefinition asks of it.
LEMMA StartRoute ==
  ASSUME def \in Definitions, Analysed
  PROVE  Compiling!StartsUnconditionally <=>
           <<Compiling!StartID, "">> \in DOMAIN a.routes /\ Len(a.adjacency[Compiling!StartID]) = 1
<1> DEFINE m == Len(def.edges)
           s == Compiling!StartID
           I == OutOf(m, s)
           E == {d \in Compiling!DefEdges : d.from \in Compiling!OfKind("start")}
<1>1. DOMAIN def.edges = 1 .. m /\ m \in Nat
  BY Lists
<1>2. EdgesIndexedTo(m) /\ s \in Compiling!NodeIds /\ Compiling!OfKind("start") = {s}
  BY TheStartAndTheEnds DEF Analysed
<1>3. Len(a.adjacency[s]) = Cardinality(I)
  BY <1>2 DEF EdgesIndexedTo, NeighboursKnown
<1>4. \A j, k \in 1 .. m : /\ def.edges[j].from = def.edges[k].from
                          /\ def.edges[j].outcome = def.edges[k].outcome => j = k
  BY <1>2 DEF EdgesIndexedTo, Compiling!Selector
<1>5. E = {def.edges[k] : k \in I}
  BY <1>1, <1>2 DEF OutOf, Compiling!DefEdges, Compiling!ToSet
<1>6. \A j, k \in I : def.edges[j] = def.edges[k] => j = k
  BY <1>4 DEF OutOf
<1>7. IsFiniteSet(I) /\ Cardinality(I) \in Nat
  <2>1. I \in SUBSET (1 .. m) /\ IsFiniteSet(1 .. m)
    BY <1>1, FS_Interval DEF OutOf
  <2> HIDE DEF I
  <2> QED
    BY <2>1, FS_Subset, FS_CardinalityType
<1>8. Cardinality(I) = 1 <=> \E k : I = {k}
  <2> HIDE DEF I
  <2>1. ASSUME Cardinality(I) = 1 PROVE \E k : I = {k}
    BY <2>1, <1>7, FS_Singleton
  <2>2. ASSUME NEW k, I = {k} PROVE Cardinality(I) = 1
    BY <2>2, FS_Singleton
  <2> QED
    BY <2>1, <2>2
<1>9. (\E k : I = {k}) <=> \E e : E = {e}
  <2> HIDE DEF I, E
  <2>1. ASSUME NEW k, I = {k} PROVE E = {def.edges[k]}
    BY <2>1, <1>5
  <2>2. ASSUME NEW e, E = {e} PROVE \E k : I = {k}
    <3>1. PICK k \in I : def.edges[k] = e
      BY <2>2, <1>5
    <3>2. \A j \in I : def.edges[j] = e
      BY <2>2, <1>5
    <3> QED
      BY <3>1, <3>2, <1>6
  <2> QED
    BY <2>1, <2>2
<1> DEFINE plain(e) == e.outcome = ""
<1>10. <<s, "">> \in DOMAIN a.routes <=> \E k \in I : plain(def.edges[k])
  <2>1. \A k \in 1 .. m : Compiling!Selector(def.edges[k]) \in DOMAIN a.routes
    BY <1>2 DEF EdgesIndexedTo, IsRouted
  <2>2. \A r \in DOMAIN a.routes : \E k \in 1 .. m : r = Compiling!Selector(def.edges[k])
    BY <1>2 DEF EdgesIndexedTo
  <2>3. \A k : Compiling!Selector(def.edges[k]) = <<s, "">> <=> def.edges[k].from = s /\ plain(def.edges[k])
    BY DEF Compiling!Selector
  <2> QED
    BY <2>1, <2>2, <2>3 DEF OutOf
<1>11. (\E k \in I : plain(def.edges[k])) <=> \E e \in E : plain(e)
  <2> HIDE DEF I, E, plain
  <2> QED
    BY <1>5
<1>12. Compiling!StartsUnconditionally <=> \E e \in Compiling!DefEdges : plain(e) /\ E = {e}
  BY DEF Compiling!StartsUnconditionally
<1>13. E \subseteq Compiling!DefEdges
  OBVIOUS
<1> HIDE DEF E, I, plain, m, s
<1>14. (\E e \in Compiling!DefEdges : plain(e) /\ E = {e}) <=> (\E e \in E : plain(e)) /\ \E e : E = {e}
  BY <1>13
<1> QED
  BY <1>3, <1>8, <1>9, <1>10, <1>11, <1>12, <1>14 DEF s

\* What compileDefinition asks after the analysis is asked for a reason.
LEMMA CheckConfigStep ==
  ASSUME CompilationInv, Compiling!CheckConfig
  PROVE  CompilationInv'
<1>1. /\ pc = "config" /\ def \in Definitions /\ Analysed
      /\ Compiling!HasNoCycle /\ Compiling!AllFromStart /\ Compiling!AllToAnEnd
  BY DEF Compiling!CheckConfig, CompilationInv
<1>0. verdict = ""
  BY <1>1 DEF CompilationInv
<1> DEFINE parses == \A k \in DOMAIN def.nodes : def.nodes[k].config # NotJSON
           begins == <<Compiling!StartID, "">> \in DOMAIN a.routes
           single == Len(a.adjacency[Compiling!StartID]) = 1
<1>2. Compiling!StartsUnconditionally <=> begins /\ single
  BY <1>1, StartRoute
<1>3. CASE ~parses
  <2>1. Compiling!Refuse("config")
    BY <1>3 DEF Compiling!CheckConfig
  <2>2. ~Compiling!HandlersAccept
    BY <1>3 DEF Compiling!HandlersAccept
  <2> QED
    BY <2>1, <2>2, Refused DEF Compiling!WellFormed
<1>4. CASE parses /\ ~begins
  <2>1. Compiling!Refuse("no route")
    BY <1>4 DEF Compiling!CheckConfig
  <2>2. ~Compiling!StartsUnconditionally
    BY <1>2, <1>4
  <2> QED
    BY <2>1, <2>2, Refused DEF Compiling!WellFormed
<1>5. CASE parses /\ begins /\ ~single
  <2>1. Compiling!Refuse("structure")
    BY <1>5 DEF Compiling!CheckConfig
  <2>2. ~Compiling!StartsUnconditionally
    BY <1>2, <1>5
  <2> QED
    BY <2>1, <2>2, Refused DEF Compiling!WellFormed
<1>6. CASE parses /\ begins /\ single
  <2>1. def' = def /\ a' = a /\ pc' = "prepare" /\ verdict' = ""
    BY <1>0, <1>6 DEF Compiling!CheckConfig, Compiling!Enter
  <2>2. pos' = 1
    BY <1>6 DEF Compiling!CheckConfig, Compiling!Enter
  <2>3. /\ Compiling!HasNoCycle' /\ Compiling!AllFromStart' /\ Compiling!AllToAnEnd'
        /\ Compiling!StartsUnconditionally' /\ Analysed'
    BY <1>1, <1>2, <1>6, <2>1, SameDefinition, SameAnalysis
  <2>4. parses'
    BY <1>6, <2>1
  <2>5. pos' \in 1 .. Len(def'.nodes) + 1 /\ \A k \in 1 .. pos' - 1 : FALSE
    <3>1. def' = def
      BY <2>1
    <3> HIDE DEF begins
    <3> QED
      BY <1>1, <2>2, <3>1, Lists
  <2>6. Compiling!VerdictIsRight' /\ Compiling!PlanIsExecutable'
    BY <2>1, NoVerdictYet
  <2> QED
    BY <1>1, <2>1, <2>3, <2>4, <2>5, <2>6 DEF CompilationInv
<1> HIDE DEF parses, begins, single
<1> QED
  BY <1>3, <1>4, <1>5, <1>6

\* A node without a handler that accepts it is a defect.
LEMMA PrepareNodeStep ==
  ASSUME CompilationInv, Compiling!PrepareNode
  PROVE  CompilationInv'
<1> DEFINE node == def.nodes[pos]
           Accepted(n) == n.kind \in {"start", "end"} \/ (n.kind \in Registered /\ Prepares(n.kind, n.config))
<1>1. /\ pc = "prepare" /\ pos <= Len(def.nodes) /\ def \in Definitions /\ Analysed
      /\ Compiling!HasNoCycle /\ Compiling!AllFromStart /\ Compiling!AllToAnEnd
      /\ Compiling!StartsUnconditionally
      /\ \A k \in DOMAIN def.nodes : def.nodes[k].config # NotJSON
      /\ pos \in 1 .. Len(def.nodes) + 1
      /\ \A k \in 1 .. pos - 1 : Accepted(def.nodes[k])
  BY DEF Compiling!PrepareNode, CompilationInv
<1>0. verdict = ""
  BY <1>1 DEF CompilationInv
<1>2. pos \in DOMAIN def.nodes /\ pos + 1 \in 1 .. Len(def.nodes) + 1
  BY <1>1, Lists
<1>3. CASE ~Accepted(node)
  <2>1. Compiling!Refuse(IF node.kind \in Registered THEN "config" ELSE "no handler")
    BY <1>3 DEF Compiling!PrepareNode
  <2>2. ~Compiling!HandlersAccept
    BY <1>2, <1>3 DEF Compiling!HandlersAccept
  <2>3. \E class \in {"config", "no handler"} : Compiling!Refuse(class)
    BY <2>1
  <2> QED
    BY <2>2, <2>3, Refused DEF Compiling!WellFormed
<1>4. CASE Accepted(node)
  <2>1. def' = def /\ a' = a /\ pc' = "prepare" /\ verdict' = ""
    BY <1>0, <1>1, <1>4 DEF Compiling!PrepareNode
  <2>2. pos' = pos + 1
    BY <1>4 DEF Compiling!PrepareNode
  <2>3. /\ Compiling!HasNoCycle' /\ Compiling!AllFromStart' /\ Compiling!AllToAnEnd'
        /\ Compiling!StartsUnconditionally' /\ Analysed'
    BY <1>1, <2>1, SameDefinition, SameAnalysis
  <2>4. \A k \in 1 .. pos' - 1 : Accepted(def'.nodes[k])
    <3>1. \A k \in 1 .. pos' - 1 : k = pos \/ k \in 1 .. pos - 1
      BY <1>1, <2>2
    <3> HIDE DEF Accepted
    <3> QED
      BY <1>1, <1>4, <2>1, <3>1
  <2>5. pos' \in 1 .. Len(def'.nodes) + 1
    BY <1>2, <2>1, <2>2
  <2>6. Compiling!VerdictIsRight' /\ Compiling!PlanIsExecutable'
    BY <2>1, NoVerdictYet
  <2> QED
    BY <1>1, <2>1, <2>3, <2>4, <2>5, <2>6 DEF CompilationInv
<1> HIDE DEF Accepted
<1> QED
  BY <1>3, <1>4

\* Of what is fully analysed the names are right and every choice is determined.
LEMMA AnalysedIsNamed ==
  ASSUME def \in Definitions, Analysed
  PROVE  Compiling!WellNamed /\ Compiling!Deterministic
<1> DEFINE nameless == def.id = ""
<1>1. /\ NodesIndexedTo(Len(def.nodes)) /\ EdgesIndexedTo(Len(def.edges))
      /\ Len(a.starts) = 1 /\ ~nameless
  BY DEF Analysed
<1> HIDE DEF nameless
<1>2. /\ DOMAIN def.nodes = 1 .. Len(def.nodes) /\ DOMAIN def.edges = 1 .. Len(def.edges)
  BY Lists
<1>3. \A k \in DOMAIN def.nodes : Named(def.nodes[k])
  BY <1>1, <1>2 DEF NodesIndexedTo
<1>4. Cardinality(Compiling!DefNodes) = Len(def.nodes) /\ Cardinality(Compiling!OfKind("start")) = 1
  BY <1>1, AllIndexed DEF NodesIndexedTo
<1>5. Compiling!OfKind("end") # {}
  BY TheStartAndTheEnds
<1>6. \A e \in Compiling!DefEdges :
        e.from \in Compiling!DefNodes \ Compiling!OfKind("end") /\ e.to \in Compiling!DefNodes
  <2>1. \A k \in 1 .. Len(def.edges) : IsRouted(def.edges[k])
    BY <1>1 DEF EdgesIndexedTo
  <2> QED
    BY <1>1, <1>2, <2>1, KindIndexed DEF IsRouted, Compiling!DefEdges, Compiling!ToSet
<1>7. Compiling!Deterministic
  BY <1>1, <1>2 DEF Compiling!Deterministic, EdgesIndexedTo
<1>8. Compiling!WellNamed
  <2>1. Compiling!Cardinality(Compiling!DefNodes) = Len(def.nodes) /\ Compiling!Cardinality(Compiling!OfKind("start")) = 1
    BY <1>4, SameCardinality
  <2>2. \A k \in DOMAIN def.nodes : def.nodes[k].id # "" /\ def.nodes[k].kind # ""
    BY <1>3 DEF Named
  <2>3. def.id # ""
    BY <1>1 DEF nameless
  <2> QED
    BY <1>5, <1>6, <2>1, <2>2, <2>3 DEF Compiling!WellNamed
<1> QED
  BY <1>7, <1>8

\* Without cycles, what reaches every node has no predecessor.
LEMMA NothingReturns ==
  ASSUME def \in Definitions, Analysed, Compiling!HasNoCycle, Compiling!AllFromStart
  PROVE  \A x \in Compiling!NodeIds : <<x, Compiling!StartID>> \notin Compiling!Arrows
<1> DEFINE V == Compiling!NodeIds
           A == Compiling!Arrows
           root == Compiling!StartID
<1>1. V = Compiling!DefNodes /\ root \in V /\ Compiling!OfKind("start") = {root}
  BY KindIndexed, TheStartAndTheEnds DEF Analysed
<1>2. IsFiniteSet(V)
  BY DEF Analysed, NodesIndexedTo
<1>3. \A e \in A : e = <<e[1], e[2]>> /\ e[1] \in V /\ e[2] \in V
  <2>1. DOMAIN def.edges = 1 .. Len(def.edges)
    BY Lists
  <2>2. \A k \in 1 .. Len(def.edges) : def.edges[k].from \in V /\ def.edges[k].to \in V
    BY DEF Analysed, EdgesIndexedTo, IsRouted
  <2> QED
    BY <2>1, <2>2 DEF Compiling!Arrows, Compiling!DefEdges, Compiling!ToSet
<1>4. \A X \in (SUBSET V) \ {{}} : \E x \in X : \A y \in X : <<x, y>> \notin A
  BY <1>1 DEF Compiling!HasNoCycle
<1>5. \A X \in SUBSET V : root \in X /\ (\A e \in A : e[1] \in X => e[2] \in X) => X = V
  BY <1>1 DEF Compiling!AllFromStart
<1> HIDE DEF V, A, root
<1>6. \A y \in V \ {root} : \E x \in V : <<x, y>> \in A
  <2> TAKE y \in V \ {root}
  <2>1. V \ {y} \in SUBSET V /\ root \in V \ {y} /\ V \ {y} # V
    BY <1>1
  <2>2. PICK e \in A : e[1] \in V \ {y} /\ e[2] \notin V \ {y}
    BY <1>5, <2>1
  <2>3. e = <<e[1], y>>
    BY <1>3, <2>2
  <2> QED
    BY <2>2, <2>3
<1>7. \E y \in V : \A x \in V : <<x, y>> \notin A
  <2>1. V \in SUBSET V /\ V # {}
    BY <1>1
  <2> QED
    BY <1>2, <1>4, <2>1, SinksGiveSources
<1>8. \A x \in V : <<x, root>> \notin A
  BY <1>6, <1>7
<1> QED
  BY <1>8 DEF V, A, root

\* The routes are those of the edges.
LEMMA RoutesAreExecutable ==
  ASSUME def \in Definitions, Analysed, Compiling!HasNoCycle, Compiling!AllFromStart
  PROVE  /\ DOMAIN a.routes = {Compiling!Selector(e) : e \in Compiling!DefEdges}
         /\ \A e \in Compiling!DefEdges : a.routes[Compiling!Selector(e)] = e.to
         /\ \A s \in DOMAIN a.routes : a.routes[s] # Compiling!StartID /\ Compiling!Kind(s[1]) # "end"
<1> DEFINE m == Len(def.edges)
<1>1. EdgesIndexedTo(m) /\ DOMAIN def.edges = 1 .. m
  BY Lists DEF Analysed
<1>2. /\ \A k \in 1 .. m : IsRouted(def.edges[k])
      /\ \A s \in DOMAIN a.routes : \E k \in 1 .. m : s = Compiling!Selector(def.edges[k])
  BY <1>1 DEF EdgesIndexedTo
<1>3. \A e \in Compiling!DefEdges : \E k \in 1 .. m : e = def.edges[k]
  BY <1>1 DEF Compiling!DefEdges, Compiling!ToSet
<1>4. \A k \in 1 .. m : def.edges[k] \in Compiling!DefEdges
  BY <1>1 DEF Compiling!DefEdges, Compiling!ToSet
<1> HIDE DEF m
<1>5. \A e \in Compiling!DefEdges : Compiling!Selector(e) \in DOMAIN a.routes /\ a.routes[Compiling!Selector(e)] = e.to
  BY <1>2, <1>3 DEF IsRouted
<1>6. DOMAIN a.routes = {Compiling!Selector(e) : e \in Compiling!DefEdges}
  BY <1>2, <1>4, <1>5
<1>7. \A s \in DOMAIN a.routes : a.routes[s] # Compiling!StartID /\ Compiling!Kind(s[1]) # "end"
  <2> TAKE s \in DOMAIN a.routes
  <2>1. PICK k \in 1 .. m : s = Compiling!Selector(def.edges[k])
    BY <1>2
  <2>2. IsRouted(def.edges[k]) /\ s[1] = def.edges[k].from /\ a.routes[s] = def.edges[k].to
    BY <1>2, <2>1 DEF IsRouted, Compiling!Selector
  <2>3. <<def.edges[k].from, def.edges[k].to>> \in Compiling!Arrows
    BY <1>4 DEF Compiling!Arrows
  <2>4. def.edges[k].from \in Compiling!NodeIds /\ Compiling!Kind(def.edges[k].from) # "end"
    BY <2>2 DEF IsRouted
  <2> QED
    BY <2>2, <2>3, <2>4, NothingReturns
<1> QED
  BY <1>5, <1>6, <1>7

\* What was refused nowhere is well formed, and its plan is executable.
LEMMA CompiledStep ==
  ASSUME CompilationInv, Compiling!Compiled
  PROVE  CompilationInv'
<1>1. /\ pc = "prepare" /\ pos > Len(def.nodes) /\ def \in Definitions /\ Analysed
      /\ Compiling!HasNoCycle /\ Compiling!AllFromStart /\ Compiling!AllToAnEnd
      /\ Compiling!StartsUnconditionally
      /\ \A k \in DOMAIN def.nodes : def.nodes[k].config # NotJSON
      /\ pos \in 1 .. Len(def.nodes) + 1
      /\ \A k \in 1 .. pos - 1 :
           def.nodes[k].kind \in {"start", "end"}
             \/ (def.nodes[k].kind \in Registered /\ Prepares(def.nodes[k].kind, def.nodes[k].config))
  BY DEF Compiling!Compiled, CompilationInv
<1>2. def' = def /\ a' = a /\ pc' = "done" /\ verdict' = "ok"
  BY DEF Compiling!Compiled
<1>3. Compiling!HandlersAccept
  <2>1. \A k \in DOMAIN def.nodes : k \in 1 .. pos - 1
    BY <1>1, Lists
  <2> QED
    BY <1>1, <2>1 DEF Compiling!HandlersAccept
<1>4. Compiling!WellFormed
  BY <1>1, <1>3, AnalysedIsNamed DEF Compiling!WellFormed
<1>5. Compiling!VerdictIsRight'
  <2>1. Compiling!WellFormed'
    BY <1>2, <1>4, SameDefinition
  <2> QED
    BY <1>2, <2>1 DEF Compiling!VerdictIsRight
<1>6. Compiling!PlanIsExecutable'
  <2>1. /\ DOMAIN a.routes = {Compiling!Selector(e) : e \in Compiling!DefEdges}
        /\ \A e \in Compiling!DefEdges : a.routes[Compiling!Selector(e)] = e.to
        /\ \A s \in DOMAIN a.routes : a.routes[s] # Compiling!StartID /\ Compiling!Kind(s[1]) # "end"
    BY <1>1, RoutesAreExecutable
  <2>2. /\ Compiling!DefEdges' = Compiling!DefEdges /\ Compiling!StartID' = Compiling!StartID
        /\ \A id : Compiling!Kind(id)' = Compiling!Kind(id)
        /\ \A e : Compiling!Selector(e)' = Compiling!Selector(e)
    BY <1>2 DEF Compiling!DefEdges, Compiling!StartID, Compiling!Kind, Compiling!Selector
  <2>3. <<Compiling!StartID, "">> \in DOMAIN a.routes
    BY <1>1, StartRoute
  <2>4. (<<Compiling!StartID, "">> \in DOMAIN a.routes)'
    BY <1>2, <2>2, <2>3
  <2>5. /\ (DOMAIN a.routes = {Compiling!Selector(e) : e \in Compiling!DefEdges})'
        /\ (\A e \in Compiling!DefEdges : a.routes[Compiling!Selector(e)] = e.to)'
        /\ (\A s \in DOMAIN a.routes : a.routes[s] # Compiling!StartID /\ Compiling!Kind(s[1]) # "end")'
    BY <1>2, <2>1, <2>2
  <2> QED
    BY <2>4, <2>5 DEF Compiling!PlanIsExecutable
<1> QED
  BY <1>1, <1>2, <1>5, <1>6 DEF CompilationInv

\* Nothing that the invariant speaks of changes in a step of another subject.
LEMMA CompilationRests ==
  ASSUME CompilationInv, UNCHANGED Compiling!vars
  PROVE  CompilationInv'
<1>1. def' = def /\ pc' = pc /\ pos' = pos /\ a' = a /\ scan' = scan /\ verdict' = verdict
  BY DEF Compiling!vars
<1>2. /\ \A n : NodesIndexedTo(n)' <=> NodesIndexedTo(n)
      /\ \A m : EdgesIndexedTo(m)' <=> EdgesIndexedTo(m)
      /\ Analysed' <=> Analysed
      /\ Compiling!NodeIds' = Compiling!NodeIds /\ Compiling!StartID' = Compiling!StartID
  BY <1>1, SameAnalysis
<1>3. NoEdgesYet' <=> NoEdgesYet
  BY <1>1, <1>2 DEF NoEdgesYet
<1>4. AcyclicInv' <=> AcyclicInv
  <2>1. Started' = Started /\ (InOrder' <=> InOrder)
    BY <1>1 DEF Started, InOrder
  <2>2. \A id, removed : Waiting(id, removed)' = Waiting(id, removed)
    BY <1>1 DEF Waiting, Into
  <2>3. Counters' <=> Counters
    BY <1>1, <1>2, <2>1, <2>2 DEF Counters
  <2> QED
    BY <1>1, <1>2, <2>1, <2>3 DEF AcyclicInv
<1>5. /\ Compiling!HasNoCycle' <=> Compiling!HasNoCycle
      /\ Compiling!AllFromStart' <=> Compiling!AllFromStart
      /\ Compiling!AllToAnEnd' <=> Compiling!AllToAnEnd
      /\ Compiling!StartsUnconditionally' <=> Compiling!StartsUnconditionally
      /\ Compiling!HandlersAccept' <=> Compiling!HandlersAccept
      /\ Compiling!Deterministic' <=> Compiling!Deterministic
      /\ Compiling!WellFormed' <=> Compiling!WellFormed
  BY <1>1, SameDefinition
<1>6. Compiling!VerdictIsRight' <=> Compiling!VerdictIsRight
  BY <1>1, <1>5 DEF Compiling!VerdictIsRight
<1>7. Compiling!PlanIsExecutable' <=> Compiling!PlanIsExecutable
  <2>1. /\ Compiling!DefEdges' = Compiling!DefEdges
        /\ \A id : Compiling!Kind(id)' = Compiling!Kind(id)
        /\ \A e : Compiling!Selector(e)' = Compiling!Selector(e)
    BY <1>1 DEF Compiling!DefEdges, Compiling!Kind, Compiling!Selector
  <2> QED
    BY <1>1, <1>2, <2>1 DEF Compiling!PlanIsExecutable
<1> QED
  BY <1>1, <1>2, <1>3, <1>4, <1>5, <1>6, <1>7 DEF CompilationInv

\* Every step of the compiler keeps its invariant.
LEMMA CompilationStep ==
  ASSUME CompilationInv, Compiling!Next \/ UNCHANGED Compiling!vars
  PROVE  CompilationInv'
BY IndexNodeStep, NodesIndexedStep, IndexEdgeStep, EdgesIndexedStep, RemoveReadyStep, ReleaseTargetStep,
   AcyclicStep, VisitTargetStep, PopReachableStep, ReachableStep, PopCoreachableStep, CanReachEndStep,
   CheckConfigStep, PrepareNodeStep, CompiledStep, CompilationRests
   DEF Compiling!Next

\* What the invariant says of the three properties.
LEMMA CompilationInvSuffices ==
  ASSUME CompilationInv
  PROVE  Compiling!VerdictIsRight /\ Compiling!PlanIsExecutable /\ Compiling!CountersAreExact
<1>1. Compiling!VerdictIsRight /\ Compiling!PlanIsExecutable
  BY DEF CompilationInv
<1>2. Compiling!CountersAreExact
  <2>1. CASE pc = "acyclic"
    <3>1. def \in Definitions /\ AcyclicInv
      BY <2>1 DEF CompilationInv
    <3> QED
      BY <2>1, <3>1, Counting DEF AcyclicInv
  <2>2. CASE pc # "acyclic"
    BY <2>2 DEF Compiling!CountersAreExact
  <2> QED
    BY <2>1, <2>2
<1> QED
  BY <1>1, <1>2

-----------------------------------------------------------------------------
(* The condition handler. *)

\* A rule of the configuration, its expressions' verdicts, and whether it holds.
Settled(i) == \A e \in DOMAIN config.rules[i].conditions :
                Choosing!EvaluateExpression(config.rules[i].conditions[e]) \notin Choosing!Errors
IsTrue(e) == Choosing!EvaluateExpression(Choosing!Rule.conditions[e]) = "true"

\* A list has the outcomes of those of the first n rules that hold, as far as
\* Select tells lists apart.
Tally(list, n) ==
  LET holding == {i \in 1 .. n : Choosing!Holds(config.rules[i])} IN
  /\ list \in Seq({config.rules[i].outcome : i \in DOMAIN config.rules})
  /\ \/ list = << >> /\ holding = {}
     \/ Len(list) = 1 /\ \E i \in holding : holding = {i} /\ list[1] = config.rules[i].outcome
     \/ Len(list) > 1

\* Of the current rule, the count of the expressions that are true so far.
Counted ==
  LET before == 1 .. position.expression - 1 IN
  /\ matched \in 0 .. position.expression - 1
  /\ \A e \in before : Choosing!EvaluateExpression(Choosing!Rule.conditions[e]) \notin Choosing!Errors
  /\ matched = position.expression - 1 <=> \A e \in before : IsTrue(e)
  /\ matched > 0 <=> \E e \in before : IsTrue(e)

ChoiceInv ==
  /\ \E c \in Cases : config = c.config /\ data = c.data
  /\ pc \in {"prepare", "decode", "evaluate", "done"}
  /\ pc \in {"decode", "evaluate"} => Choosing!ValidConfig(config)
  /\ pc \in {"prepare", "decode"} =>
       position = [rule |-> 1, expression |-> 1] /\ matched = 0 /\ outcomes = << >>
  /\ pc = "evaluate" =>
       /\ position \in [rule : DOMAIN config.rules, expression : Nat]
       /\ position.expression \in DOMAIN Choosing!Rule.conditions
       /\ \A i \in 1 .. position.rule - 1 : Settled(i)
       /\ Tally(outcomes, position.rule - 1)
       /\ Counted
  /\ Choosing!PublishedStaysValid
  /\ Choosing!OutcomeIsRight

\* An expression is true, false, or fails with one of the handler's errors.
LEMMA ExpressionIsTold ==
  ASSUME NEW e
  PROVE  Choosing!EvaluateExpression(e) \in {"true", "false"} \union Choosing!Errors
<1> DEFINE v == Choosing!Lookup(data, e.field)
           told == {"true", "false"} \union Choosing!Errors
<1>1. Choosing!EvaluateString(v, e.operator, e.value) \in told
  BY DEF Choosing!EvaluateString, Choosing!Truth, Choosing!Errors
<1>2. Choosing!EvaluateNumber(v, e.operator, e.value) \in told
  BY DEF Choosing!EvaluateNumber, Choosing!Truth, Choosing!Errors
<1>3. Choosing!EvaluateBoolean(v, e.operator, e.value) \in told
  BY DEF Choosing!EvaluateBoolean, Choosing!Truth, Choosing!Errors
<1>4. Choosing!EvaluateCollection(v, e.operator, e.value) \in told
  <2>1. \A members : Choosing!CompareCollection(members, e.operator, e.value) \in told
    BY DEF Choosing!CompareCollection, Choosing!Truth, Choosing!Errors
  <2> QED
    BY <2>1 DEF Choosing!EvaluateCollection, Choosing!Errors
<1> QED
  BY <1>1, <1>2, <1>3, <1>4 DEF Choosing!EvaluateExpression, Choosing!Errors

\* validateExpression admits no expression that evaluateExpression calls invalid.
LEMMA ValidIsNeverInvalid ==
  ASSUME NEW e, Choosing!ValidExpression(e)
  PROVE  Choosing!EvaluateExpression(e) # "ErrInvalidConfig"
<1> DEFINE v == Choosing!Lookup(data, e.field)
<1>1. CASE e.type = "string" /\ KindOf[e.value] = "string" /\ e.operator \in Choosing!StringOperators
  <2>1. Choosing!EvaluateString(v, e.operator, e.value) # "ErrInvalidConfig"
    BY <1>1 DEF Choosing!EvaluateString, Choosing!Truth, Choosing!StringOperators, Choosing!EqualityOperators
  <2> QED
    BY <1>1, <2>1 DEF Choosing!EvaluateExpression
<1>2. CASE e.type = "number" /\ KindOf[e.value] = "number" /\ e.operator \in Choosing!NumberOperators
  <2>1. Choosing!EvaluateNumber(v, e.operator, e.value) # "ErrInvalidConfig"
    BY <1>2 DEF Choosing!EvaluateNumber, Choosing!Truth, Choosing!NumberOperators, Choosing!EqualityOperators
  <2> QED
    BY <1>2, <2>1 DEF Choosing!EvaluateExpression
<1>3. CASE e.type = "boolean" /\ KindOf[e.value] = "boolean" /\ e.operator \in Choosing!EqualityOperators
  <2>1. Choosing!EvaluateBoolean(v, e.operator, e.value) # "ErrInvalidConfig"
    BY <1>3 DEF Choosing!EvaluateBoolean, Choosing!Truth, Choosing!EqualityOperators
  <2> QED
    BY <1>3, <2>1 DEF Choosing!EvaluateExpression
<1>4. CASE e.type = "collection" /\ Choosing!ValidCollection(e.operator, e.value)
  <2>1. \A members : Choosing!CompareCollection(members, e.operator, e.value) # "ErrInvalidConfig"
    BY <1>4 DEF Choosing!CompareCollection, Choosing!Truth, Choosing!ValidCollection
  <2>2. Choosing!EvaluateCollection(v, e.operator, e.value) # "ErrInvalidConfig"
    BY <2>1 DEF Choosing!EvaluateCollection
  <2> QED
    BY <1>4, <2>2 DEF Choosing!EvaluateExpression
<1> QED
  BY <1>1, <1>2, <1>3, <1>4 DEF Choosing!ValidExpression

\* A configuration is made of lists, and no outcome is an error.
Listed(c) ==
  /\ Len(c.rules) \in Nat /\ DOMAIN c.rules = 1 .. Len(c.rules) /\ (c.rules # << >> => Len(c.rules) > 0)
  /\ c.default \notin Choosing!Errors
  /\ \A i \in DOMAIN c.rules :
       /\ Len(c.rules[i].conditions) \in Nat /\ (c.rules[i].conditions # << >> => Len(c.rules[i].conditions) > 0)
       /\ DOMAIN c.rules[i].conditions = 1 .. Len(c.rules[i].conditions)
       /\ c.rules[i].outcome \notin Choosing!Errors

\* Every case is of such a configuration (CasesAreConfigurations).
LEMMA ConfigurationsAreListed ==
  ASSUME \E c \in Cases : config = c.config
  PROVE  Listed(config)
<1>1. PICK c \in Cases : config = c.config
  OBVIOUS
<1>2. /\ config.rules \in Seq(Choosing!ToSet(config.rules))
      /\ config.default \notin Choosing!Errors
      /\ \A i \in DOMAIN config.rules :
           /\ config.rules[i].conditions \in Seq(Choosing!ToSet(config.rules[i].conditions))
           /\ config.rules[i].outcome \notin Choosing!Errors
  BY <1>1, ConversionsAssumption DEF Choosing!CasesAreConfigurations
<1> QED
  BY <1>2, LenProperties DEF Listed

\* The count of a rule's true expressions tells at its end whether it holds.
LEMMA RuleIsCounted ==
  ASSUME Listed(config), position.rule \in DOMAIN config.rules, position.expression \in Nat,
         position.expression = Len(Choosing!Rule.conditions), position.expression > 0, Counted,
         NEW truth, truth = Choosing!EvaluateExpression(Choosing!Rule.conditions[position.expression]),
         truth \notin Choosing!Errors
  PROVE  /\ Settled(position.rule)
         /\ Choosing!RuleMatches(matched + (IF truth = "true" THEN 1 ELSE 0))
              <=> Choosing!Holds(Choosing!Rule)
<1> DEFINE n == position.expression
           V(e) == Choosing!EvaluateExpression(Choosing!Rule.conditions[e])
           count == matched + (IF truth = "true" THEN 1 ELSE 0)
<1>1. DOMAIN Choosing!Rule.conditions = 1 .. n
  BY DEF Listed, Choosing!Rule
<1>2. \A e \in 1 .. n : V(e) \notin Choosing!Errors
  <2>1. \A e \in 1 .. n - 1 : V(e) \notin Choosing!Errors
    BY DEF Counted
  <2> QED BY <2>1
<1>3. Settled(position.rule)
  BY <1>1, <1>2 DEF Settled, Choosing!Rule
<1>4. \A e \in 1 .. n : V(e) \in {"true", "false"}
  BY <1>2, ExpressionIsTold
<1>5. count = n <=> \A e \in 1 .. n : V(e) = "true"
  BY <1>4 DEF Counted, IsTrue
<1>6. count > 0 <=> \E e \in 1 .. n : V(e) = "true"
  BY <1>4 DEF Counted, IsTrue
<1>7. Choosing!Verdicts(Choosing!Rule) = {V(e) : e \in 1 .. n}
  BY <1>1 DEF Choosing!Verdicts
<1>8. CASE Choosing!Rule.match = "all"
  <2>1. n \in 1 .. n
    OBVIOUS
  <2>2. Choosing!Verdicts(Choosing!Rule) = {"true"} <=> \A e \in 1 .. n : V(e) = "true"
    <3> HIDE DEF V, n
    <3> QED BY <1>7, <2>1
  <2> QED
    BY <1>3, <1>5, <1>8, <2>2 DEF Choosing!RuleMatches, Choosing!Holds
<1>9. CASE Choosing!Rule.match # "all"
  <2>1. "true" \in Choosing!Verdicts(Choosing!Rule) <=> \E e \in 1 .. n : V(e) = "true"
    BY <1>7
  <2> QED
    BY <1>3, <1>6, <1>9, <2>1 DEF Choosing!RuleMatches, Choosing!Holds
<1> QED
  BY <1>8, <1>9

\* One more rule is tallied.
LEMMA OneMoreRule ==
  ASSUME NEW list, NEW n \in Nat, n + 1 \in DOMAIN config.rules, Tally(list, n)
  PROVE  Tally(IF Choosing!Holds(config.rules[n + 1]) THEN Append(list, config.rules[n + 1].outcome)
               ELSE list, n + 1)
<1> DEFINE holding(m) == {i \in 1 .. m : Choosing!Holds(config.rules[i])}
           Outs == {config.rules[i].outcome : i \in DOMAIN config.rules}
           out == config.rules[n + 1].outcome
<1>1. list \in Seq(Outs) /\ Len(list) \in Nat
  BY LenProperties DEF Tally
<1>2. CASE ~Choosing!Holds(config.rules[n + 1])
  <2>1. holding(n + 1) = holding(n)
    BY <1>2
  <2> QED
    BY <1>2, <2>1 DEF Tally
<1>3. CASE Choosing!Holds(config.rules[n + 1])
  <2>1. holding(n + 1) = holding(n) \union {n + 1}
    BY <1>3
  <2>2. /\ Append(list, out) \in Seq(Outs)
        /\ Len(Append(list, out)) = Len(list) + 1
        /\ Append(list, out)[Len(list) + 1] = out
    BY <1>1, AppendProperties
  <2>3. CASE list = << >> /\ holding(n) = {}
    BY <1>3, <2>1, <2>2, <2>3 DEF Tally
  <2>4. CASE Len(list) >= 1
    BY <1>1, <1>3, <2>2, <2>4 DEF Tally
  <2> QED
    BY <1>1, <2>3, <2>4 DEF Tally
<1> QED
  BY <1>2, <1>3

\* What a rule list comes to, once every rule is tallied.
LEMMA SelectionIsRight ==
  ASSUME Listed(config), NEW list, Tally(list, Len(config.rules)),
         \A i \in DOMAIN config.rules : Settled(i)
  PROVE  LET selected == Choosing!Select(list) IN
         /\ selected # "ErrInvalidConfig"
         /\ selected \notin Choosing!Errors =>
              /\ \A i \in DOMAIN config.rules :
                   Choosing!Verdicts(config.rules[i]) \intersect Choosing!Errors = {}
              /\ \/ \E i \in Choosing!Matching :
                      Choosing!Matching = {i} /\ selected = config.rules[i].outcome
                 \/ Choosing!Matching = {} /\ selected = config.default
<1>1. \A i \in DOMAIN config.rules : Choosing!Verdicts(config.rules[i]) \intersect Choosing!Errors = {}
  BY DEF Settled, Choosing!Verdicts
<1>2. Choosing!Matching = {i \in 1 .. Len(config.rules) : Choosing!Holds(config.rules[i])}
  BY DEF Listed, Choosing!Matching
<1>3. CASE list = << >> /\ Choosing!Matching = {}
  <2>1. Choosing!Select(list) \in {config.default, "ErrNoMatch"}
    BY <1>3 DEF Choosing!Select
  <2> QED
    BY <1>1, <1>3, <2>1 DEF Listed, Choosing!Errors
<1>4. CASE Len(list) = 1 /\ \E i \in Choosing!Matching :
             Choosing!Matching = {i} /\ list[1] = config.rules[i].outcome
  <2>1. PICK i \in Choosing!Matching : Choosing!Matching = {i} /\ list[1] = config.rules[i].outcome
    BY <1>4
  <2>2. Choosing!Select(list) = config.rules[i].outcome
    BY <1>4, <2>1 DEF Choosing!Select
  <2>3. config.rules[i].outcome \notin Choosing!Errors
    BY <1>2, <2>1 DEF Listed
  <2> QED
    BY <1>1, <2>1, <2>2, <2>3 DEF Choosing!Errors
<1>5. CASE Len(list) > 1
  BY <1>5 DEF Choosing!Select, Choosing!Errors
<1> QED
  BY <1>2, <1>3, <1>4, <1>5 DEF Tally

-----------------------------------------------------------------------------
(* The steps of the handler. *)

\* Expressions and rules mean after a step what they meant before.
LEMMA MeaningStays ==
  ASSUME UNCHANGED <<config, data>>
  PROVE  /\ \A e : Choosing!EvaluateExpression(e)' = Choosing!EvaluateExpression(e)
         /\ \A i : Settled(i)' <=> Settled(i)
         /\ \A i : Choosing!Holds(config.rules[i])' <=> Choosing!Holds(config.rules[i])
         /\ \A list, n : Tally(list, n)' <=> Tally(list, n)
         /\ Choosing!Matching' = Choosing!Matching
<1>1. \A e : Choosing!EvaluateExpression(e)' = Choosing!EvaluateExpression(e)
  BY DEF Choosing!EvaluateExpression
<1>2. \A i : Settled(i)' <=> Settled(i)
  BY <1>1 DEF Settled
<1>3. \A i : Choosing!Holds(config.rules[i])' <=> Choosing!Holds(config.rules[i])
  BY <1>1 DEF Choosing!Holds, Choosing!Verdicts
<1>4. \A list, n : Tally(list, n)' <=> Tally(list, n)
  BY <1>3 DEF Tally
<1>5. Choosing!Matching' = Choosing!Matching
  BY <1>3 DEF Choosing!Matching
<1> QED
  BY <1>1, <1>2, <1>3, <1>4, <1>5

\* Finishing with an error that is not about the configuration.
LEMMA RefusalIsRight ==
  ASSUME pc' = "done", result' \in Choosing!Errors, result' # "ErrInvalidConfig"
  PROVE  Choosing!PublishedStaysValid' /\ Choosing!OutcomeIsRight'
BY DEF Choosing!PublishedStaysValid, Choosing!OutcomeIsRight

\* The invariant holds of a case that is about to be evaluated.
LEMMA ChoiceBegins ==
  Choosing!Init => ChoiceInv
BY DEF Choosing!Init, ChoiceInv, Choosing!PublishedStaysValid, Choosing!OutcomeIsRight

\* The rule after the last expression of a rule begins a count of its own.
LEMMA RuleBegins ==
  ASSUME Choosing!ValidConfig(config), Listed(config), config' = config,
         NEW n \in DOMAIN config.rules, position' = [rule |-> n, expression |-> 1], matched' = 0
  PROVE  /\ position' \in [rule : DOMAIN config.rules, expression : Nat]
         /\ (position.expression \in DOMAIN Choosing!Rule.conditions)'
         /\ Counted'
<1>1. 1 \in DOMAIN config.rules[n].conditions
  BY DEF Choosing!ValidConfig, Choosing!ValidRule, Listed
<1>2. position'.rule = n /\ position'.expression = 1
  OBVIOUS
<1> QED
  BY <1>1, <1>2 DEF Choosing!Rule, Counted

\* Every step of the handler keeps its invariant.
LEMMA ChoiceStep ==
  ASSUME ChoiceInv, Choosing!Next \/ UNCHANGED Choosing!vars
  PROVE  ChoiceInv'
<1>1. Listed(config)
  BY ConfigurationsAreListed DEF ChoiceInv
<1>2. CASE UNCHANGED Choosing!vars
  <2>1. UNCHANGED <<config, data, pc, position, matched, outcomes, result>>
    BY <1>2 DEF Choosing!vars
  <2> QED
    BY <2>1, MeaningStays DEF ChoiceInv, Counted, IsTrue, Choosing!Rule,
       Choosing!PublishedStaysValid, Choosing!OutcomeIsRight, Choosing!Verdicts
<1>3. ASSUME Choosing!Prepare PROVE ChoiceInv'
  <2>1. UNCHANGED <<config, data, position, matched, outcomes>>
    BY <1>3 DEF Choosing!Prepare
  <2>2. CASE Choosing!ValidConfig(config)
    BY <1>3, <2>1, <2>2 DEF Choosing!Prepare, ChoiceInv,
       Choosing!PublishedStaysValid, Choosing!OutcomeIsRight
  <2>3. CASE ~Choosing!ValidConfig(config)
    BY <1>3, <2>1, <2>3 DEF Choosing!Prepare, Choosing!Finish, ChoiceInv,
       Choosing!PublishedStaysValid, Choosing!OutcomeIsRight, Choosing!Errors
  <2> QED BY <2>2, <2>3
<1>4. ASSUME Choosing!Cancel PROVE ChoiceInv'
  <2>1. UNCHANGED <<config, data, position, matched, outcomes, pc, result>>
    BY <1>4 DEF Choosing!Cancel
  <2> QED
    BY <2>1, MeaningStays DEF ChoiceInv, Counted, IsTrue, Choosing!Rule,
       Choosing!PublishedStaysValid, Choosing!OutcomeIsRight, Choosing!Verdicts
<1>5. ASSUME Choosing!NoticeCancel PROVE ChoiceInv'
  <2>1. UNCHANGED <<config, data>> /\ pc' = "done" /\ result' = "canceled"
    BY <1>5 DEF Choosing!NoticeCancel, Choosing!Finish
  <2> QED
    BY <2>1, RefusalIsRight DEF ChoiceInv, Choosing!Errors
<1>6. ASSUME Choosing!Decode PROVE ChoiceInv'
  <2>1. UNCHANGED <<config, data, position, matched, outcomes>> /\ Choosing!ValidConfig(config)
    BY <1>6 DEF Choosing!Decode, ChoiceInv
  <2>2. CASE pc' = "done" /\ result' = "ErrInvalidData"
    BY <2>1, <2>2, RefusalIsRight DEF ChoiceInv, Choosing!Errors
  <2>3. CASE pc' = "evaluate"
    <3>1. 1 \in DOMAIN config.rules
      BY <1>1, <2>1 DEF Listed, Choosing!ValidConfig
    <3>2. position' = [rule |-> 1, expression |-> 1] /\ matched' = 0 /\ outcomes' = << >>
      BY <1>6, <2>1 DEF Choosing!Decode, ChoiceInv
    <3>3. /\ position' \in [rule : DOMAIN config.rules, expression : Nat]
          /\ (position.expression \in DOMAIN Choosing!Rule.conditions)'
          /\ Counted'
      BY <1>1, <2>1, <3>1, <3>2, RuleBegins
    <3>4. Tally(outcomes', 0)
      BY <3>2 DEF Tally
    <3> QED
      BY <2>1, <2>3, <3>2, <3>3, <3>4, MeaningStays DEF ChoiceInv,
         Choosing!PublishedStaysValid, Choosing!OutcomeIsRight
  <2> QED BY <1>6, <2>2, <2>3 DEF Choosing!Decode, Choosing!Finish
<1>7. ASSUME Choosing!Evaluate PROVE ChoiceInv'
  <2> DEFINE truth == Choosing!EvaluateExpression(Choosing!Rule.conditions[position.expression])
             count == matched + (IF truth = "true" THEN 1 ELSE 0)
             last == position.expression = Len(Choosing!Rule.conditions)
             matching == IF last /\ Choosing!RuleMatches(count)
                         THEN Append(outcomes, Choosing!Rule.outcome) ELSE outcomes
  <2>1. /\ pc = "evaluate" /\ UNCHANGED <<config, data>>
        /\ IF truth \in Choosing!Errors
           THEN pc' = "done" /\ result' = truth
           ELSE /\ matched' = IF last THEN 0 ELSE count
                /\ outcomes' = matching
                /\ position' = IF last THEN [rule |-> position.rule + 1, expression |-> 1]
                               ELSE [position EXCEPT !.expression = @ + 1]
                /\ IF last /\ position.rule = Len(config.rules)
                   THEN pc' = "done" /\ result' = Choosing!Select(matching) ELSE UNCHANGED <<pc, result>>
    BY <1>7 DEF Choosing!Evaluate, Choosing!Finish, Choosing!RuleEnds
  <2> HIDE DEF truth, count, last, matching
  <2>2. /\ Choosing!ValidConfig(config)
        /\ position \in [rule : DOMAIN config.rules, expression : Nat]
        /\ position.expression \in DOMAIN Choosing!Rule.conditions
        /\ \A i \in 1 .. position.rule - 1 : Settled(i)
        /\ Tally(outcomes, position.rule - 1)
        /\ Counted
        /\ \E c \in Cases : config' = c.config /\ data' = c.data
    BY <2>1 DEF ChoiceInv
  <2>3. /\ position.rule \in DOMAIN config.rules /\ position.rule \in Nat \ {0}
        /\ position.expression \in 1 .. Len(Choosing!Rule.conditions)
        /\ Len(Choosing!Rule.conditions) \in Nat
        /\ Choosing!Rule = config.rules[position.rule]
    BY <1>1, <2>2 DEF Listed, Choosing!Rule
  <2>4. CASE truth \in Choosing!Errors
    <3>1. Choosing!ValidExpression(Choosing!Rule.conditions[position.expression])
      BY <2>2, <2>3 DEF Choosing!ValidConfig, Choosing!ValidRule
    <3>2. truth # "ErrInvalidConfig"
      BY <3>1, ValidIsNeverInvalid DEF truth
    <3> QED
      BY <2>1, <2>2, <2>4, <3>2, RefusalIsRight DEF ChoiceInv
  <2>5. CASE truth \notin Choosing!Errors /\ ~last
    <3>1. /\ UNCHANGED <<config, data, pc, result, outcomes>>
          /\ position' = [position EXCEPT !.expression = @ + 1] /\ matched' = count
      BY <2>1, <2>5 DEF matching
    <3>2. /\ position'.rule = position.rule /\ position'.expression = position.expression + 1
          /\ position' \in [rule : DOMAIN config.rules, expression : Nat]
          /\ position'.expression \in 1 .. Len(Choosing!Rule.conditions)
      BY <2>2, <2>3, <2>5, <3>1 DEF last
    <3>3. Choosing!Rule' = Choosing!Rule
      BY <3>1, <3>2 DEF Choosing!Rule
    <3>4. position'.expression \in DOMAIN Choosing!Rule.conditions
      BY <1>1, <2>3, <3>2 DEF Listed
    <3>5. truth \in {"true", "false"}
      BY <2>5, ExpressionIsTold DEF truth
    <3>6. Counted'
      <4> DEFINE n == position.expression
                 V(e) == Choosing!EvaluateExpression(Choosing!Rule.conditions[e])
      <4>1. \A e : V(e)' = V(e)
        BY <3>1, <3>3, MeaningStays
      <4>2. \A e \in 1 .. n : e \in 1 .. n - 1 \/ e = n
        BY <2>3
      <4>3. /\ matched \in 0 .. n - 1
            /\ \A e \in 1 .. n - 1 : V(e) \notin Choosing!Errors
            /\ matched = n - 1 <=> \A e \in 1 .. n - 1 : V(e) = "true"
            /\ matched > 0 <=> \E e \in 1 .. n - 1 : V(e) = "true"
        BY <2>2 DEF Counted, IsTrue
      <4>4. V(n) = truth /\ n \in Nat \ {0}
        BY <2>3 DEF truth
      <4> HIDE DEF V, n
      <4>5. /\ count \in 0 .. n
            /\ \A e \in 1 .. n : V(e) \notin Choosing!Errors
            /\ count = n <=> \A e \in 1 .. n : V(e) = "true"
            /\ count > 0 <=> \E e \in 1 .. n : V(e) = "true"
        BY <2>5, <3>5, <4>2, <4>3, <4>4 DEF count
      <4>6. position'.expression - 1 = n
        BY <3>2, <4>4 DEF n
      <4> QED
        BY <3>1, <4>1, <4>5, <4>6 DEF Counted, IsTrue, V, Choosing!Errors
    <3> QED
      BY <2>1, <2>2, <3>1, <3>2, <3>3, <3>4, <3>6, MeaningStays DEF ChoiceInv,
         Choosing!PublishedStaysValid, Choosing!OutcomeIsRight
  <2>6. CASE truth \notin Choosing!Errors /\ last
    <3>1. /\ Settled(position.rule)
          /\ Choosing!RuleMatches(count) <=> Choosing!Holds(Choosing!Rule)
      BY <1>1, <2>2, <2>3, <2>6, RuleIsCounted DEF truth, count, last
    <3>2. \A i \in 1 .. position.rule : Settled(i)
      BY <2>2, <2>3, <3>1
    <3>3. Tally(matching, position.rule)
      <4> DEFINE n == position.rule - 1
      <4>1. n \in Nat /\ n + 1 = position.rule
        BY <2>3
      <4>2. matching = IF Choosing!Holds(config.rules[n + 1])
                       THEN Append(outcomes, config.rules[n + 1].outcome) ELSE outcomes
        BY <2>3, <2>6, <3>1, <4>1 DEF matching
      <4>3. n + 1 \in DOMAIN config.rules /\ Tally(outcomes, n)
        BY <2>2, <2>3, <4>1
      <4> HIDE DEF n
      <4> QED
        BY <4>1, <4>2, <4>3, OneMoreRule
    <3>4. CASE position.rule = Len(config.rules)
      <4>1. pc' = "done" /\ result' = Choosing!Select(matching)
        BY <2>1, <2>6, <3>4
      <4>2. \A i \in DOMAIN config.rules : Settled(i)
        BY <1>1, <3>2, <3>4 DEF Listed
      <4>3. Tally(matching, Len(config.rules))
        BY <3>3, <3>4
      <4>4. Choosing!PublishedStaysValid' /\ Choosing!OutcomeIsRight'
        <5> DEFINE selected == Choosing!Select(matching)
        <5>1. /\ selected # "ErrInvalidConfig"
              /\ selected \notin Choosing!Errors =>
                   /\ \A i \in DOMAIN config.rules :
                        Choosing!Verdicts(config.rules[i]) \intersect Choosing!Errors = {}
                   /\ \/ \E i \in Choosing!Matching :
                           Choosing!Matching = {i} /\ selected = config.rules[i].outcome
                      \/ Choosing!Matching = {} /\ selected = config.default
          BY <1>1, <4>2, <4>3, SelectionIsRight
        <5>2. \A i : Choosing!Verdicts(config.rules[i])' = Choosing!Verdicts(config.rules[i])
          BY <2>1, MeaningStays DEF Choosing!Verdicts
        <5> QED
          BY <2>1, <4>1, <5>1, <5>2, MeaningStays DEF
             Choosing!PublishedStaysValid, Choosing!OutcomeIsRight, Choosing!Errors
      <4> QED
        BY <2>1, <2>2, <4>1, <4>4 DEF ChoiceInv
    <3>5. CASE position.rule # Len(config.rules)
      <4>1. /\ UNCHANGED <<pc, result>> /\ outcomes' = matching /\ matched' = 0
            /\ position' = [rule |-> position.rule + 1, expression |-> 1]
        BY <2>1, <2>6, <3>5
      <4>2. position.rule + 1 \in DOMAIN config.rules
        BY <1>1, <2>3, <3>5 DEF Listed
      <4>3. /\ position' \in [rule : DOMAIN config.rules, expression : Nat]
            /\ (position.expression \in DOMAIN Choosing!Rule.conditions)'
            /\ Counted'
        BY <1>1, <2>1, <2>2, <4>1, <4>2, RuleBegins
      <4>4. position'.rule - 1 = position.rule
        BY <2>3, <4>1
      <4> QED
        BY <2>1, <2>2, <3>2, <3>3, <4>1, <4>3, <4>4, MeaningStays DEF ChoiceInv,
           Choosing!PublishedStaysValid, Choosing!OutcomeIsRight
    <3> QED BY <3>4, <3>5
  <2> QED BY <2>4, <2>5, <2>6
<1> QED
  BY <1>2, <1>3, <1>4, <1>5, <1>6, <1>7 DEF Choosing!Next

-----------------------------------------------------------------------------
(* The codecs of the SQL adapters. *)

StoredTasks(agg) == Rows!Each(Rows!StoredTask, agg.tasks)
StoredAudit(agg) == Rows!Each(Rows!StoredRecord, agg.audit)
ParentOf(agg) ==
  [initiator |-> agg.initiator, definition |-> Rows!EncodeDefinition(agg.nodes),
   data |-> Rows!Nullable(agg.data), tasksNil |-> agg.tasks = Nil, auditNil |-> agg.audit = Nil,
   version |-> agg.version]

\* The rows of a table are the first n payloads of a list, by ordinal.
HoldsFirst(rows, payloads, n) ==
  /\ n \in 0 .. Len(payloads)
  /\ DOMAIN rows = 0 .. n - 1
  /\ \A i \in 0 .. n - 1 : rows[i] = payloads[i + 1]

IsRows(r) == r = [exists |-> r.exists, parent |-> r.parent, tasks |-> r.tasks, audit |-> r.audit]

\* The rows of a committed aggregate.
AreRowsOf(r, agg) ==
  /\ r.parent = ParentOf(agg)
  /\ HoldsFirst(r.tasks, StoredTasks(agg), Len(StoredTasks(agg)))
  /\ HoldsFirst(r.audit, StoredAudit(agg), Len(StoredAudit(agg)))

\* An aggregate that passed the adapter's checks and the server's.
IsStored(agg) == Rows!IsAggregate(agg) /\ Rows!Storable(agg) /\ ~Rows!Refused(agg)

DbInv ==
  /\ IsRows(db)
  /\ db.exists \/ db = Rows!Absent
  /\ db.exists => IsStored(kept) /\ AreRowsOf(db, kept)

\* What was loaded is as old as its version says.
LoadedInv ==
  loaded # Nil =>
    /\ db.exists /\ Rows!IsAggregate(loaded)
    /\ loaded.version <= kept.version
    /\ loaded.version = kept.version => Rows!List(loaded.audit) = StoredAudit(kept)

\* The call under way passes a new aggregate, or a later version of the loaded one.
IsCallFor(agg) ==
  /\ Rows!IsAggregate(agg)
  /\ \/ call.op = "create" /\ ~db.exists
     \/ /\ call.op = "save" /\ loaded # Nil
        /\ call.expected = loaded.version /\ agg.version = loaded.version + 1
        /\ call.extends = Rows!IsPrefix(Rows!List(loaded.audit), Rows!List(agg.audit))

Writing == {"parent", "history", "tasks", "audit", "commit"}

TxInv ==
  LET agg == snapshot.aggregate IN
  /\ IsCallFor(agg) /\ Rows!Storable(agg)
  /\ snapshot = Rows!EncodeSnapshot(agg)
  /\ IsRows(tx)
  /\ pc = "parent" => tx = db
  /\ pc # "parent" => tx.exists /\ tx.parent = ParentOf(agg)
  /\ pc # "parent" /\ call.op = "save" => loaded.version = kept.version
  /\ pc = "history" => call.op = "save" /\ tx.tasks = db.tasks /\ tx.audit = db.audit
  /\ pc \in {"parent", "history"} => written = 0 /\ auditOffset = 0
  /\ pc = "tasks" => HoldsFirst(tx.tasks, StoredTasks(agg), written)
  /\ pc = "tasks" => HoldsFirst(tx.audit, StoredAudit(agg), auditOffset)
  /\ pc \in {"audit", "commit"} => HoldsFirst(tx.tasks, StoredTasks(agg), Len(StoredTasks(agg)))
  /\ pc = "audit" => HoldsFirst(tx.audit, StoredAudit(agg), written)
  /\ pc = "commit" => HoldsFirst(tx.audit, StoredAudit(agg), Len(StoredAudit(agg)))

RowsInv ==
  /\ adapter \in {"postgres", "mysql"}
  /\ pc \in {"idle", "encode"} \union Writing
  /\ DbInv /\ LoadedInv
  /\ pc = "encode" => IsCallFor(candidate)
  /\ pc \in {"idle", "encode"} => written = 0 /\ auditOffset = 0
  /\ pc \in Writing => TxInv
  /\ Rows!NoFalseRewrite

-----------------------------------------------------------------------------
(* Lists and the rows they become. *)

\* What becomes of a string is text, as long as it, and stays so.
LEMMA TextIsText ==
  ASSUME NEW s \in Strings
  PROVE  /\ Rows!Text(s) \in Strings /\ Rows!Text(s) \notin Invalid
         /\ Rows!Text(Rows!Text(s)) = Rows!Text(s)
         /\ s \notin Invalid => Rows!Text(s) = s
         /\ Rows!Text(s) = Blank <=> s = Blank
         /\ Rows!Text(s) \in Long <=> s \in Long
BY ConversionsAssumption DEF Rows!RowsAreOfAggregates, Rows!Text

\* The task rows of an aggregate, one for each task.
LEMMA TasksAreEncoded ==
  ASSUME NEW agg, agg.tasks \in {Nil} \union Seq(Rows!Tasks)
  PROVE  LET list == Rows!List(agg.tasks) IN
         /\ list \in Seq(Rows!Tasks) /\ StoredTasks(agg) \in Seq(Rows!Tasks)
         /\ Len(list) \in Nat /\ DOMAIN list = 1 .. Len(list) /\ Len(StoredTasks(agg)) = Len(list)
         /\ \A i \in 1 .. Len(list) :
              list[i] \in Rows!Tasks /\ StoredTasks(agg)[i] = Rows!StoredTask(list[i])
         /\ agg.tasks = list \/ (agg.tasks = Nil /\ list = << >>)
<1> DEFINE list == Rows!List(agg.tasks)
<1>1. list \in Seq(Rows!Tasks) /\ (agg.tasks = list \/ (agg.tasks = Nil /\ list = << >>))
  BY DEF Rows!List
<1>2. StoredTasks(agg) = [i \in DOMAIN list |-> Rows!StoredTask(list[i])]
  BY DEF StoredTasks, Rows!Each
<1> HIDE DEF list
<1>3. Len(list) \in Nat /\ DOMAIN list = 1 .. Len(list) /\ \A i \in 1 .. Len(list) : list[i] \in Rows!Tasks
  BY <1>1, LenProperties
<1>4. \A t \in Rows!Tasks : Rows!StoredTask(t) \in Rows!Tasks
  BY TextIsText DEF Rows!Tasks, Rows!StoredTask, Rows!Task
<1>5. StoredTasks(agg) \in [1 .. Len(list) -> Rows!Tasks]
  BY <1>2, <1>3, <1>4
<1>6. StoredTasks(agg) \in Seq(Rows!Tasks) /\ Len(StoredTasks(agg)) = Len(list)
  BY <1>3, <1>5, LenProperties, SeqDef
<1> QED
  BY <1>1, <1>2, <1>3, <1>6 DEF list

\* The audit rows of an aggregate, one for each record.
LEMMA AuditIsEncoded ==
  ASSUME NEW agg, agg.audit \in {Nil} \union Seq(Rows!Records)
  PROVE  LET list == Rows!List(agg.audit) IN
         /\ list \in Seq(Rows!Records) /\ StoredAudit(agg) \in Seq(Rows!Records)
         /\ Len(list) \in Nat /\ DOMAIN list = 1 .. Len(list) /\ Len(StoredAudit(agg)) = Len(list)
         /\ \A i \in 1 .. Len(list) :
              list[i] \in Rows!Records /\ StoredAudit(agg)[i] = Rows!StoredRecord(list[i])
         /\ agg.audit = list \/ (agg.audit = Nil /\ list = << >>)
<1> DEFINE list == Rows!List(agg.audit)
<1>1. list \in Seq(Rows!Records) /\ (agg.audit = list \/ (agg.audit = Nil /\ list = << >>))
  BY DEF Rows!List
<1>2. StoredAudit(agg) = [i \in DOMAIN list |-> Rows!StoredRecord(list[i])]
  BY DEF StoredAudit, Rows!Each
<1> HIDE DEF list
<1>3. Len(list) \in Nat /\ DOMAIN list = 1 .. Len(list) /\ \A i \in 1 .. Len(list) : list[i] \in Rows!Records
  BY <1>1, LenProperties
<1>4. \A t \in Rows!Records : Rows!StoredRecord(t) \in Rows!Records
  BY TextIsText DEF Rows!Records, Rows!StoredRecord, Rows!Record
<1>5. StoredAudit(agg) \in [1 .. Len(list) -> Rows!Records]
  BY <1>2, <1>3, <1>4
<1>6. StoredAudit(agg) \in Seq(Rows!Records) /\ Len(StoredAudit(agg)) = Len(list)
  BY <1>3, <1>5, LenProperties, SeqDef
<1> QED
  BY <1>1, <1>2, <1>3, <1>6 DEF list

\* Reading rows by ordinal gives back the payloads they hold.
LEMMA OrderedIsThePayloads ==
  ASSUME NEW S, NEW payloads \in Seq(S), NEW rows, NEW n, HoldsFirst(rows, payloads, n)
  PROVE  /\ DOMAIN rows = 0 .. n - 1 /\ Cardinality(DOMAIN rows) = n
         /\ Rows!Ordered(rows) \in Seq(S) /\ Len(Rows!Ordered(rows)) = n
         /\ \A i \in 1 .. n : Rows!Ordered(rows)[i] = payloads[i]
<1> DEFINE before(i) == {j \in DOMAIN rows : j < i}
           row(k) == CHOOSE i \in DOMAIN rows : Cardinality(before(i)) = k - 1
<1>1. n \in Nat /\ n <= Len(payloads) /\ DOMAIN rows = 0 .. n - 1
  BY LenProperties DEF HoldsFirst
<1>2. Cardinality(DOMAIN rows) = n
  BY <1>1, FS_Interval
<1>3. \A i \in DOMAIN rows : Cardinality(before(i)) = i
  <2> TAKE i \in DOMAIN rows
  <2>1. i \in Nat /\ before(i) = 0 .. i - 1
    BY <1>1
  <2> HIDE DEF before
  <2>2. Cardinality(0 .. i - 1) = i
    BY <2>1, FS_Interval
  <2> QED
    BY <2>1, <2>2
<1>4. \A k \in 1 .. n : row(k) = k - 1
  <2> TAKE k \in 1 .. n
  <2>1. k - 1 \in DOMAIN rows /\ Cardinality(before(k - 1)) = k - 1
    BY <1>1, <1>3
  <2>2. row(k) \in DOMAIN rows /\ Cardinality(before(row(k))) = k - 1
    <3> HIDE DEF before
    <3> QED BY <2>1
  <2> QED
    BY <1>3, <2>2
<1>5. Rows!Ordered(rows) = [k \in 1 .. n |-> rows[row(k)]]
  <2>1. Rows!Ordered(rows) = [k \in 1 .. Cardinality(DOMAIN rows) |-> rows[row(k)]]
    BY DEF Rows!Ordered, Rows!Cardinality, Cardinality
  <2> QED
    BY <1>2, <2>1
<1>6. Rows!Ordered(rows) = [k \in 1 .. n |-> payloads[k]]
  <2> HIDE DEF row
  <2>1. \A k \in 1 .. n : k - 1 \in 0 .. n - 1 /\ k - 1 + 1 = k
    BY <1>1
  <2>2. \A k \in 1 .. n : rows[k - 1] = payloads[k]
    BY <2>1 DEF HoldsFirst
  <2> QED
    BY <1>4, <1>5, <2>2
<1>7. \A k \in 1 .. n : payloads[k] \in S
  BY <1>1, LenProperties
<1>8. [k \in 1 .. n |-> payloads[k]] \in [1 .. n -> S]
  BY <1>7
<1>9. Rows!Ordered(rows) \in Seq(S) /\ Len(Rows!Ordered(rows)) = n
  BY <1>1, <1>6, <1>8, LenProperties, SeqDef
<1> QED
  BY <1>1, <1>2, <1>6, <1>9

\* Rows that hold a whole list give it back.
LEMMA OrderedIsAll ==
  ASSUME NEW S, NEW payloads \in Seq(S), NEW rows, HoldsFirst(rows, payloads, Len(payloads))
  PROVE  /\ Rows!Ordered(rows) = payloads
         /\ DOMAIN rows = {} <=> payloads = << >>
<1>1. /\ DOMAIN rows = 0 .. Len(payloads) - 1
      /\ Rows!Ordered(rows) \in Seq(S) /\ Len(Rows!Ordered(rows)) = Len(payloads)
      /\ \A i \in 1 .. Len(payloads) : Rows!Ordered(rows)[i] = payloads[i]
  BY OrderedIsThePayloads
<1>2. Rows!Ordered(rows) = payloads
  BY <1>1, SeqEqual
<1>3. DOMAIN rows = {} <=> Len(payloads) = 0
  BY <1>1, LenProperties
<1> QED
  BY <1>2, <1>3, EmptySeq

-----------------------------------------------------------------------------
(* What a load gives. *)

\* The definition is decoded to what was encoded.
LEMMA DefinitionIsDecoded ==
  ASSUME NEW nodes, nodes = Nil \/ nodes \in Seq(Rows!ToSet(nodes))
  PROVE  Rows!DecodeDefinition(Rows!EncodeDefinition(nodes)) = nodes
<1>1. CASE nodes = Nil
  BY <1>1 DEF Rows!DecodeDefinition, Rows!EncodeDefinition, Rows!Null
<1>2. CASE nodes # Nil /\ nodes \in Seq(Rows!ToSet(nodes))
  <2> DEFINE json == [null |-> FALSE, configs |-> [i \in DOMAIN nodes |-> Rows!Nullable(nodes[i])]]
  <2>1. Rows!EncodeDefinition(nodes) = json
    BY <1>2 DEF Rows!EncodeDefinition, Rows!Each, Rows!List
  <2>2. json # Rows!Null
    BY DEF Rows!Null
  <2>3. \A bytes : Rows!Bytes(Rows!Nullable(bytes)) = bytes
    BY DEF Rows!Bytes, Rows!Nullable, Rows!Null
  <2>4. Rows!DecodeDefinition(json) = [i \in DOMAIN nodes |-> Rows!Bytes(Rows!Nullable(nodes[i]))]
    BY <2>2 DEF Rows!DecodeDefinition
  <2>5. nodes = [i \in DOMAIN nodes |-> nodes[i]]
    BY <1>2, LenProperties
  <2> QED
    BY <2>1, <2>3, <2>4, <2>5
<1> QED
  BY <1>1, <1>2

\* A nil slice comes back as nil and an empty one as empty.
LEMMA ListsAreReplaced ==
  ASSUME NEW agg, Rows!IsAggregate(agg), NEW x, NEW y
  PROVE  [agg EXCEPT !.tasks = x, !.audit = y] =
           [initiator |-> agg.initiator, nodes |-> agg.nodes, data |-> agg.data,
            tasks |-> x, audit |-> y, version |-> agg.version]
<1> DEFINE once == [initiator |-> agg.initiator, nodes |-> agg.nodes, data |-> agg.data,
                    tasks |-> x, audit |-> agg.audit, version |-> agg.version]
<1>1. agg = [initiator |-> agg.initiator, nodes |-> agg.nodes, data |-> agg.data,
             tasks |-> agg.tasks, audit |-> agg.audit, version |-> agg.version]
  BY DEF Rows!IsAggregate
<1>2. [agg EXCEPT !.tasks = x] = once
  BY <1>1
<1>3. [once EXCEPT !.audit = y] =
        [initiator |-> agg.initiator, nodes |-> agg.nodes, data |-> agg.data,
         tasks |-> x, audit |-> y, version |-> agg.version]
  OBVIOUS
<1>4. [agg EXCEPT !.tasks = x, !.audit = y] = [[agg EXCEPT !.tasks = x] EXCEPT !.audit = y]
  BY <1>1
<1> QED
  BY <1>2, <1>3, <1>4

\* The fields of an aggregate as it is durable.
LEMMA DurableIsARecord ==
  ASSUME NEW agg, IsStored(agg)
  PROVE  Rows!Durable(agg) =
           [initiator |-> agg.initiator, nodes |-> agg.nodes, data |-> agg.data,
            tasks |-> IF agg.tasks = Nil THEN Nil ELSE StoredTasks(agg),
            audit |-> IF agg.audit = Nil THEN Nil ELSE StoredAudit(agg),
            version |-> agg.version]
<1> DEFINE x == IF agg.tasks = Nil THEN Nil
                ELSE [i \in DOMAIN Rows!List(agg.tasks) |-> Rows!DurableTask(Rows!List(agg.tasks)[i])]
           y == IF agg.audit = Nil THEN Nil
                ELSE [i \in DOMAIN Rows!List(agg.audit) |-> Rows!DurableRecord(Rows!List(agg.audit)[i])]
<1>1. Rows!Durable(agg) = [agg EXCEPT !.tasks = x, !.audit = y]
  BY DEF Rows!Durable, Rows!Each
<1>2. Rows!IsAggregate(agg)
  BY DEF IsStored
<1>3. x = IF agg.tasks = Nil THEN Nil ELSE StoredTasks(agg)
  <2> DEFINE list == Rows!List(agg.tasks)
  <2>2. \A i \in DOMAIN list : Rows!DurableTask(list[i]) = Rows!StoredTask(list[i])
    BY DEF Rows!StoredTask, Rows!DurableTask
  <2>3. StoredTasks(agg) = [i \in DOMAIN list |-> Rows!StoredTask(list[i])]
    BY DEF StoredTasks, Rows!Each
  <2> HIDE DEF list
  <2>4. [i \in DOMAIN list |-> Rows!StoredTask(list[i])] = [i \in DOMAIN list |-> Rows!DurableTask(list[i])]
    BY <2>2
  <2> QED
    BY <2>3, <2>4 DEF list
<1>4. y = IF agg.audit = Nil THEN Nil ELSE StoredAudit(agg)
  <2> DEFINE list == Rows!List(agg.audit)
  <2>2. \A i \in DOMAIN list : Rows!DurableRecord(list[i]) = Rows!StoredRecord(list[i])
    BY DEF Rows!StoredRecord, Rows!DurableRecord
  <2>3. StoredAudit(agg) = [i \in DOMAIN list |-> Rows!StoredRecord(list[i])]
    BY DEF StoredAudit, Rows!Each
  <2> HIDE DEF list
  <2>4. [i \in DOMAIN list |-> Rows!StoredRecord(list[i])] = [i \in DOMAIN list |-> Rows!DurableRecord(list[i])]
    BY <2>2
  <2> QED
    BY <2>3, <2>4 DEF list
<1> HIDE DEF x, y
<1> QED
  BY <1>1, <1>2, <1>3, <1>4, ListsAreReplaced

\* Rows of an aggregate are loaded as its durable form.
LEMMA LoadGivesTheAggregate ==
  ASSUME NEW agg, IsStored(agg), NEW r, AreRowsOf(r, agg)
  PROVE  Rows!Assembled(r) = Rows!Durable(agg)
<1>1. /\ agg.nodes = Nil \/ agg.nodes \in Seq(Rows!ToSet(agg.nodes))
      /\ agg.tasks \in {Nil} \union Seq(Rows!Tasks) /\ agg.audit \in {Nil} \union Seq(Rows!Records)
  BY DEF IsStored, Rows!IsAggregate
<1>2. Rows!Durable(agg) =
        [initiator |-> agg.initiator, nodes |-> agg.nodes, data |-> agg.data,
         tasks |-> IF agg.tasks = Nil THEN Nil ELSE StoredTasks(agg),
         audit |-> IF agg.audit = Nil THEN Nil ELSE StoredAudit(agg), version |-> agg.version]
  BY DurableIsARecord
<1>3. /\ r.parent.initiator = agg.initiator /\ r.parent.version = agg.version
      /\ r.parent.tasksNil = (agg.tasks = Nil) /\ r.parent.auditNil = (agg.audit = Nil)
      /\ r.parent.definition = Rows!EncodeDefinition(agg.nodes)
      /\ r.parent.data = Rows!Nullable(agg.data)
  BY DEF AreRowsOf, ParentOf
<1>4. Rows!Slice(r.tasks, r.parent.tasksNil) = IF agg.tasks = Nil THEN Nil ELSE StoredTasks(agg)
  <2>1. /\ StoredTasks(agg) \in Seq(Rows!Tasks)
        /\ agg.tasks = Nil => StoredTasks(agg) = << >>
    BY <1>1, TasksAreEncoded, EmptySeq DEF Rows!List
  <2>2. Rows!Ordered(r.tasks) = StoredTasks(agg) /\ (DOMAIN r.tasks = {} <=> StoredTasks(agg) = << >>)
    BY <2>1, OrderedIsAll DEF AreRowsOf
  <2> QED
    BY <1>3, <2>1, <2>2 DEF Rows!Slice
<1>5. Rows!Slice(r.audit, r.parent.auditNil) = IF agg.audit = Nil THEN Nil ELSE StoredAudit(agg)
  <2>1. /\ StoredAudit(agg) \in Seq(Rows!Records)
        /\ agg.audit = Nil => StoredAudit(agg) = << >>
    BY <1>1, AuditIsEncoded, EmptySeq DEF Rows!List
  <2>2. Rows!Ordered(r.audit) = StoredAudit(agg) /\ (DOMAIN r.audit = {} <=> StoredAudit(agg) = << >>)
    BY <2>1, OrderedIsAll DEF AreRowsOf
  <2> QED
    BY <1>3, <2>1, <2>2 DEF Rows!Slice
<1>6. Rows!Bytes(Rows!Nullable(agg.data)) = agg.data
  BY DEF Rows!Bytes, Rows!Nullable, Rows!Null
<1> QED
  BY <1>1, <1>2, <1>3, <1>4, <1>5, <1>6, DefinitionIsDecoded DEF Rows!Assembled

\* The rows of decoded payloads are the rows there were.
LEMMA EncodedAgain ==
  ASSUME NEW agg, Rows!IsAggregate(agg)
  PROVE  /\ Rows!Each(Rows!StoredTask, StoredTasks(agg)) = StoredTasks(agg)
         /\ Rows!Each(Rows!StoredRecord, StoredAudit(agg)) = StoredAudit(agg)
<1>1. /\ agg.tasks \in {Nil} \union Seq(Rows!Tasks) /\ agg.audit \in {Nil} \union Seq(Rows!Records)
      /\ Nil \notin Seq(Rows!Tasks) /\ Nil \notin Seq(Rows!Records)
  BY ConversionsAssumption DEF Rows!IsAggregate, Rows!RowsAreOfAggregates
<1>2. Rows!Each(Rows!StoredTask, StoredTasks(agg)) = StoredTasks(agg)
  <2> DEFINE list == Rows!List(agg.tasks)
             rows == StoredTasks(agg)
  <2>1. /\ rows \in Seq(Rows!Tasks) /\ DOMAIN rows = 1 .. Len(list)
        /\ \A i \in 1 .. Len(list) : list[i] \in Rows!Tasks /\ rows[i] = Rows!StoredTask(list[i])
    BY <1>1, TasksAreEncoded, LenProperties
  <2>2. \A t \in Rows!Tasks : Rows!StoredTask(Rows!StoredTask(t)) = Rows!StoredTask(t)
    BY TextIsText DEF Rows!Tasks, Rows!StoredTask, Rows!Task
  <2>3. Rows!List(rows) = rows
    BY <1>1, <2>1 DEF Rows!List
  <2> HIDE DEF list, rows
  <2>4. \A i \in DOMAIN rows : Rows!StoredTask(rows[i]) = rows[i]
    BY <2>1, <2>2
  <2>5. [i \in DOMAIN rows |-> Rows!StoredTask(rows[i])] = [i \in DOMAIN rows |-> rows[i]]
    BY <2>4
  <2>6. rows = [i \in DOMAIN rows |-> rows[i]]
    BY <2>1, LenProperties
  <2>7. Rows!Each(Rows!StoredTask, rows) = rows
    BY <2>3, <2>5, <2>6 DEF Rows!Each
  <2> QED BY <2>7 DEF rows
<1>3. Rows!Each(Rows!StoredRecord, StoredAudit(agg)) = StoredAudit(agg)
  <2> DEFINE list == Rows!List(agg.audit)
             rows == StoredAudit(agg)
  <2>1. /\ rows \in Seq(Rows!Records) /\ DOMAIN rows = 1 .. Len(list)
        /\ \A i \in 1 .. Len(list) : list[i] \in Rows!Records /\ rows[i] = Rows!StoredRecord(list[i])
    BY <1>1, AuditIsEncoded, LenProperties
  <2>2. \A t \in Rows!Records : Rows!StoredRecord(Rows!StoredRecord(t)) = Rows!StoredRecord(t)
    BY TextIsText DEF Rows!Records, Rows!StoredRecord, Rows!Record
  <2>3. Rows!List(rows) = rows
    BY <1>1, <2>1 DEF Rows!List
  <2> HIDE DEF list, rows
  <2>4. \A i \in DOMAIN rows : Rows!StoredRecord(rows[i]) = rows[i]
    BY <2>1, <2>2
  <2>5. [i \in DOMAIN rows |-> Rows!StoredRecord(rows[i])] = [i \in DOMAIN rows |-> rows[i]]
    BY <2>4
  <2>6. rows = [i \in DOMAIN rows |-> rows[i]]
    BY <2>1, LenProperties
  <2>7. Rows!Each(Rows!StoredRecord, rows) = rows
    BY <2>3, <2>5, <2>6 DEF Rows!Each
  <2> QED BY <2>7 DEF rows
<1> QED
  BY <1>2, <1>3

\* A stored aggregate meets the schema by its rows as by itself.
LEMMA RowsAreWithinBounds ==
  ASSUME NEW agg, Rows!IsAggregate(agg)
  PROVE  /\ Rows!Columns(agg) \intersect Long = {} <=> Rows!Measured(agg) \intersect Long = {}
         /\ Rows!NonEmpty(agg) <=> /\ \A i \in DOMAIN StoredTasks(agg) : StoredTasks(agg)[i].id # Blank
                                   /\ \A i \in DOMAIN StoredAudit(agg) : StoredAudit(agg)[i].action # Blank
<1> DEFINE tasks == Rows!List(agg.tasks)
           audit == Rows!List(agg.audit)
<1>1. /\ agg.tasks \in {Nil} \union Seq(Rows!Tasks) /\ agg.audit \in {Nil} \union Seq(Rows!Records)
      /\ Nil \notin Seq(Rows!Tasks) /\ Nil \notin Seq(Rows!Records)
  BY ConversionsAssumption DEF Rows!IsAggregate, Rows!RowsAreOfAggregates
<1>2. /\ StoredTasks(agg) \in Seq(Rows!Tasks)
      /\ DOMAIN StoredTasks(agg) = 1 .. Len(tasks) /\ DOMAIN tasks = 1 .. Len(tasks)
      /\ \A i \in 1 .. Len(tasks) : tasks[i] \in Rows!Tasks /\ StoredTasks(agg)[i] = Rows!StoredTask(tasks[i])
  BY <1>1, TasksAreEncoded, LenProperties
<1>3. /\ StoredAudit(agg) \in Seq(Rows!Records)
      /\ DOMAIN StoredAudit(agg) = 1 .. Len(audit) /\ DOMAIN audit = 1 .. Len(audit)
      /\ \A i \in 1 .. Len(audit) : audit[i] \in Rows!Records /\ StoredAudit(agg)[i] = Rows!StoredRecord(audit[i])
  BY <1>1, AuditIsEncoded, LenProperties
<1>4. /\ Rows!List(StoredTasks(agg)) = StoredTasks(agg)
      /\ Rows!List(StoredAudit(agg)) = StoredAudit(agg)
  BY <1>1, <1>2, <1>3 DEF Rows!List
<1>5. \A i \in 1 .. Len(tasks) :
         /\ (StoredTasks(agg)[i].id = Blank) <=> (tasks[i].id = Blank)
         /\ (StoredTasks(agg)[i].id \in Long) <=> (tasks[i].id \in Long)
  BY <1>2, TextIsText DEF Rows!Tasks, Rows!StoredTask, Rows!Task
<1>6. \A i \in 1 .. Len(audit) :
         /\ (StoredAudit(agg)[i].action = Blank) <=> (audit[i].action = Blank)
         /\ (StoredAudit(agg)[i].action \in Long) <=> (audit[i].action \in Long)
  BY <1>3, TextIsText DEF Rows!Records, Rows!StoredRecord, Rows!Record
<1>7. /\ Rows!Columns(agg) = {agg.initiator} \union {StoredTasks(agg)[i].id : i \in 1 .. Len(tasks)}
                             \union {StoredAudit(agg)[i].action : i \in 1 .. Len(audit)}
      /\ Rows!Measured(agg) = {agg.initiator} \union {tasks[i].id : i \in 1 .. Len(tasks)}
                              \union {audit[i].action : i \in 1 .. Len(audit)}
  BY <1>2, <1>3, <1>4 DEF Rows!Columns, Rows!Measured, Rows!Ids, Rows!Actions, Rows!ToSet,
                          StoredTasks, StoredAudit
<1>8. Rows!NonEmpty(agg) <=> /\ \A i \in 1 .. Len(tasks) : tasks[i].id # Blank
                            /\ \A i \in 1 .. Len(audit) : audit[i].action # Blank
  BY <1>2, <1>3 DEF Rows!NonEmpty
<1> HIDE DEF tasks, audit
<1>9. Rows!Columns(agg) \intersect Long = {} <=> Rows!Measured(agg) \intersect Long = {}
  <2>1. Rows!Columns(agg) \intersect Long = {} <=>
          /\ agg.initiator \notin Long
          /\ \A i \in 1 .. Len(tasks) : StoredTasks(agg)[i].id \notin Long
          /\ \A i \in 1 .. Len(audit) : StoredAudit(agg)[i].action \notin Long
    BY <1>7
  <2>2. Rows!Measured(agg) \intersect Long = {} <=>
          /\ agg.initiator \notin Long
          /\ \A i \in 1 .. Len(tasks) : tasks[i].id \notin Long
          /\ \A i \in 1 .. Len(audit) : audit[i].action \notin Long
    BY <1>7
  <2> QED
    BY <2>1, <2>2, <1>5, <1>6
<1>10. Rows!NonEmpty(agg) <=> /\ \A i \in DOMAIN StoredTasks(agg) : StoredTasks(agg)[i].id # Blank
                             /\ \A i \in DOMAIN StoredAudit(agg) : StoredAudit(agg)[i].action # Blank
  BY <1>2, <1>3, <1>5, <1>6, <1>8
<1> QED
  BY <1>9, <1>10

\* A durable aggregate is an aggregate, with the columns it was saved with.
LEMMA DurableIsAnAggregate ==
  ASSUME NEW agg, IsStored(agg)
  PROVE  LET durable == Rows!Durable(agg) IN
         /\ Rows!IsAggregate(durable) /\ durable.version = agg.version
         /\ Rows!List(durable.audit) = StoredAudit(agg)
         /\ Rows!Columns(durable) = Rows!Columns(agg)
         /\ Rows!NonEmpty(durable) <=> Rows!NonEmpty(agg)
         /\ Rows!IsInjective(Rows!Ids(durable.tasks))
<1> DEFINE durable == Rows!Durable(agg)
<1>1. Rows!IsAggregate(agg)
  BY DEF IsStored
<1>2. durable =
        [initiator |-> agg.initiator, nodes |-> agg.nodes, data |-> agg.data,
         tasks |-> IF agg.tasks = Nil THEN Nil ELSE StoredTasks(agg),
         audit |-> IF agg.audit = Nil THEN Nil ELSE StoredAudit(agg), version |-> agg.version]
  BY DurableIsARecord
<1>3. /\ durable.initiator = agg.initiator /\ durable.nodes = agg.nodes
      /\ durable.data = agg.data /\ durable.version = agg.version
      /\ durable.tasks = IF agg.tasks = Nil THEN Nil ELSE StoredTasks(agg)
      /\ durable.audit = IF agg.audit = Nil THEN Nil ELSE StoredAudit(agg)
      /\ durable = [initiator |-> durable.initiator, nodes |-> durable.nodes, data |-> durable.data,
                    tasks |-> durable.tasks, audit |-> durable.audit, version |-> durable.version]
  BY <1>2
<1>4. /\ agg.tasks \in {Nil} \union Seq(Rows!Tasks) /\ agg.audit \in {Nil} \union Seq(Rows!Records)
      /\ Nil \notin Seq(Rows!Tasks) /\ Nil \notin Seq(Rows!Records)
  BY <1>1, ConversionsAssumption DEF Rows!IsAggregate, Rows!RowsAreOfAggregates
<1>5. /\ durable.tasks \in {Nil} \union Seq(Rows!Tasks)
      /\ Rows!List(durable.tasks) = StoredTasks(agg)
  BY <1>3, <1>4, TasksAreEncoded, EmptySeq DEF Rows!List
<1>6. /\ durable.audit \in {Nil} \union Seq(Rows!Records)
      /\ Rows!List(durable.audit) = StoredAudit(agg)
  BY <1>3, <1>4, AuditIsEncoded, EmptySeq DEF Rows!List
<1>7. Rows!IsAggregate(durable)
  <2> HIDE DEF durable
  <2> QED BY <1>1, <1>3, <1>5, <1>6 DEF Rows!IsAggregate
<1>8. /\ StoredTasks(durable) = StoredTasks(agg) /\ StoredAudit(durable) = StoredAudit(agg)
      /\ Rows!List(StoredTasks(agg)) = StoredTasks(agg) /\ Rows!List(StoredAudit(agg)) = StoredAudit(agg)
  <2>1. /\ StoredTasks(agg) \in Seq(Rows!Tasks) /\ StoredAudit(agg) \in Seq(Rows!Records)
    BY <1>4, TasksAreEncoded, AuditIsEncoded
  <2>2. Rows!List(StoredTasks(agg)) = StoredTasks(agg) /\ Rows!List(StoredAudit(agg)) = StoredAudit(agg)
    BY <1>4, <2>1 DEF Rows!List
  <2> HIDE DEF durable
  <2>3. /\ StoredTasks(durable) = Rows!Each(Rows!StoredTask, StoredTasks(agg))
        /\ StoredAudit(durable) = Rows!Each(Rows!StoredRecord, StoredAudit(agg))
    BY <1>5, <1>6, <2>2 DEF StoredTasks, StoredAudit, Rows!Each
  <2> QED
    BY <1>1, <2>2, <2>3, EncodedAgain
<1> HIDE DEF durable
<1>9. Rows!Columns(durable) = Rows!Columns(agg)
  BY <1>3, <1>8 DEF Rows!Columns, StoredTasks, StoredAudit
<1>10. Rows!NonEmpty(durable) <=> Rows!NonEmpty(agg)
  BY <1>1, <1>7, <1>8, RowsAreWithinBounds
<1>11. Rows!IsInjective(Rows!Ids(durable.tasks))
  <2>1. Rows!IsInjective(Rows!Ids(StoredTasks(agg)))
    BY DEF IsStored, Rows!Refused, StoredTasks
  <2>2. Rows!Ids(durable.tasks) = Rows!Ids(StoredTasks(agg))
    BY <1>5, <1>8 DEF Rows!Ids
  <2> QED BY <2>1, <2>2
<1> QED
  BY <1>3, <1>6, <1>7, <1>9, <1>10, <1>11 DEF durable

-----------------------------------------------------------------------------
(* What the statements of a transaction do to the rows. *)

\* A prefix of the records becomes a prefix of the rows.
LEMMA PrefixOfRecords ==
  ASSUME NEW s \in Seq(Rows!Records), NEW t \in Seq(Rows!Records)
  PROVE  Rows!IsPrefix(s, t) <=> /\ Len(s) <= Len(t)
                                 /\ \A i \in 1 .. Len(s) : t[i] = s[i]
<1>1. SubSeq(s, 1, Len(s)) = s
  BY SubSeqFull
<1>2. CASE Len(s) <= Len(t)
  <2>1. /\ SubSeq(t, 1, Len(s)) \in Seq(Rows!Records)
        /\ Len(SubSeq(t, 1, Len(s))) = Len(s)
        /\ \A i \in 1 .. Len(s) : SubSeq(t, 1, Len(s))[i] = t[i]
    BY <1>2
  <2>2. (\A i \in 1 .. Len(s) : t[i] = s[i]) => SubSeq(t, 1, Len(s)) = s
    BY <2>1, SeqEqual
  <2> QED
    BY <1>1, <1>2, <2>1, <2>2 DEF Rows!IsPrefix
<1>3. CASE ~(Len(s) <= Len(t))
  BY <1>3 DEF Rows!IsPrefix
<1> QED
  BY <1>2, <1>3

\* The durable rows are the first of what the suffix is added to.
LEMMA HistoryIsAPrefix ==
  ASSUME NEW old, Rows!IsAggregate(old), NEW agg, Rows!IsAggregate(agg),
         NEW rows, HoldsFirst(rows, StoredAudit(old), Len(StoredAudit(old))),
         Rows!IsPrefix(StoredAudit(old), Rows!List(agg.audit))
  PROVE  HoldsFirst(rows, StoredAudit(agg), Cardinality(DOMAIN rows))
<1> DEFINE before == StoredAudit(old)
           list == Rows!List(agg.audit)
<1>1. /\ before \in Seq(Rows!Records) /\ Len(before) \in Nat
      /\ \A i \in 1 .. Len(before) : \E r \in Rows!Records : before[i] = Rows!StoredRecord(r)
  BY AuditIsEncoded DEF Rows!IsAggregate
<1>2. /\ list \in Seq(Rows!Records) /\ Len(list) \in Nat
      /\ Len(StoredAudit(agg)) = Len(list)
      /\ \A i \in 1 .. Len(list) : StoredAudit(agg)[i] = Rows!StoredRecord(list[i])
  BY AuditIsEncoded DEF Rows!IsAggregate
<1>3. Len(before) <= Len(list) /\ \A i \in 1 .. Len(before) : list[i] = before[i]
  BY <1>1, <1>2, PrefixOfRecords
<1>4. \A r \in Rows!Records : Rows!StoredRecord(Rows!StoredRecord(r)) = Rows!StoredRecord(r)
  BY TextIsText DEF Rows!Records, Rows!StoredRecord, Rows!Record
<1>5. \A i \in 1 .. Len(before) : StoredAudit(agg)[i] = before[i]
  <2> TAKE i \in 1 .. Len(before)
  <2>1. i \in 1 .. Len(list) /\ list[i] = before[i]
    BY <1>1, <1>2, <1>3
  <2>2. PICK r \in Rows!Records : before[i] = Rows!StoredRecord(r)
    BY <1>1
  <2> QED
    BY <1>2, <1>4, <2>1, <2>2
<1>6. Cardinality(DOMAIN rows) = Len(before)
  BY <1>1, OrderedIsThePayloads
<1> HIDE DEF before, list
<1>7. /\ DOMAIN rows = 0 .. Len(before) - 1
      /\ \A i \in 0 .. Len(before) - 1 : rows[i] = before[i + 1]
  BY DEF HoldsFirst, before
<1>8. \A i \in 0 .. Len(before) - 1 : i + 1 \in 1 .. Len(before)
  BY <1>1
<1>9. \A i \in 0 .. Len(before) - 1 : rows[i] = StoredAudit(agg)[i + 1]
  BY <1>5, <1>7, <1>8
<1>10. Len(before) \in 0 .. Len(StoredAudit(agg))
  BY <1>1, <1>2, <1>3
<1>11. HoldsFirst(rows, StoredAudit(agg), Len(before))
  BY <1>7, <1>9, <1>10 DEF HoldsFirst
<1> QED
  BY <1>6, <1>11

\* A statement takes the payloads that come next, a batch of them or all.
LEMMA StatementTakesTheNext ==
  ASSUME NEW S, NEW payloads \in Seq(S), written \in 0 .. Len(payloads)
  PROVE  LET rows == Rows!Statement(payloads) IN
         /\ Len(rows) \in 0 .. Len(payloads) - written
         /\ \A i \in 1 .. Len(rows) : rows[i] = payloads[written + i]
<1> DEFINE rest == Rows!Rest(payloads)
<1>1. Len(payloads) \in Nat /\ written \in Nat
  BY LenProperties
<1>2. /\ rest \in Seq(S) /\ Len(rest) = Len(payloads) - written
      /\ \A i \in 1 .. Len(rest) : rest[i] = payloads[written + i]
  <2>1. rest = SubSeq(payloads, written + 1, Len(payloads))
    BY DEF Rows!Rest
  <2>2. \A i \in written + 1 .. Len(payloads) : payloads[i] \in S
    BY <1>1, LenProperties
  <2> HIDE DEF rest
  <2> QED
    BY <1>1, <2>1, <2>2, SubSeqProperties
<1>3. Batch \in Nat
  BY ConversionsAssumption DEF Rows!RowsAreOfAggregates
<1> HIDE DEF rest
<1>4. CASE adapter = "mysql" /\ Len(rest) > Batch
  <2>1. Rows!Statement(payloads) = SubSeq(rest, 1, Batch)
    BY <1>4 DEF Rows!Statement, rest
  <2>2. /\ Len(SubSeq(rest, 1, Batch)) = Batch
        /\ \A i \in 1 .. Batch : SubSeq(rest, 1, Batch)[i] = rest[i]
    BY <1>1, <1>2, <1>3, <1>4
  <2>3. /\ Batch \in 0 .. Len(payloads) - written
        /\ \A i \in 1 .. Batch : i \in 1 .. Len(rest)
    BY <1>1, <1>2, <1>3, <1>4
  <2>4. \A i \in 1 .. Batch : SubSeq(rest, 1, Batch)[i] = payloads[written + i]
    BY <1>2, <2>2, <2>3
  <2> QED
    BY <2>1, <2>2, <2>3, <2>4
<1>5. CASE ~(adapter = "mysql" /\ Len(rest) > Batch)
  <2>1. Rows!Statement(payloads) = rest
    BY <1>5 DEF Rows!Statement, rest
  <2> QED
    BY <1>1, <1>2, <2>1
<1> QED
  BY <1>4, <1>5

\* Inserting the next payloads makes the rows hold as many more.
LEMMA InsertContinues ==
  ASSUME NEW payloads, Len(payloads) \in Nat, NEW n, NEW table, HoldsFirst(table, payloads, n),
         NEW rows, Len(rows) \in 0 .. Len(payloads) - n,
         \A i \in 1 .. Len(rows) : rows[i] = payloads[n + i]
  PROVE  HoldsFirst(Rows!Insert(table, rows, n), payloads, n + Len(rows))
<1> DEFINE m == Len(rows)
           new == Rows!Insert(table, rows, n)
<1>1. n \in Nat /\ m \in Nat /\ n + m \in 0 .. Len(payloads)
  BY DEF HoldsFirst
<1>2. /\ DOMAIN table = 0 .. n - 1
      /\ \A i \in 0 .. n - 1 : table[i] = payloads[i + 1]
  BY DEF HoldsFirst
<1>3. new = [i \in 0 .. n + m - 1 |-> IF i >= n /\ i < n + m THEN rows[i - n + 1] ELSE table[i]]
  <2>1. 0 .. n - 1 \union n .. n + m - 1 = 0 .. n + m - 1
    BY <1>1
  <2> QED
    BY <1>2, <2>1 DEF Rows!Insert
<1> HIDE DEF m, new
<1>4. ASSUME NEW i \in 0 .. n + m - 1 PROVE new[i] = payloads[i + 1]
  <2>1. CASE i < n
    BY <1>1, <1>2, <1>3, <2>1
  <2>2. CASE ~(i < n)
    <3>1. i - n + 1 \in 1 .. m /\ n + (i - n + 1) = i + 1
      BY <1>1, <2>2
    <3>2. rows[i - n + 1] = payloads[i + 1]
      BY <3>1 DEF m
    <3> QED
      BY <1>1, <1>3, <2>2, <3>2
  <2> QED
    BY <2>1, <2>2
<1>5. DOMAIN new = 0 .. n + m - 1
  BY <1>3
<1> QED
  BY <1>1, <1>4, <1>5 DEF HoldsFirst, m, new

\* An empty table holds the first none of any list.
LEMMA NoRowsAreHeld ==
  ASSUME NEW payloads, Len(payloads) \in Nat
  PROVE  HoldsFirst(Rows!NoRows, payloads, 0)
BY DEF HoldsFirst, Rows!NoRows

-----------------------------------------------------------------------------
(* The steps. *)

\* What the checks of an adapter say does not depend on the state.
LEMMA ChecksStay ==
  ASSUME adapter' = adapter
  PROVE  /\ \A agg : Rows!Storable(agg)' <=> Rows!Storable(agg)
         /\ \A agg : IsStored(agg)' <=> IsStored(agg)
<1>1. \A agg : Rows!Storable(agg)' <=> Rows!Storable(agg)
  BY DEF Rows!Storable
<1>2. \A agg : Rows!Refused(agg)' <=> Rows!Refused(agg)
  BY DEF Rows!Refused, Rows!ProjectedColumns
<1> QED
  BY <1>1, <1>2 DEF IsStored

\* What a step that commits nothing and loads nothing leaves as it is.
LEMMA CommittedStays ==
  ASSUME UNCHANGED <<adapter, db, kept, loaded>>
  PROVE  /\ DbInv => DbInv'
         /\ LoadedInv => LoadedInv'
BY ChecksStay DEF DbInv, LoadedInv

\* A step that leaves the call and the loaded aggregate alone.
LEMMA CallStays ==
  ASSUME UNCHANGED <<db, call, loaded>>
  PROVE  \A agg : IsCallFor(agg)' <=> IsCallFor(agg)
BY DEF IsCallFor

\* The invariant holds of an empty database.
LEMMA RowsBegin ==
  Rows!Init => RowsInv
BY DEF Rows!Init, Rows!Adapters, RowsInv, DbInv, LoadedInv, IsRows, Rows!Absent, Rows!NoFalseRewrite, Writing

\* The call ends and leaves the rows alone.
LEMMA AnswerKeeps ==
  ASSUME RowsInv, UNCHANGED <<adapter, db, call, loaded, kept>>,
         NEW word, Rows!Answer(word), word = "rewrite" => ~call.extends
  PROVE  RowsInv'
<1>1. answer' = word /\ pc' = "idle" /\ auditOffset' = 0 /\ written' = 0
  BY DEF Rows!Answer
<1>2. Rows!NoFalseRewrite'
  BY <1>1 DEF Rows!NoFalseRewrite
<1> QED
  BY <1>1, <1>2, CommittedStays DEF RowsInv, Writing

\* A create call begins.
LEMMA CreateKeeps ==
  ASSUME RowsInv, Rows!CallCreate, adapter' = adapter
  PROVE  RowsInv'
<1>1. PICK agg \in Fresh : candidate' = agg
  BY DEF Rows!CallCreate
<1>2. /\ pc = "idle" /\ ~db.exists /\ pc' = "encode" /\ answer' = "none"
      /\ call' = [op |-> "create", expected |-> 0, extends |-> TRUE]
      /\ UNCHANGED <<db, kept, loaded, auditOffset, written>>
  BY DEF Rows!CallCreate
<1>3. IsCallFor(candidate)'
  BY <1>1, <1>2, ConversionsAssumption DEF Rows!RowsAreOfAggregates, IsCallFor
<1>4. Rows!NoFalseRewrite'
  BY <1>2 DEF Rows!NoFalseRewrite
<1> QED
  BY <1>2, <1>3, <1>4, CommittedStays DEF RowsInv, Writing

\* A save call begins, with what its caller made of the loaded aggregate.
LEMMA SaveKeeps ==
  ASSUME RowsInv, Rows!CallSave, adapter' = adapter
  PROVE  RowsInv'
<1> DEFINE histories == {Rows!List(loaded.audit), << >>, Rows!Each(Rows!Retold, loaded.audit)}
<1>1. /\ pc = "idle" /\ loaded # Nil
      /\ pc' = "encode" /\ answer' = "none" /\ UNCHANGED <<db, kept, loaded, auditOffset, written>>
      /\ call' = [op |-> "save", expected |-> loaded.version,
                  extends |-> Rows!IsPrefix(Rows!List(loaded.audit), Rows!List(candidate'.audit))]
  BY DEF Rows!CallSave
<1>2. PICK tasks \in TaskLists, bytes \in Payloads, extension \in Extensions, history \in histories :
        candidate' = Rows!Changed(tasks, bytes, history \o extension)
  BY DEF Rows!CallSave, Rows!Each
<1>3. /\ Rows!IsAggregate(loaded) /\ loaded.audit \in {Nil} \union Seq(Rows!Records)
      /\ tasks \in {Nil} \union Seq(Rows!Tasks) /\ extension \in Seq(Rows!Records)
  BY <1>1, ConversionsAssumption DEF RowsInv, LoadedInv, Rows!IsAggregate, Rows!RowsAreOfAggregates
<1>4. history \in Seq(Rows!Records)
  <2> DEFINE list == Rows!List(loaded.audit)
  <2>1. list \in Seq(Rows!Records) /\ Len(list) \in Nat /\ DOMAIN list = 1 .. Len(list)
        /\ \A i \in 1 .. Len(list) : list[i] \in Rows!Records
    BY <1>3, AuditIsEncoded
  <2>2. \A r \in Rows!Records : Rows!Retold(r) \in Rows!Records
    BY ConversionsAssumption DEF Rows!Records, Rows!Retold, Rows!RowsAreOfAggregates
  <2>3. Rows!Each(Rows!Retold, loaded.audit) = [i \in DOMAIN list |-> Rows!Retold(list[i])]
    BY DEF Rows!Each
  <2>4. << >> \in Seq(Rows!Records)
    BY EmptySeq
  <2>5. [i \in DOMAIN list |-> Rows!Retold(list[i])] \in Seq(Rows!Records)
    <3> HIDE DEF list
    <3> QED BY <2>1, <2>2, SeqDef
  <2> QED
    BY <2>1, <2>3, <2>4, <2>5
<1>5. DEFINE audit == IF history \o extension = << >> THEN loaded.audit ELSE history \o extension
<1>6. audit \in {Nil} \union Seq(Rows!Records)
  BY <1>3, <1>4, ConcatProperties
<1> HIDE DEF audit
<1>7. candidate' = [loaded EXCEPT !.tasks = tasks, !.data = bytes, !.version = loaded.version + 1, !.audit = audit]
  BY <1>2 DEF audit, Rows!Changed
<1>8. candidate' = [initiator |-> loaded.initiator, nodes |-> loaded.nodes, data |-> bytes,
                    tasks |-> tasks, audit |-> audit, version |-> loaded.version + 1]
  BY <1>3, <1>7 DEF Rows!IsAggregate
<1>9. IsCallFor(candidate)'
  BY <1>1, <1>3, <1>6, <1>8 DEF IsCallFor, Rows!IsAggregate
<1>10. Rows!NoFalseRewrite'
  BY <1>1 DEF Rows!NoFalseRewrite
<1> QED
  BY <1>1, <1>9, <1>10, CommittedStays DEF RowsInv, Writing

\* The candidate is encoded, or the call is refused.
LEMMA EncodeKeeps ==
  ASSUME RowsInv, Rows!Encode, adapter' = adapter
  PROVE  RowsInv'
<1>1. pc = "encode" /\ UNCHANGED <<db, call, loaded, kept>> /\ IsCallFor(candidate)
  BY DEF Rows!Encode, RowsInv
<1>2. CASE Rows!Storable(candidate)
  <2>1. /\ pc' = "parent" /\ snapshot' = Rows!EncodeSnapshot(candidate) /\ tx' = db
        /\ UNCHANGED <<auditOffset, written, answer>>
    BY <1>2 DEF Rows!Encode
  <2>2. snapshot'.aggregate = candidate
    BY <2>1 DEF Rows!EncodeSnapshot
  <2>3. TxInv'
    BY <1>1, <1>2, <2>1, <2>2, ChecksStay, CallStays DEF TxInv, RowsInv, DbInv, IsRows
  <2>4. Rows!NoFalseRewrite'
    BY <1>1, <2>1 DEF Rows!NoFalseRewrite, RowsInv
  <2> QED
    BY <1>1, <2>1, <2>3, <2>4, CommittedStays DEF RowsInv, Writing
<1>3. CASE ~Rows!Storable(candidate)
  BY <1>1, <1>3, AnswerKeeps DEF Rows!Encode
<1> QED
  BY <1>2, <1>3

\* The caller changes the aggregate that it passed.
LEMMA ScribbleKeeps ==
  ASSUME RowsInv, Rows!Scribble, adapter' = adapter
  PROVE  RowsInv'
<1>1. UNCHANGED <<db, tx, call, snapshot, auditOffset, written, pc, answer, loaded, kept>> /\ pc # "encode"
  BY DEF Rows!Scribble
<1>2. TxInv => TxInv'
  BY <1>1, ChecksStay, CallStays DEF TxInv
<1>3. Rows!NoFalseRewrite'
  BY <1>1 DEF Rows!NoFalseRewrite, RowsInv
<1> QED
  BY <1>1, <1>2, <1>3, CommittedStays DEF RowsInv

\* The fields of the snapshot that the statements read.
LEMMA SnapshotFields ==
  ASSUME TxInv
  PROVE  LET agg == snapshot.aggregate IN
         /\ Rows!ParentArguments = ParentOf(agg)
         /\ snapshot.tasks = StoredTasks(agg) /\ snapshot.audit = StoredAudit(agg)
         /\ snapshot.tasks \in Seq(Rows!Tasks) /\ snapshot.audit \in Seq(Rows!Records)
         /\ Rows!IsAggregate(agg)
<1> DEFINE agg == snapshot.aggregate
<1>1. snapshot = Rows!EncodeSnapshot(agg) /\ Rows!IsAggregate(agg)
  BY DEF TxInv, IsCallFor
<1>2. Rows!EncodeSnapshot(agg) =
  [aggregate |-> agg,
   initiator |-> agg.initiator, definition |-> Rows!EncodeDefinition(agg.nodes), data |-> Rows!Nullable(agg.data),
   tasksNil |-> agg.tasks = Nil, auditNil |-> agg.audit = Nil, version |-> agg.version,
   tasks |-> StoredTasks(agg), audit |-> StoredAudit(agg)]
  BY DEF Rows!EncodeSnapshot, StoredTasks, StoredAudit, Rows!Each
<1>3. StoredTasks(agg) \in Seq(Rows!Tasks) /\ StoredAudit(agg) \in Seq(Rows!Records)
  BY <1>1, TasksAreEncoded, AuditIsEncoded DEF Rows!IsAggregate
<1> HIDE DEF agg
<1>4. /\ snapshot.tasks = StoredTasks(agg) /\ snapshot.audit = StoredAudit(agg)
      /\ snapshot.initiator = agg.initiator /\ snapshot.definition = Rows!EncodeDefinition(agg.nodes)
      /\ snapshot.data = Rows!Nullable(agg.data) /\ snapshot.tasksNil = (agg.tasks = Nil)
      /\ snapshot.auditNil = (agg.audit = Nil) /\ snapshot.version = agg.version
  BY <1>1, <1>2
<1> QED
  BY <1>1, <1>3, <1>4 DEF agg, Rows!ParentArguments, ParentOf

\* A save finds the version it expects only where nothing was saved since its load.
LEMMA ParentKeeps ==
  ASSUME RowsInv, Rows!WriteParent, adapter' = adapter
  PROVE  RowsInv'
<1> DEFINE agg == snapshot.aggregate
<1>1. pc = "parent" /\ UNCHANGED <<db, call, loaded, kept>> /\ TxInv
  BY DEF Rows!WriteParent, RowsInv, Writing
<1>2. CASE call.op = "save" /\ tx.parent.version # call.expected
  BY <1>1, <1>2, AnswerKeeps DEF Rows!WriteParent
<1>3. CASE ~(call.op = "save" /\ tx.parent.version # call.expected)
  <2>1. /\ tx' = [tx EXCEPT !.exists = TRUE, !.parent = Rows!ParentArguments]
        /\ pc' = IF call.op = "save" THEN "history" ELSE "tasks"
        /\ UNCHANGED <<snapshot, auditOffset, written, answer>>
    BY <1>3 DEF Rows!WriteParent
  <2>2. /\ tx = db /\ IsRows(tx) /\ written = 0 /\ auditOffset = 0
        /\ Rows!ParentArguments = ParentOf(agg)
    BY <1>1, SnapshotFields DEF TxInv
  <2>3. /\ tx'.exists /\ tx'.parent = ParentOf(agg) /\ tx'.tasks = db.tasks /\ tx'.audit = db.audit
        /\ IsRows(tx')
    BY <2>1, <2>2 DEF IsRows
  <2>4. call.op = "save" => loaded.version = kept.version
    <3> SUFFICES ASSUME call.op = "save" PROVE loaded.version = kept.version
      OBVIOUS
    <3>1. loaded # Nil /\ call.expected = loaded.version
      BY <1>1 DEF TxInv, IsCallFor
    <3>2. db.exists /\ AreRowsOf(db, kept)
      BY <3>1 DEF RowsInv, LoadedInv, DbInv
    <3>3. db.parent.version = kept.version
      BY <3>2 DEF AreRowsOf, ParentOf
    <3> QED
      BY <1>3, <2>2, <3>1, <3>3
  <2>5. CASE call.op = "save"
    <3>1. TxInv'
      BY <1>1, <2>1, <2>2, <2>3, <2>4, <2>5, ChecksStay, CallStays DEF TxInv, IsRows
    <3>2. Rows!NoFalseRewrite'
      BY <1>1, <2>1 DEF Rows!NoFalseRewrite, RowsInv
    <3> QED
      BY <1>1, <2>1, <2>5, <3>1, <3>2, CommittedStays DEF RowsInv, Writing
  <2>6. CASE call.op # "save"
    <3>1. db = Rows!Absent
      BY <1>1, <2>6 DEF TxInv, IsCallFor, RowsInv, DbInv
    <3>2. tx'.tasks = Rows!NoRows /\ tx'.audit = Rows!NoRows
      BY <2>3, <3>1 DEF Rows!Absent
    <3>3. HoldsFirst(tx'.tasks, StoredTasks(agg), 0) /\ HoldsFirst(tx'.audit, StoredAudit(agg), 0)
      BY <1>1, <3>2, SnapshotFields, NoRowsAreHeld, LenProperties
    <3>4. TxInv'
      BY <1>1, <2>1, <2>2, <2>3, <2>6, <3>3, ChecksStay, CallStays DEF TxInv, IsRows
    <3>5. Rows!NoFalseRewrite'
      BY <1>1, <2>1 DEF Rows!NoFalseRewrite, RowsInv
    <3> QED
      BY <1>1, <2>1, <2>6, <3>4, <3>5, CommittedStays DEF RowsInv, Writing
  <2> QED BY <2>5, <2>6
<1> QED
  BY <1>2, <1>3

\* The history is compared with that of the version that was loaded.
LEMMA HistoryKeeps ==
  ASSUME RowsInv, Rows!ReplaceCollections, adapter' = adapter
  PROVE  RowsInv'
<1> DEFINE agg == snapshot.aggregate
           durable == Rows!Ordered(tx.audit)
<1>1. /\ pc = "history" /\ UNCHANGED <<db, call, loaded, kept>> /\ TxInv
      /\ call.op = "save" /\ loaded.version = kept.version /\ loaded # Nil
  BY DEF Rows!ReplaceCollections, RowsInv, Writing, TxInv, IsCallFor
<1>2. /\ Rows!IsAggregate(agg) /\ IsStored(kept) /\ AreRowsOf(db, kept) /\ tx.audit = db.audit
      /\ Rows!List(loaded.audit) = StoredAudit(kept)
      /\ call.extends = Rows!IsPrefix(Rows!List(loaded.audit), Rows!List(agg.audit))
  BY <1>1, SnapshotFields DEF RowsInv, LoadedInv, DbInv, TxInv, IsCallFor
<1>3. /\ StoredAudit(kept) \in Seq(Rows!Records)
      /\ HoldsFirst(tx.audit, StoredAudit(kept), Len(StoredAudit(kept)))
  BY <1>2, AuditIsEncoded DEF IsStored, Rows!IsAggregate, AreRowsOf
<1>4. durable = StoredAudit(kept)
  BY <1>3, OrderedIsAll
<1>5. Rows!List(agg.audit) \in Seq(Rows!Records)
  BY <1>2, AuditIsEncoded DEF Rows!IsAggregate
<1>6. CASE Rows!Rewrites(durable, Rows!List(agg.audit))
  <2>1. ~Rows!IsPrefix(durable, Rows!List(agg.audit))
    BY <1>3, <1>4, <1>5, <1>6, PrefixOfRecords, LenProperties DEF Rows!Rewrites
  <2>2. ~call.extends
    BY <1>2, <1>4, <2>1
  <2> QED
    BY <1>1, <1>6, <2>2, AnswerKeeps DEF Rows!ReplaceCollections
<1>7. CASE ~Rows!Rewrites(durable, Rows!List(agg.audit))
  <2>1. /\ auditOffset' = Cardinality(DOMAIN tx.audit) /\ tx' = Rows!DeleteRows(tx) /\ pc' = "tasks"
        /\ UNCHANGED <<snapshot, written, answer>>
    BY <1>7 DEF Rows!ReplaceCollections, Rows!Cardinality, Cardinality
  <2>2. HoldsFirst(tx.audit, StoredAudit(agg), auditOffset')
    BY <1>2, <1>3, <1>4, <1>7, <2>1, HistoryIsAPrefix DEF IsStored, Rows!Rewrites
  <2>3. /\ IsRows(tx) /\ tx.exists /\ tx.parent = ParentOf(agg) /\ written = 0
    BY <1>1 DEF TxInv
  <2>4. /\ IsRows(tx') /\ tx'.exists /\ tx'.parent = ParentOf(agg)
        /\ tx'.tasks = Rows!NoRows /\ tx'.audit = tx.audit
    BY <2>1, <2>3 DEF IsRows, Rows!DeleteRows
  <2>5. HoldsFirst(tx'.tasks, StoredTasks(agg), written')
    BY <1>1, <2>1, <2>3, <2>4, SnapshotFields, NoRowsAreHeld, LenProperties
  <2>6. TxInv'
    BY <1>1, <2>1, <2>2, <2>4, <2>5, ChecksStay, CallStays DEF TxInv
  <2>7. Rows!NoFalseRewrite'
    BY <1>1, <2>1 DEF Rows!NoFalseRewrite, RowsInv
  <2> QED
    BY <1>1, <2>1, <2>6, <2>7, CommittedStays DEF RowsInv, Writing
<1> QED
  BY <1>6, <1>7

\* A batch continues where the last one ended, and the audit begins after the
\* durable prefix.
LEMMA TasksKeep ==
  ASSUME RowsInv, Rows!InsertTasks, adapter' = adapter
  PROVE  RowsInv'
<1> DEFINE agg == snapshot.aggregate
           list == snapshot.tasks
           rows == Rows!Statement(list)
           done == written + Len(rows) = Len(list)
<1>1. /\ pc = "tasks" /\ UNCHANGED <<db, call, snapshot, auditOffset, answer, loaded, kept>> /\ TxInv
      /\ tx' = [tx EXCEPT !.tasks = Rows!Insert(tx.tasks, rows, written)]
      /\ pc' = IF done THEN "audit" ELSE pc
      /\ written' = IF done THEN auditOffset ELSE written + Len(rows)
  BY DEF Rows!InsertTasks, RowsInv, Writing
<1>2. /\ list = StoredTasks(agg) /\ list \in Seq(Rows!Tasks) /\ Len(list) \in Nat
      /\ IsRows(tx) /\ tx.exists /\ tx.parent = ParentOf(agg)
      /\ HoldsFirst(tx.tasks, list, written) /\ HoldsFirst(tx.audit, StoredAudit(agg), auditOffset)
  BY <1>1, SnapshotFields, LenProperties DEF TxInv
<1>3. written \in 0 .. Len(list)
  BY <1>2 DEF HoldsFirst
<1>4. /\ Len(rows) \in 0 .. Len(list) - written
      /\ \A i \in 1 .. Len(rows) : rows[i] = list[written + i]
  BY <1>2, <1>3, StatementTakesTheNext
<1> HIDE DEF rows, list
<1>5. HoldsFirst(Rows!Insert(tx.tasks, rows, written), list, written + Len(rows))
  BY <1>2, <1>4, InsertContinues
<1>6. /\ IsRows(tx') /\ tx'.exists /\ tx'.parent = ParentOf(agg) /\ tx'.audit = tx.audit
      /\ HoldsFirst(tx'.tasks, list, written + Len(rows))
  BY <1>1, <1>2, <1>5 DEF IsRows
<1>7. TxInv'
  <2>1. CASE done
    BY <1>1, <1>2, <1>6, <2>1, ChecksStay, CallStays DEF TxInv
  <2>2. CASE ~done
    BY <1>1, <1>2, <1>6, <2>2, ChecksStay, CallStays DEF TxInv
  <2> QED BY <2>1, <2>2
<1>8. Rows!NoFalseRewrite'
  BY <1>1 DEF Rows!NoFalseRewrite, RowsInv
<1> QED
  BY <1>1, <1>7, <1>8, CommittedStays DEF RowsInv, Writing

\* An audit batch continues after the durable prefix or the batch before it.
LEMMA AuditKeeps ==
  ASSUME RowsInv, Rows!InsertAudit, adapter' = adapter
  PROVE  RowsInv'
<1> DEFINE agg == snapshot.aggregate
           list == snapshot.audit
           rows == Rows!Statement(list)
           done == written + Len(rows) = Len(list)
<1>1. /\ pc = "audit" /\ UNCHANGED <<db, call, snapshot, auditOffset, answer, loaded, kept>> /\ TxInv
      /\ tx' = [tx EXCEPT !.audit = Rows!Insert(tx.audit, rows, written)]
      /\ pc' = IF done THEN "commit" ELSE pc
      /\ written' = written + Len(rows)
  BY DEF Rows!InsertAudit, RowsInv, Writing
<1>2. /\ list = StoredAudit(agg) /\ list \in Seq(Rows!Records) /\ Len(list) \in Nat
      /\ IsRows(tx) /\ tx.exists /\ tx.parent = ParentOf(agg)
      /\ HoldsFirst(tx.audit, list, written)
      /\ HoldsFirst(tx.tasks, StoredTasks(agg), Len(StoredTasks(agg)))
  BY <1>1, SnapshotFields, LenProperties DEF TxInv
<1>3. written \in 0 .. Len(list)
  BY <1>2 DEF HoldsFirst
<1>4. /\ Len(rows) \in 0 .. Len(list) - written
      /\ \A i \in 1 .. Len(rows) : rows[i] = list[written + i]
  BY <1>2, <1>3, StatementTakesTheNext
<1> HIDE DEF rows, list
<1>5. HoldsFirst(Rows!Insert(tx.audit, rows, written), list, written + Len(rows))
  BY <1>2, <1>4, InsertContinues
<1>6. /\ IsRows(tx') /\ tx'.exists /\ tx'.parent = ParentOf(agg) /\ tx'.tasks = tx.tasks
      /\ HoldsFirst(tx'.audit, list, written + Len(rows))
  BY <1>1, <1>2, <1>5 DEF IsRows
<1>7. TxInv'
  <2>1. CASE done
    BY <1>1, <1>2, <1>6, <2>1, ChecksStay, CallStays DEF TxInv
  <2>2. CASE ~done
    BY <1>1, <1>2, <1>6, <2>2, ChecksStay, CallStays DEF TxInv
  <2> QED BY <2>1, <2>2
<1>8. Rows!NoFalseRewrite'
  BY <1>1 DEF Rows!NoFalseRewrite, RowsInv
<1> QED
  BY <1>1, <1>7, <1>8, CommittedStays DEF RowsInv, Writing

\* What is committed are the rows of the aggregate that was passed.
LEMMA CommitKeeps ==
  ASSUME RowsInv, Rows!Commit, adapter' = adapter
  PROVE  RowsInv'
<1> DEFINE agg == snapshot.aggregate
<1>1. /\ pc = "commit" /\ ~Rows!Refused(agg) /\ UNCHANGED <<call, loaded>> /\ TxInv
      /\ db' = tx /\ kept' = agg
      /\ answer' = "ok" /\ pc' = "idle" /\ auditOffset' = 0 /\ written' = 0
  BY DEF Rows!Commit, Rows!Answer, RowsInv, Writing
<1>2. /\ IsRows(tx) /\ tx.exists /\ AreRowsOf(tx, agg) /\ IsStored(agg)
  BY <1>1 DEF TxInv, AreRowsOf, IsStored, IsCallFor
<1> HIDE DEF agg
<1>3. DbInv'
  BY <1>1, <1>2, ChecksStay DEF DbInv
<1>4. LoadedInv'
  <2> SUFFICES ASSUME loaded # Nil PROVE LoadedInv'
    BY <1>1 DEF LoadedInv
  <2>1. db.exists /\ Rows!IsAggregate(loaded) /\ loaded.version \in Nat
    BY DEF RowsInv, LoadedInv, Rows!IsAggregate
  <2>2. agg.version = loaded.version + 1
    BY <1>1, <2>1 DEF TxInv, IsCallFor, agg
  <2> QED
    BY <1>1, <1>2, <2>1, <2>2 DEF LoadedInv
<1>5. Rows!NoFalseRewrite'
  BY <1>1 DEF Rows!NoFalseRewrite
<1> QED
  BY <1>1, <1>3, <1>4, <1>5 DEF RowsInv, Writing

\* A load gives the aggregate of the last commit.
LEMMA LoadKeeps ==
  ASSUME RowsInv, Rows!Load, adapter' = adapter
  PROVE  RowsInv'
<1>1. /\ pc = "idle" /\ db.exists /\ loaded' = Rows!Assembled(db) /\ answer' = "none"
      /\ UNCHANGED <<db, auditOffset, written, pc, kept>>
  BY DEF Rows!Load
<1>2. IsStored(kept) /\ AreRowsOf(db, kept)
  BY <1>1 DEF RowsInv, DbInv
<1>3. loaded' = Rows!Durable(kept)
  BY <1>1, <1>2, LoadGivesTheAggregate
<1>4. /\ Rows!IsAggregate(loaded') /\ loaded'.version = kept.version /\ kept.version \in Nat
      /\ Rows!List(loaded'.audit) = StoredAudit(kept)
  BY <1>2, <1>3, DurableIsAnAggregate DEF IsStored, Rows!IsAggregate
<1>5. LoadedInv'
  BY <1>1, <1>4 DEF LoadedInv
<1>6. DbInv'
  BY <1>1, ChecksStay DEF RowsInv, DbInv
<1>7. Rows!NoFalseRewrite'
  BY <1>1 DEF Rows!NoFalseRewrite
<1> QED
  BY <1>1, <1>5, <1>6, <1>7 DEF RowsInv, Writing

\* Every step of an adapter keeps the invariant.
LEMMA RowsStep ==
  ASSUME RowsInv, Rows!Next \/ UNCHANGED Rows!vars
  PROVE  RowsInv'
<1>1. CASE UNCHANGED Rows!vars
  <2>1. UNCHANGED <<adapter, db, tx, candidate, call, snapshot, auditOffset, written, pc, answer, loaded, kept>>
    BY <1>1 DEF Rows!vars
  <2>2. TxInv => TxInv'
    BY <2>1, ChecksStay, CallStays DEF TxInv
  <2>3. Rows!NoFalseRewrite'
    BY <2>1 DEF Rows!NoFalseRewrite, RowsInv
  <2> QED
    BY <2>1, <2>2, <2>3, CommittedStays, CallStays DEF RowsInv
<1>2. ASSUME Rows!Fail, adapter' = adapter PROVE RowsInv'
  BY <1>2, AnswerKeeps DEF Rows!Fail
<1> QED
  BY <1>1, <1>2, CreateKeeps, SaveKeeps, EncodeKeeps, ScribbleKeeps, ParentKeeps, HistoryKeeps,
     TasksKeep, AuditKeeps, CommitKeeps, LoadKeeps DEF Rows!Next

\* What the invariant says of the three properties.
LEMMA RowsInvSuffices ==
  ASSUME RowsInv
  PROVE  Rows!LoadedIsWhatWasSaved /\ Rows!NoFalseRewrite /\ Rows!RowsMeetTheSchema
<1>1. Rows!NoFalseRewrite
  BY DEF RowsInv
<1> SUFFICES ASSUME db.exists PROVE Rows!LoadedIsWhatWasSaved /\ Rows!RowsMeetTheSchema
  BY <1>1 DEF Rows!LoadedIsWhatWasSaved, Rows!RowsMeetTheSchema
<1>2. IsStored(kept) /\ AreRowsOf(db, kept) /\ adapter \in {"postgres", "mysql"}
  BY DEF RowsInv, DbInv
<1>3. Rows!Assembled(db) = Rows!Durable(kept)
  BY <1>2, LoadGivesTheAggregate
<1>4. /\ Rows!Columns(Rows!Durable(kept)) = Rows!Columns(kept)
      /\ Rows!NonEmpty(Rows!Durable(kept)) <=> Rows!NonEmpty(kept)
      /\ Rows!IsInjective(Rows!Ids(Rows!Durable(kept).tasks))
  BY <1>2, DurableIsAnAggregate
<1>5. Rows!NonEmpty(kept)
  BY <1>2, ConversionsAssumption DEF IsStored, Rows!Storable, Rows!Refused, Rows!RowsAreOfAggregates
<1>6. adapter = "mysql" => Rows!Columns(kept) \intersect Long = {}
  BY <1>2, RowsAreWithinBounds DEF IsStored, Rows!Storable
<1> QED
  BY <1>3, <1>4, <1>5, <1>6 DEF Rows!LoadedIsWhatWasSaved, Rows!RowsMeetTheSchema

-----------------------------------------------------------------------------
(* The scan for lone surrogates.  Between two steps it is at the begin of a  *)
(* piece, or inside one of plain text, which it reads byte by byte.          *)

pieces == spelling.text
at == spelling.at

\* The scan is k bytes into piece i.
Place(i, k) ==
  /\ i \in 1 .. Len(pieces) + 1 /\ k \in 0 .. 4
  /\ k > 0 => i <= Len(pieces) /\ pieces[i] = "hexText"
  /\ index = at[i] + k

PairedBefore(i) ==
  \A j \in 1 .. i - 1 :
    /\ pieces[j] = "high" => j + 1 < i /\ pieces[j + 1] = "low"
    /\ pieces[j] = "low" => j > 1 /\ pieces[j - 1] = "high"

ScanningInv ==
  /\ spelling \in Spellings /\ data = spelling.data
  /\ insideString \in BOOLEAN
  /\ verdict \in {"scanning", "valid", "invalid"}
  /\ Scanning!WellFormed =>
       /\ verdict = "scanning" =>
            \E i, k \in Nat : Place(i, k) /\ PairedBefore(i) /\ (insideString <=> Scanning!InString(i))
       /\ verdict = "valid" => Scanning!Paired
       /\ verdict = "invalid" => ~Scanning!Paired

\* What the constants say of a source.
LEMMA SourceIsSpelled ==
  ASSUME spelling \in Spellings
  PROVE  /\ pieces \in Seq(DOMAIN Scanning!Pieces) /\ Len(pieces) \in Nat /\ DOMAIN pieces = 1 .. Len(pieces)
         /\ spelling.data \in Seq(Scanning!Bytes) /\ Len(spelling.data) \in Nat
         /\ \A i \in 1 .. Len(pieces) + 1 : at[i] \in 1 .. Len(spelling.data) + 1
         /\ at[1] = 1 /\ at[Len(pieces) + 1] = Len(spelling.data) + 1
         /\ \A i \in 1 .. Len(pieces) :
              /\ pieces[i] \in DOMAIN Scanning!Pieces
              /\ at[i + 1] = at[i] + Len(Scanning!Pieces[pieces[i]])
              /\ \A k \in DOMAIN Scanning!Pieces[pieces[i]] :
                   spelling.data[at[i] + k - 1] = Scanning!Pieces[pieces[i]][k]
<1>1. Scanning!IsSpelled(spelling)
  BY ConversionsAssumption DEF Scanning!SourcesAreSpelled
<1>2. pieces \in Seq(DOMAIN Scanning!Pieces) /\ spelling.data \in Seq(Scanning!Bytes) /\ at \in Seq(1 .. Len(spelling.data) + 1)
  BY <1>1 DEF Scanning!IsSpelled, pieces, at
<1>3. Len(pieces) \in Nat /\ DOMAIN pieces = 1 .. Len(pieces) /\ Len(spelling.data) \in Nat
      /\ Len(at) = Len(pieces) + 1
      /\ \A i \in 1 .. Len(pieces) : pieces[i] \in DOMAIN Scanning!Pieces
  BY <1>1, <1>2 DEF Scanning!IsSpelled, pieces, at
<1>4. \A i \in 1 .. Len(pieces) + 1 : at[i] \in 1 .. Len(spelling.data) + 1
  BY <1>2, <1>3
<1>5. at[1] = 1 /\ at[Len(pieces) + 1] = Len(spelling.data) + 1
  BY <1>1, <1>3 DEF Scanning!IsSpelled, at
<1> QED
  BY <1>1, <1>2, <1>3, <1>4, <1>5 DEF Scanning!IsSpelled, pieces, at

\* The pieces, byte by byte.
LEMMA PieceNames ==
  DOMAIN Scanning!Pieces = {"quote", "letter", "hexText", "escapedQuote", "escapedBackslash",
                            "high", "low", "other", "short"}
BY DEF Scanning!Pieces
\* Plain text, of one byte or of five.
LEMMA PlainPieces ==
  /\ Scanning!Pieces["quote"] = <<"quote">> /\ Scanning!Pieces["letter"] = <<"x">>
  /\ Scanning!Pieces["hexText"] = <<"u", "D", "eight", "zero", "zero">>
BY DEF Scanning!Pieces, Scanning!Quote
\* The escapes, of two bytes or of six.
LEMMA EscapedPieces ==
  /\ Scanning!Pieces["escapedQuote"] = <<"backslash", "quote">>
  /\ Scanning!Pieces["escapedBackslash"] = <<"backslash", "backslash">>
  /\ Scanning!Pieces["high"] = <<"backslash", "u", "D", "eight", "zero", "zero">>
  /\ Scanning!Pieces["low"] = <<"backslash", "u", "D", "C", "zero", "zero">>
  /\ Scanning!Pieces["other"] = <<"backslash", "u", "zero", "C", "zero", "zero">>
BY DEF Scanning!Pieces, Scanning!Escape, Scanning!Quote, Scanning!Backslash

\* No piece is empty, or longer than an escaped code unit.
LEMMA PiecesHaveBytes == \A piece \in DOMAIN Scanning!Pieces : Len(Scanning!Pieces[piece]) \in 1 .. 6
<1>1. Scanning!Pieces["short"] = <<"backslash", "u", "D", "eight">>
  BY DEF Scanning!Pieces, Scanning!Backslash
<1>2. \A a1, a2, a3, a4, a5, a6 :
        /\ Len(<<a1>>) = 1 /\ Len(<<a1, a2>>) = 2 /\ Len(<<a1, a2, a3, a4>>) = 4
        /\ Len(<<a1, a2, a3, a4, a5>>) = 5 /\ Len(<<a1, a2, a3, a4, a5, a6>>) = 6
  OBVIOUS
<1>3. /\ Len(Scanning!Pieces["quote"]) = 1 /\ Len(Scanning!Pieces["letter"]) = 1
      /\ Len(Scanning!Pieces["hexText"]) = 5 /\ Len(Scanning!Pieces["short"]) = 4
  BY <1>1, <1>2, PlainPieces
<1>4. /\ Len(Scanning!Pieces["escapedQuote"]) = 2 /\ Len(Scanning!Pieces["escapedBackslash"]) = 2
  BY <1>2, EscapedPieces
<1>5. /\ Len(Scanning!Pieces["high"]) = 6 /\ Len(Scanning!Pieces["low"]) = 6
      /\ Len(Scanning!Pieces["other"]) = 6
  BY <1>2, EscapedPieces
<1> QED
  BY <1>3, <1>4, <1>5, PieceNames

\* Where a piece stands in the source, and what its bytes are.
LEMMA PieceAt ==
  ASSUME spelling \in Spellings, data = spelling.data, NEW i \in 1 .. Len(pieces)
  PROVE  /\ i \in Nat /\ i + 1 \in 1 .. Len(pieces) + 1
         /\ at[i] \in Nat \ {0} /\ at[i + 1] \in Nat \ {0} /\ at[i + 1] <= Len(data) + 1
         /\ pieces[i] = "quote" => at[i + 1] = at[i] + 1 /\ data[at[i]] = "quote"
         /\ pieces[i] = "letter" => at[i + 1] = at[i] + 1 /\ data[at[i]] = "x"
         /\ pieces[i] = "hexText" =>
              /\ at[i + 1] = at[i] + 5
              /\ data[at[i]] = "u" /\ data[at[i] + 1] = "D" /\ data[at[i] + 2] = "eight"
              /\ data[at[i] + 3] = "zero" /\ data[at[i] + 4] = "zero"
         /\ pieces[i] = "escapedQuote" =>
              at[i + 1] = at[i] + 2 /\ data[at[i]] = "backslash" /\ data[at[i] + 1] = "quote"
         /\ pieces[i] = "escapedBackslash" =>
              at[i + 1] = at[i] + 2 /\ data[at[i]] = "backslash" /\ data[at[i] + 1] = "backslash"
         /\ \A d1, d2 :
              Scanning!Pieces[pieces[i]] = <<"backslash", "u", d1, d2, "zero", "zero">> =>
                /\ at[i + 1] = at[i] + 6
                /\ data[at[i]] = "backslash" /\ data[at[i] + 1] = "u"
                /\ data[at[i] + 2] = d1 /\ data[at[i] + 3] = d2
                /\ data[at[i] + 4] = "zero" /\ data[at[i] + 5] = "zero"
<1> DEFINE p == Scanning!Pieces[pieces[i]]
<1>1. /\ i \in Nat /\ i + 1 \in 1 .. Len(pieces) + 1
      /\ at[i] \in Nat \ {0} /\ at[i + 1] \in Nat \ {0} /\ at[i + 1] <= Len(data) + 1
      /\ at[i + 1] = at[i] + Len(p)
      /\ \A k \in DOMAIN p : data[at[i] + k - 1] = p[k]
  BY SourceIsSpelled
<1> HIDE DEF p
<1>2. ASSUME NEW b, p = <<b>> PROVE at[i + 1] = at[i] + 1 /\ data[at[i]] = b
  BY <1>1, <1>2
<1>3. ASSUME NEW b, NEW c, p = <<b, c>>
      PROVE  at[i + 1] = at[i] + 2 /\ data[at[i]] = b /\ data[at[i] + 1] = c
  <2>1. Len(p) = 2 /\ 1 \in DOMAIN p /\ 2 \in DOMAIN p /\ p[1] = b /\ p[2] = c
    BY <1>3
  <2>2. data[at[i] + 1 - 1] = b /\ data[at[i] + 2 - 1] = c
    BY <1>1, <2>1
  <2> QED
    BY <1>1, <2>1, <2>2
<1>4. p = <<"u", "D", "eight", "zero", "zero">> =>
        /\ at[i + 1] = at[i] + 5
        /\ data[at[i]] = "u" /\ data[at[i] + 1] = "D" /\ data[at[i] + 2] = "eight"
        /\ data[at[i] + 3] = "zero" /\ data[at[i] + 4] = "zero"
  <2> SUFFICES ASSUME p = <<"u", "D", "eight", "zero", "zero">>
               PROVE  /\ at[i + 1] = at[i] + 5
                      /\ data[at[i]] = "u" /\ data[at[i] + 1] = "D" /\ data[at[i] + 2] = "eight"
                      /\ data[at[i] + 3] = "zero" /\ data[at[i] + 4] = "zero"
    OBVIOUS
  <2>1. Len(p) = 5 /\ DOMAIN p = 1 .. 5
        /\ p[1] = "u" /\ p[2] = "D" /\ p[3] = "eight" /\ p[4] = "zero" /\ p[5] = "zero"
    OBVIOUS
  <2>2. \A k \in 1 .. 5 : data[at[i] + k - 1] = p[k]
    BY <1>1, <2>1
  <2>3. data[at[i] + 1 - 1] = p[1] /\ data[at[i] + 2 - 1] = p[2] /\ data[at[i] + 3 - 1] = p[3]
        /\ data[at[i] + 4 - 1] = p[4] /\ data[at[i] + 5 - 1] = p[5]
    BY <2>2
  <2>4. /\ at[i] + 1 - 1 = at[i] /\ at[i] + 2 - 1 = at[i] + 1 /\ at[i] + 3 - 1 = at[i] + 2
        /\ at[i] + 4 - 1 = at[i] + 3 /\ at[i] + 5 - 1 = at[i] + 4 /\ at[i + 1] = at[i] + 5
    BY <1>1, <2>1
  <2> QED
    BY <2>1, <2>3, <2>4
<1>5. ASSUME NEW d1, NEW d2, p = <<"backslash", "u", d1, d2, "zero", "zero">>
      PROVE  /\ at[i + 1] = at[i] + 6
             /\ data[at[i]] = "backslash" /\ data[at[i] + 1] = "u"
             /\ data[at[i] + 2] = d1 /\ data[at[i] + 3] = d2
             /\ data[at[i] + 4] = "zero" /\ data[at[i] + 5] = "zero"
  <2>1. Len(p) = 6 /\ DOMAIN p = 1 .. 6
        /\ p[1] = "backslash" /\ p[2] = "u" /\ p[3] = d1 /\ p[4] = d2 /\ p[5] = "zero" /\ p[6] = "zero"
    BY <1>5
  <2>2. \A k \in 1 .. 6 : data[at[i] + k - 1] = p[k]
    BY <1>1, <2>1
  <2>3. data[at[i] + 1 - 1] = p[1] /\ data[at[i] + 2 - 1] = p[2] /\ data[at[i] + 3 - 1] = p[3]
        /\ data[at[i] + 4 - 1] = p[4] /\ data[at[i] + 5 - 1] = p[5] /\ data[at[i] + 6 - 1] = p[6]
    BY <2>2
  <2>4. /\ at[i] + 1 - 1 = at[i] /\ at[i] + 2 - 1 = at[i] + 1 /\ at[i] + 3 - 1 = at[i] + 2
        /\ at[i] + 4 - 1 = at[i] + 3 /\ at[i] + 5 - 1 = at[i] + 4 /\ at[i] + 6 - 1 = at[i] + 5
        /\ at[i + 1] = at[i] + 6
    BY <1>1, <2>1
  <2> QED
    BY <2>1, <2>3, <2>4
<1>6. /\ pieces[i] = "quote" => p = <<"quote">>
      /\ pieces[i] = "letter" => p = <<"x">>
      /\ pieces[i] = "hexText" => p = <<"u", "D", "eight", "zero", "zero">>
      /\ pieces[i] = "escapedQuote" => p = <<"backslash", "quote">>
      /\ pieces[i] = "escapedBackslash" => p = <<"backslash", "backslash">>
  BY PlainPieces, EscapedPieces DEF p
<1>7. \A d1, d2 : p = <<"backslash", "u", d1, d2, "zero", "zero">> =>
        /\ at[i + 1] = at[i] + 6
        /\ data[at[i]] = "backslash" /\ data[at[i] + 1] = "u"
        /\ data[at[i] + 2] = d1 /\ data[at[i] + 3] = d2
        /\ data[at[i] + 4] = "zero" /\ data[at[i] + 5] = "zero"
  BY <1>5
<1>8. /\ pieces[i] = "quote" => at[i + 1] = at[i] + 1 /\ data[at[i]] = "quote"
      /\ pieces[i] = "letter" => at[i + 1] = at[i] + 1 /\ data[at[i]] = "x"
  BY <1>2, <1>6
<1>9. /\ pieces[i] = "escapedQuote" =>
           at[i + 1] = at[i] + 2 /\ data[at[i]] = "backslash" /\ data[at[i] + 1] = "quote"
      /\ pieces[i] = "escapedBackslash" =>
           at[i + 1] = at[i] + 2 /\ data[at[i]] = "backslash" /\ data[at[i] + 1] = "backslash"
  BY <1>3, <1>6
<1> QED
  BY <1>1, <1>4, <1>6, <1>7, <1>8, <1>9 DEF p

\* Surrogates, too, counts with that operator.
LEMMA SameCount == \A S : Scanning!Cardinality(S) = Cardinality(S)
BY DEF Scanning!Cardinality, Cardinality

\* Every quote begins a string or ends one.
LEMMA QuotesToggle ==
  ASSUME spelling \in Spellings, NEW i \in 1 .. Len(pieces)
  PROVE  /\ pieces[i] = "quote" => (Scanning!InString(i + 1) <=> ~Scanning!InString(i))
         /\ pieces[i] # "quote" => (Scanning!InString(i + 1) <=> Scanning!InString(i))
<1> DEFINE Before(n) == {j \in 1 .. n - 1 : pieces[j] = "quote"}
<1>1. i \in Nat /\ Len(pieces) \in Nat
  BY SourceIsSpelled
<1>2. IsFiniteSet(Before(i)) /\ Cardinality(Before(i)) \in Nat
  <2>1. IsFiniteSet(1 .. i - 1)
    BY <1>1, FS_Interval
  <2> QED
    BY <2>1, FS_Subset, FS_CardinalityType
<1>3. Before(i + 1) = IF pieces[i] = "quote" THEN Before(i) \union {i} ELSE Before(i)
  <2>1. 1 .. (i + 1) - 1 = (1 .. i - 1) \union {i} /\ i \notin 1 .. i - 1
    BY <1>1
  <2> QED
    BY <2>1
<1>4. /\ pieces[i] = "quote" => Cardinality(Before(i + 1)) = Cardinality(Before(i)) + 1
      /\ pieces[i] # "quote" => Cardinality(Before(i + 1)) = Cardinality(Before(i))
  <2>1. i \notin Before(i)
    BY <1>1
  <2>2. pieces[i] # "quote" => Before(i + 1) = Before(i)
    BY <1>3
  <2> QED
    BY <1>2, <1>3, <2>1, <2>2, FS_AddElement
<1>5. \A n : Scanning!InString(n) <=> Cardinality(Before(n)) % 2 = 1
  BY SameCount DEF Scanning!InString, Scanning!text, pieces
<1> HIDE DEF Before
<1>6. \A c \in Nat : (c + 1) % 2 = 1 <=> ~(c % 2 = 1)
  OBVIOUS
<1> QED
  BY <1>2, <1>4, <1>5, <1>6

\* The surrogates are paired so far, if the piece that was read is none.
LEMMA PairedOn ==
  ASSUME spelling \in Spellings, NEW i \in 1 .. Len(pieces), PairedBefore(i), pieces[i] \notin {"high", "low"}
  PROVE  PairedBefore(i + 1)
<1>1. i \in Nat /\ Len(pieces) \in Nat
  BY SourceIsSpelled
<1>2. \A j \in 1 .. (i + 1) - 1 : j = i \/ j \in 1 .. i - 1
  BY <1>1
<1> QED
  BY <1>1, <1>2 DEF PairedBefore

\* A scan that reads on stands at a place again.
LEMMA ReadOn ==
  ASSUME ScanningInv, verdict = "scanning", verdict' = "scanning", insideString' \in BOOLEAN,
         UNCHANGED <<data, spelling>>, NEW i \in Nat, NEW k \in Nat,
         Place(i, k)', PairedBefore(i), insideString' <=> Scanning!InString(i)
  PROVE  ScanningInv'
<1>1. Scanning!WellFormed' <=> Scanning!WellFormed
  BY DEF Scanning!WellFormed, Scanning!InString, Scanning!text
<1>2. PairedBefore(i)' /\ (insideString' <=> Scanning!InString(i)')
  BY DEF PairedBefore, pieces, Scanning!InString, Scanning!text
<1> QED
  BY <1>1, <1>2 DEF ScanningInv

\* The code unit of four digits.
LEMMA UnitAt ==
  ASSUME data \in Seq(Scanning!Bytes), NEW n \in Nat \ {0}, n + 3 <= Len(data),
         data[n] \in DOMAIN Scanning!Digits, data[n + 1] \in DOMAIN Scanning!Digits,
         data[n + 2] = "zero", data[n + 3] = "zero"
  PROVE  /\ Scanning!IsHex(SubSeq(data, n, n + 3))
         /\ data[n] = "D" /\ data[n + 1] = "eight" => Scanning!Unit(SubSeq(data, n, n + 3)) = 55296
         /\ data[n] = "D" /\ data[n + 1] = "C" => Scanning!Unit(SubSeq(data, n, n + 3)) = 56320
         /\ data[n] = "zero" /\ data[n + 1] = "C" => Scanning!Unit(SubSeq(data, n, n + 3)) = 3072
<1> DEFINE bytes == SubSeq(data, n, n + 3)
<1>1. Len(bytes) = 4 /\ bytes[1] = data[n] /\ bytes[2] = data[n + 1] /\ bytes[3] = "zero" /\ bytes[4] = "zero"
  OBVIOUS
<1>2. "zero" \in DOMAIN Scanning!Digits
  BY DEF Scanning!Digits
<1>3. /\ Scanning!Digits["zero"] = 0 /\ Scanning!Digits["eight"] = 8
      /\ Scanning!Digits["C"] = 12 /\ Scanning!Digits["D"] = 13
  BY DEF Scanning!Digits
<1> HIDE DEF bytes
<1>4. Scanning!IsHex(bytes)
  <2>1. \A i \in 1 .. 4 : i = 1 \/ i = 2 \/ i = 3 \/ i = 4
    OBVIOUS
  <2> QED
    BY <1>1, <1>2, <2>1 DEF Scanning!IsHex
<1>5. Scanning!Unit(bytes) =
        ((Scanning!Digits[bytes[1]] * 16 + Scanning!Digits[bytes[2]]) * 16 + Scanning!Digits[bytes[3]]) * 16
        + Scanning!Digits[bytes[4]]
  BY DEF Scanning!Unit
<1> QED
  BY <1>1, <1>3, <1>4, <1>5, SMTT(30) DEF bytes

\* The code unit that a piece escapes, and where the scan finds it.
CodeUnit(piece) == CASE piece = "high" -> 55296 [] piece = "low" -> 56320 [] piece = "other" -> 3072
LEMMA UnitIn ==
  ASSUME spelling \in Spellings, data = spelling.data, NEW i \in 1 .. Len(pieces),
         pieces[i] \in {"high", "low", "other"}
  PROVE  /\ at[i + 1] = at[i] + 6 /\ at[i] + 5 <= Len(data)
         /\ data[at[i]] = "backslash" /\ data[at[i] + 1] = "u"
         /\ Scanning!IsHex(SubSeq(data, at[i] + 2, at[i] + 5))
         /\ Scanning!Unit(SubSeq(data, at[i] + 2, at[i] + 5)) = CodeUnit(pieces[i])
<1> DEFINE n == at[i] + 2
<1>1. /\ at[i] \in Nat \ {0} /\ at[i + 1] <= Len(data) + 1 /\ Len(data) \in Nat
      /\ data \in Seq(Scanning!Bytes)
  BY PieceAt, SourceIsSpelled
<1>2. /\ at[i + 1] = at[i] + 6
      /\ data[at[i]] = "backslash" /\ data[at[i] + 1] = "u"
      /\ data[at[i] + 4] = "zero" /\ data[at[i] + 5] = "zero"
      /\ pieces[i] = "high" => data[at[i] + 2] = "D" /\ data[at[i] + 3] = "eight"
      /\ pieces[i] = "low" => data[at[i] + 2] = "D" /\ data[at[i] + 3] = "C"
      /\ pieces[i] = "other" => data[at[i] + 2] = "zero" /\ data[at[i] + 3] = "C"
  <2>1. \A d1, d2 :
          Scanning!Pieces[pieces[i]] = <<"backslash", "u", d1, d2, "zero", "zero">> =>
            /\ at[i + 1] = at[i] + 6
            /\ data[at[i]] = "backslash" /\ data[at[i] + 1] = "u"
            /\ data[at[i] + 2] = d1 /\ data[at[i] + 3] = d2
            /\ data[at[i] + 4] = "zero" /\ data[at[i] + 5] = "zero"
    BY PieceAt
  <2>2. CASE pieces[i] = "high"
    <3>1. Scanning!Pieces[pieces[i]] = <<"backslash", "u", "D", "eight", "zero", "zero">>
      BY <2>2, EscapedPieces
    <3> QED
      BY <2>1, <2>2, <3>1
  <2>3. CASE pieces[i] = "low"
    <3>1. Scanning!Pieces[pieces[i]] = <<"backslash", "u", "D", "C", "zero", "zero">>
      BY <2>3, EscapedPieces
    <3> QED
      BY <2>1, <2>3, <3>1
  <2>4. CASE pieces[i] = "other"
    <3>1. Scanning!Pieces[pieces[i]] = <<"backslash", "u", "zero", "C", "zero", "zero">>
      BY <2>4, EscapedPieces
    <3> QED
      BY <2>1, <2>4, <3>1
  <2> QED
    BY <2>2, <2>3, <2>4
<1>3. /\ n \in Nat \ {0} /\ n + 3 <= Len(data)
      /\ n + 1 = at[i] + 3 /\ n + 2 = at[i] + 4 /\ n + 3 = at[i] + 5 /\ at[i] + 5 <= Len(data)
  <2>1. \A m, l \in Nat : m # 0 /\ m + 6 <= l + 1 =>
          /\ m + 2 \in Nat \ {0} /\ (m + 2) + 3 <= l
          /\ (m + 2) + 1 = m + 3 /\ (m + 2) + 2 = m + 4 /\ (m + 2) + 3 = m + 5 /\ m + 5 <= l
    OBVIOUS
  <2>2. at[i] \in Nat /\ at[i] # 0 /\ Len(data) \in Nat /\ at[i] + 6 <= Len(data) + 1
    BY <1>1, <1>2
  <2> QED
    BY <2>1, <2>2
<1>4. {"zero", "eight", "C", "D"} \subseteq DOMAIN Scanning!Digits
  BY DEF Scanning!Digits
<1> HIDE DEF n
<1>5. /\ data[n] \in DOMAIN Scanning!Digits /\ data[n + 1] \in DOMAIN Scanning!Digits
      /\ data[n + 2] = "zero" /\ data[n + 3] = "zero"
      /\ pieces[i] = "high" => data[n] = "D" /\ data[n + 1] = "eight"
      /\ pieces[i] = "low" => data[n] = "D" /\ data[n + 1] = "C"
      /\ pieces[i] = "other" => data[n] = "zero" /\ data[n + 1] = "C"
  BY <1>2, <1>3, <1>4 DEF n
<1>6. /\ Scanning!IsHex(SubSeq(data, n, n + 3))
      /\ Scanning!Unit(SubSeq(data, n, n + 3)) = CodeUnit(pieces[i])
  BY <1>1, <1>3, <1>5, UnitAt, SMTT(30) DEF CodeUnit
<1> QED
  BY <1>1, <1>2, <1>3, <1>6 DEF n

\* The scan of an escape of two bytes, and of plain text, goes on behind it.
LEMMA ScanPlain ==
  ASSUME ScanningInv, Scanning!Scan, Scanning!WellFormed, NEW i \in 1 .. Len(pieces), NEW k \in Nat,
         Place(i, k), PairedBefore(i), insideString <=> Scanning!InString(i),
         pieces[i] \in {"quote", "letter", "hexText", "escapedQuote", "escapedBackslash"}
  PROVE  ScanningInv'
<1>1. /\ spelling \in Spellings /\ data = spelling.data /\ insideString \in BOOLEAN
      /\ verdict = "scanning" /\ UNCHANGED <<data, spelling>> /\ index <= Len(data)
  BY DEF ScanningInv, Scanning!Scan
<1>2. /\ i \in Nat /\ i + 1 \in Nat /\ i + 1 \in 1 .. Len(pieces) + 1 /\ at[i] \in Nat \ {0} /\ at[i + 1] \in Nat \ {0}
      /\ at[i + 1] <= Len(data) + 1 /\ Len(data) \in Nat
  BY <1>1, PieceAt, SourceIsSpelled
<1>3. PairedBefore(i + 1)
  BY <1>1, PairedOn
<1>4. /\ index = at[i] + k /\ k \in 0 .. 4
      /\ k > 0 => pieces[i] = "hexText"
  BY DEF Place
<1>5. /\ pieces[i] = "letter" => at[i + 1] = at[i] + 1 /\ data[at[i]] = "x"
      /\ pieces[i] = "hexText" =>
           /\ at[i + 1] = at[i] + 5
           /\ data[at[i]] = "u" /\ data[at[i] + 1] = "D" /\ data[at[i] + 2] = "eight"
           /\ data[at[i] + 3] = "zero" /\ data[at[i] + 4] = "zero"
  BY <1>1, PieceAt
<1>6. /\ pieces[i] = "escapedQuote" =>
           at[i + 1] = at[i] + 2 /\ data[at[i]] = "backslash" /\ data[at[i] + 1] = "quote"
      /\ pieces[i] = "escapedBackslash" =>
           at[i + 1] = at[i] + 2 /\ data[at[i]] = "backslash" /\ data[at[i] + 1] = "backslash"
  BY <1>1, PieceAt
<1>7. at' = at /\ pieces' = pieces
  BY <1>1 DEF at, pieces
<1>8. ASSUME index' = at[i + 1], UNCHANGED verdict, insideString' \in BOOLEAN,
             insideString' <=> Scanning!InString(i + 1)
      PROVE  ScanningInv'
  <2>1. Place(i + 1, 0)'
    BY <1>2, <1>7, <1>8 DEF Place
  <2> QED
    BY <1>1, <1>2, <1>3, <1>8, <2>1, ReadOn
<1>9. CASE pieces[i] = "quote"
  <2>1. data[index] = "quote" /\ at[i + 1] = index + 1
    BY <1>1, <1>2, <1>9, PieceAt DEF Place
  <2>2. insideString' = ~insideString /\ index' = index + 1 /\ UNCHANGED verdict
    BY <2>1 DEF Scanning!Scan, Scanning!Quote, Scanning!Backslash
  <2>3. insideString' <=> Scanning!InString(i + 1)
    BY <1>1, <1>9, <2>2, QuotesToggle
  <2> QED
    BY <1>1, <1>8, <2>1, <2>2, <2>3
<1>10. ASSUME pieces[i] # "quote" PROVE Scanning!InString(i + 1) <=> Scanning!InString(i)
  BY <1>1, <1>10, QuotesToggle
<1>11. CASE pieces[i] \in {"letter", "hexText"}
  <2>1. data[index] \in {"x", "u", "D", "eight", "zero"}
    <3>1. k = 0 \/ k = 1 \/ k = 2 \/ k = 3 \/ k = 4
      BY <1>4
    <3>2. pieces[i] = "letter" => k = 0
      BY <1>4
    <3>3. at[i] + 0 = at[i]
      BY <1>2
    <3> QED
      BY <1>11, <1>4, <1>5, <3>1, <3>2, <3>3
  <2>2. Scanning!Skip(1)
    BY <2>1 DEF Scanning!Scan, Scanning!Quote, Scanning!Backslash
  <2>3. index' = index + 1 /\ UNCHANGED <<insideString, verdict>>
    BY <2>2 DEF Scanning!Skip
  <2>4. CASE pieces[i] = "letter" \/ k = 4
    <3>1. index' = at[i + 1]
      <4>1. CASE pieces[i] = "letter"
        <5>1. k = 0 /\ at[i + 1] = at[i] + 1
          BY <1>4, <1>5, <4>1
        <5> QED
          BY <1>2, <1>4, <2>3, <5>1
      <4>2. CASE pieces[i] = "hexText" /\ k = 4
        <5>1. at[i + 1] = at[i] + 5 /\ index = at[i] + 4
          BY <1>4, <1>5, <4>2
        <5> QED
          BY <1>2, <2>3, <5>1
      <4> QED
        BY <1>11, <1>4, <2>4, <4>1, <4>2
    <3> QED
      BY <1>1, <1>8, <1>10, <1>11, <2>3, <3>1
  <2>5. CASE pieces[i] = "hexText" /\ k # 4
    <3>1. k + 1 \in 0 .. 4 /\ k + 1 \in Nat /\ index' = at[i] + (k + 1)
      BY <1>2, <1>4, <2>3, <2>5
    <3>2. Place(i, k + 1)'
      BY <1>2, <1>7, <2>5, <3>1 DEF Place
    <3> QED
      BY <1>1, <1>2, <2>3, <3>1, <3>2, ReadOn
  <2> QED
    BY <1>11, <2>4, <2>5
<1>12. CASE pieces[i] \in {"escapedQuote", "escapedBackslash"}
  <2>1. /\ data[index] = "backslash" /\ data[index + 1] # "u" /\ at[i + 1] = index + 2 /\ index \in Nat
        /\ index + 1 <= Len(data)
    <3>1. k = 0 /\ index = at[i] /\ index \in Nat
      BY <1>2, <1>12, <1>4
    <3> QED
      BY <1>2, <1>12, <1>6, <3>1
  <2>2. insideString
    BY <1>1, <1>12, SourceIsSpelled DEF Scanning!WellFormed, Scanning!text, pieces
  <2>3. Scanning!Skip(2)
    BY <2>1, <2>2 DEF Scanning!Scan, Scanning!Quote, Scanning!Backslash, Scanning!Backslashed
  <2>4. index' = index + 2 /\ UNCHANGED <<insideString, verdict>>
    BY <2>3 DEF Scanning!Skip
  <2> QED
    BY <1>1, <1>8, <1>10, <1>12, <2>1, <2>4
<1> QED
  BY <1>9, <1>11, <1>12

\* A high surrogate, a low one, and a unit that is neither.
LEMMA Units ==
  /\ Scanning!IsHigh(55296) /\ ~Scanning!IsHigh(56320) /\ Scanning!IsLow(56320)
  /\ ~Scanning!IsHigh(3072) /\ ~Scanning!IsLow(3072) /\ ~Scanning!IsLow(55296)
BY DEF Scanning!IsHigh, Scanning!IsLow

\* What an escape means for the scan: a high surrogate needs a partner.
LEMMA EscapedUnits ==
  ASSUME Scanning!EscapedUnit, index \in Nat, data \in Seq(Scanning!Bytes), index + 5 <= Len(data),
         Scanning!IsHex(SubSeq(data, index + 2, index + 5)),
         NEW unit, Scanning!Unit(SubSeq(data, index + 2, index + 5)) = unit
  PROVE  /\ unit = 3072 => Scanning!Skip(6)
         /\ unit = 56320 => Scanning!Reject
         /\ unit = 55296 =>
              \/ Scanning!HasPartner /\ Scanning!Skip(12)
              \/ ~Scanning!HasPartner /\ Scanning!Reject
<1> DEFINE escape == SubSeq(data, index + 2, index + 5)
           rejected == \/ index + 5 > Len(data) \/ ~Scanning!IsHex(escape)
                       \/ Scanning!IsLow(Scanning!Unit(escape))
                       \/ Scanning!IsHigh(Scanning!Unit(escape)) /\ ~Scanning!HasPartner
           length == IF Scanning!IsHigh(Scanning!Unit(escape)) THEN 12 ELSE 6
<1>1. IF rejected THEN Scanning!Reject ELSE Scanning!Skip(length)
  BY Zenon DEF Scanning!EscapedUnit
<1>2. rejected <=> (Scanning!IsLow(unit) \/ (Scanning!IsHigh(unit) /\ ~Scanning!HasPartner))
  OBVIOUS
<1>3. length = IF Scanning!IsHigh(unit) THEN 12 ELSE 6
  OBVIOUS
<1> HIDE DEF rejected, length
<1>4. CASE unit = 3072
  <2>1. ~rejected /\ length = 6
    BY <1>2, <1>3, <1>4, Units
  <2> QED
    BY <1>1, <1>4, <2>1
<1>5. CASE unit = 56320
  <2>1. rejected
    BY <1>2, <1>5, Units
  <2> QED
    BY <1>1, <1>5, <2>1
<1>6. CASE unit = 55296
  <2>1. (rejected <=> ~Scanning!HasPartner) /\ length = 12
    BY <1>2, <1>3, <1>6, Units
  <2> QED
    BY <1>1, <1>6, <2>1
<1> QED
  BY <1>4, <1>5, <1>6

\* At an escape of a code unit the scan rejects what has no partner.
LEMMA ScanUnit ==
  ASSUME ScanningInv, Scanning!Scan, Scanning!WellFormed, NEW i \in 1 .. Len(pieces), index = at[i],
         PairedBefore(i), insideString <=> Scanning!InString(i), pieces[i] \in {"high", "low", "other"}
  PROVE  ScanningInv'
<1>1. /\ spelling \in Spellings /\ data = spelling.data /\ insideString \in BOOLEAN
      /\ verdict = "scanning" /\ UNCHANGED <<data, spelling>> /\ index <= Len(data)
  BY DEF ScanningInv, Scanning!Scan
<1>2. /\ i \in Nat /\ i + 1 \in 1 .. Len(pieces) + 1 /\ at[i] \in Nat \ {0} /\ at[i + 1] \in Nat \ {0}
      /\ at[i + 1] <= Len(data) + 1 /\ Len(data) \in Nat /\ data \in Seq(Scanning!Bytes) /\ Len(pieces) \in Nat
  BY <1>1, PieceAt, SourceIsSpelled
<1>3. at' = at /\ pieces' = pieces
  BY <1>1 DEF at, pieces
<1>4. Scanning!WellFormed' /\ (Scanning!Paired' <=> Scanning!Paired)
  BY <1>1 DEF Scanning!WellFormed, Scanning!InString, Scanning!Paired, Scanning!text
<1>5. ASSUME Scanning!Reject, ~Scanning!Paired PROVE ScanningInv'
  BY <1>1, <1>4, <1>5 DEF ScanningInv, Scanning!Reject
<1>6. insideString
  BY <1>1, SourceIsSpelled DEF Scanning!WellFormed, Scanning!text, pieces
<1>7. /\ at[i + 1] = index + 6 /\ index + 5 <= Len(data)
      /\ data[index] = "backslash" /\ data[index + 1] = "u"
      /\ Scanning!IsHex(SubSeq(data, index + 2, index + 5))
      /\ Scanning!Unit(SubSeq(data, index + 2, index + 5)) = CodeUnit(pieces[i])
  BY <1>1, <1>2, UnitIn
<1>8. Scanning!EscapedUnit /\ index \in Nat /\ data \in Seq(Scanning!Bytes)
  BY <1>1, <1>2, <1>6, <1>7, SMTT(30) DEF Scanning!Scan, Scanning!Quote, Scanning!Backslash, Scanning!Backslashed
<1>9. /\ index \in Nat /\ at[i + 1] = index + 6
      /\ at[i + 1] + 1 = index + 7 /\ at[i + 1] + 2 = index + 8 /\ at[i + 1] + 5 = index + 11
      /\ at[i + 1] + 6 = index + 12
  <2>1. \A m, n \in Nat : n = m + 6 =>
          n + 1 = m + 7 /\ n + 2 = m + 8 /\ n + 5 = m + 11 /\ n + 6 = m + 12
    OBVIOUS
  <2>2. index \in Nat /\ at[i + 1] \in Nat /\ at[i + 1] = index + 6
    BY <1>2, <1>7
  <2> QED
    BY <2>1, <2>2
<1>10. CASE pieces[i] = "other"
  <2>1. Scanning!Skip(6)
    BY <1>7, <1>8, <1>10, EscapedUnits DEF CodeUnit
  <2>2. index' = at[i + 1] /\ UNCHANGED <<insideString, verdict>>
    BY <1>7, <2>1 DEF Scanning!Skip
  <2>3. PairedBefore(i + 1) /\ (Scanning!InString(i + 1) <=> Scanning!InString(i))
    BY <1>1, <1>10, PairedOn, QuotesToggle
  <2>4. Place(i + 1, 0)' /\ i + 1 \in Nat
    BY <1>2, <1>3, <2>2 DEF Place
  <2> QED
    BY <1>1, <2>2, <2>3, <2>4, ReadOn
<1>11. CASE pieces[i] = "low"
  <2>1. Scanning!Reject
    BY <1>7, <1>8, <1>11, EscapedUnits DEF CodeUnit
  <2>2. ~(i > 1 /\ pieces[i - 1] = "high")
    <3>1. ASSUME i > 1, pieces[i - 1] = "high" PROVE FALSE
      <4>1. i - 1 \in 1 .. i - 1 /\ ~((i - 1) + 1 < i)
        BY <1>2, <3>1
      <4> QED
        BY <3>1, <4>1 DEF PairedBefore
    <3> QED
      BY <3>1
  <2>3. ~Scanning!Paired
    BY <1>1, <1>11, <2>2, SourceIsSpelled DEF Scanning!Paired, Scanning!text, pieces
  <2> QED
    BY <1>5, <2>1, <2>3
<1>12. CASE pieces[i] = "high"
  <2>1. (Scanning!HasPartner /\ Scanning!Skip(12)) \/ (~Scanning!HasPartner /\ Scanning!Reject)
    BY <1>7, <1>8, <1>12, EscapedUnits DEF CodeUnit
  <2>2. CASE i < Len(pieces) /\ pieces[i + 1] = "low"
    <3>1. i + 1 \in 1 .. Len(pieces) /\ i + 2 \in Nat /\ (i + 1) + 1 = i + 2
      BY <1>2, <2>2
    <3>2. /\ at[i + 2] = at[i + 1] + 6 /\ at[i + 1] + 5 <= Len(data)
          /\ data[at[i + 1]] = "backslash" /\ data[at[i + 1] + 1] = "u"
          /\ Scanning!IsHex(SubSeq(data, at[i + 1] + 2, at[i + 1] + 5))
          /\ Scanning!Unit(SubSeq(data, at[i + 1] + 2, at[i + 1] + 5)) = 56320
      BY <1>1, <2>2, <3>1, UnitIn DEF CodeUnit
    <3>3. at[i + 2] = index + 12 /\ index + 11 <= Len(data)
      BY <1>9, <3>2
    <3>4. data[index + 6] = "backslash" /\ data[index + 7] = "u"
      BY <1>9, <3>2
    <3>5. Scanning!IsHex(SubSeq(data, index + 8, index + 11)) /\ Scanning!IsLow(Scanning!Unit(SubSeq(data, index + 8, index + 11)))
      <4> DEFINE digits(m, n) == SubSeq(data, m, n)
      <4>1. /\ Scanning!IsHex(digits(at[i + 1] + 2, at[i + 1] + 5))
            /\ Scanning!Unit(digits(at[i + 1] + 2, at[i + 1] + 5)) = 56320
        BY <3>2
      <4>2. at[i + 1] + 2 = index + 8 /\ at[i + 1] + 5 = index + 11
        BY <1>9
      <4> HIDE DEF digits
      <4>3. /\ Scanning!IsHex(digits(index + 8, index + 11))
            /\ Scanning!Unit(digits(index + 8, index + 11)) = 56320
        BY <4>1, <4>2
      <4> QED
        BY <4>3, Units DEF digits
    <3>6. Scanning!HasPartner
      <4> DEFINE next == SubSeq(data, index + 8, index + 11)
      <4>1. Scanning!IsHex(next) /\ Scanning!IsLow(Scanning!Unit(next))
        BY <3>5
      <4> HIDE DEF next
      <4>2. index + 11 <= Len(data) /\ data[index + 6] = Scanning!Backslash /\ data[index + 7] = "u"
        BY <3>3, <3>4 DEF Scanning!Backslash
      <4> QED
        BY <4>1, <4>2 DEF Scanning!HasPartner, next
    <3>7. index' = at[i + 2] /\ UNCHANGED <<insideString, verdict>>
      BY <2>1, <3>3, <3>6 DEF Scanning!Skip
    <3>8. PairedBefore(i + 2)
      <4>1. \A j \in 1 .. (i + 2) - 1 : j = i \/ j = i + 1 \/ j \in 1 .. i - 1
        BY <1>2
      <4>2. i + 1 < i + 2 /\ i + 1 > 1 /\ (i + 1) - 1 = i
        BY <1>2
      <4>3. \A j \in 1 .. i - 1 : j + 1 < i => j + 1 < i + 2
        BY <1>2
      <4> QED
        BY <1>12, <2>2, <4>1, <4>2, <4>3 DEF PairedBefore
    <3>9. Scanning!InString(i + 2) <=> Scanning!InString(i)
      BY <1>1, <1>12, <2>2, <3>1, QuotesToggle
    <3>10. Place(i + 2, 0)'
      <4>1. i + 2 \in 1 .. Len(pieces) + 1 /\ at[i + 2] \in Nat
        <5>1. \A m, n \in Nat : n + 1 <= m => n + 2 \in 1 .. m + 1
          OBVIOUS
        <5>2. \A m \in Nat : m + 12 \in Nat
          OBVIOUS
        <5>3. i + 2 \in 1 .. Len(pieces) + 1
          BY <1>2, <3>1, <5>1
        <5>4. at[i + 2] \in Nat
          BY <1>9, <3>3, <5>2
        <5> QED
          BY <5>3, <5>4
      <4>2. index' = at[i + 2] + 0
        BY <3>7, <4>1
      <4> QED
        BY <1>3, <4>1, <4>2 DEF Place
    <3> QED
      BY <1>1, <3>1, <3>7, <3>8, <3>9, <3>10, ReadOn
  <2>3. CASE ~(i < Len(pieces) /\ pieces[i + 1] = "low")
    <3>1. ~Scanning!Paired
      BY <1>1, <1>12, <2>3, SourceIsSpelled DEF Scanning!Paired, Scanning!text, pieces
    <3>2. ~Scanning!HasPartner
      <4> SUFFICES ASSUME Scanning!HasPartner PROVE FALSE
        OBVIOUS
      <4>1. CASE i = Len(pieces)
        <5>1. index + 6 = Len(data) + 1
          BY <1>1, <1>7, <4>1, SourceIsSpelled
        <5> QED
          BY <1>2, <1>9, <5>1, SMTT(30) DEF Scanning!HasPartner
      <4>2. CASE i + 1 \in 1 .. Len(pieces)
        <5>1. data[at[i + 1]] = "backslash" /\ data[at[i + 1] + 1] = "u"
          BY <1>9 DEF Scanning!HasPartner, Scanning!Backslash
        <5>2. pieces[i + 1] \notin {"quote", "letter", "hexText", "escapedQuote", "escapedBackslash"}
          BY <1>1, <4>2, <5>1, PieceAt
        <5>3. pieces[i + 1] \in DOMAIN Scanning!Pieces /\ pieces[i + 1] # "short"
          BY <1>1, <4>2, SourceIsSpelled DEF Scanning!WellFormed, Scanning!text, pieces
        <5>4. pieces[i + 1] \in {"high", "other"}
          BY <1>2, <2>3, <4>2, <5>2, <5>3, PieceNames
        <5>5. Scanning!Unit(SubSeq(data, at[i + 1] + 2, at[i + 1] + 5)) = CodeUnit(pieces[i + 1])
          BY <1>1, <4>2, <5>4, UnitIn
        <5>6. Scanning!Unit(SubSeq(data, index + 8, index + 11)) = CodeUnit(pieces[i + 1])
          BY <1>9, <5>5
        <5>7. Scanning!IsLow(Scanning!Unit(SubSeq(data, index + 8, index + 11)))
          BY DEF Scanning!HasPartner
        <5> QED
          BY <5>4, <5>6, <5>7 DEF CodeUnit, Scanning!IsLow
      <4> QED
        BY <1>2, <4>1, <4>2
    <3> QED
      BY <1>5, <2>1, <3>1, <3>2
  <2> QED
    BY <2>2, <2>3
<1> QED
  BY <1>10, <1>11, <1>12

\* Every step of the scan keeps the invariant.
LEMMA ScanningStep ==
  ASSUME ScanningInv, Scanning!Next \/ UNCHANGED Scanning!vars
  PROVE  ScanningInv'
<1>1. CASE UNCHANGED Scanning!vars
  <2>1. UNCHANGED <<data, index, insideString, verdict, spelling>>
    BY <1>1 DEF Scanning!vars
  <2>2. \A i, k \in Nat : /\ Place(i, k) => Place(i, k)'
                          /\ PairedBefore(i) => PairedBefore(i)'
                          /\ Scanning!InString(i)' <=> Scanning!InString(i)
    BY <2>1 DEF Place, PairedBefore, pieces, at, Scanning!InString, Scanning!text
  <2>3. (Scanning!WellFormed' <=> Scanning!WellFormed) /\ (Scanning!Paired' <=> Scanning!Paired)
    BY <2>1 DEF Scanning!WellFormed, Scanning!InString, Scanning!Paired, Scanning!text
  <2> QED
    BY <2>1, <2>2, <2>3 DEF ScanningInv
<1>2. ASSUME UNCHANGED spelling
      PROVE  (Scanning!WellFormed' <=> Scanning!WellFormed) /\ (Scanning!Paired' <=> Scanning!Paired)
  BY <1>2 DEF Scanning!WellFormed, Scanning!InString, Scanning!Paired, Scanning!text
<1>3. CASE Scanning!Scan
  <2>1. UNCHANGED <<data, spelling>> /\ verdict = "scanning" /\ index <= Len(data)
    BY <1>3 DEF Scanning!Scan
  <2>2. CASE ~Scanning!WellFormed
    <3>1. insideString' \in BOOLEAN /\ verdict' \in {"scanning", "invalid"}
      BY <1>3 DEF ScanningInv, Scanning!Scan, Scanning!Skip, Scanning!Reject, Scanning!Backslashed,
         Scanning!EscapedUnit
    <3> QED
      BY <1>2, <2>1, <2>2, <3>1 DEF ScanningInv
  <2>3. CASE Scanning!WellFormed
    <3>1. PICK i \in Nat, k \in Nat : Place(i, k) /\ PairedBefore(i) /\ (insideString <=> Scanning!InString(i))
      BY <2>1, <2>3 DEF ScanningInv
    <3>2. spelling \in Spellings /\ data = spelling.data
      BY DEF ScanningInv
    <3>3. i \in 1 .. Len(pieces)
      <4>1. i # Len(pieces) + 1
        BY <2>1, <3>1, <3>2, SourceIsSpelled DEF Place
      <4> QED
        BY <3>1, <3>2, <4>1, SourceIsSpelled DEF Place
    <3>4. pieces[i] \in DOMAIN Scanning!Pieces /\ pieces[i] # "short"
      BY <2>3, <3>2, <3>3, SourceIsSpelled DEF Scanning!WellFormed, Scanning!text, pieces
    <3>5. CASE pieces[i] \in {"quote", "letter", "hexText", "escapedQuote", "escapedBackslash"}
      BY <1>3, <2>3, <3>1, <3>3, <3>5, ScanPlain
    <3>6. CASE pieces[i] \in {"high", "low", "other"}
      <4>1. index = at[i]
        BY <3>1, <3>2, <3>3, <3>6, SourceIsSpelled DEF Place
      <4> QED
        BY <1>3, <2>3, <3>1, <3>3, <3>6, <4>1, ScanUnit
    <3> QED
      BY <3>4, <3>5, <3>6, PieceNames
  <2> QED
    BY <2>2, <2>3
<1>4. CASE Scanning!Accept
  <2>1. verdict = "scanning" /\ index > Len(data) /\ verdict' = "valid" /\ UNCHANGED <<data, insideString, spelling>>
    BY <1>4 DEF Scanning!Accept
  <2>2. ASSUME Scanning!WellFormed PROVE Scanning!Paired
    <3>1. PICK i \in Nat, k \in Nat : Place(i, k) /\ PairedBefore(i)
      BY <2>1, <2>2 DEF ScanningInv
    <3>2. spelling \in Spellings /\ data = spelling.data
      BY DEF ScanningInv
    <3>3. i = Len(pieces) + 1
      <4> SUFFICES ASSUME i \in 1 .. Len(pieces) PROVE FALSE
        BY <3>1, <3>2, SourceIsSpelled DEF Place
      <4>1. CASE k = 0
        <5>1. at[i + 1] = at[i] + Len(Scanning!Pieces[pieces[i]]) /\ pieces[i] \in DOMAIN Scanning!Pieces
          BY <3>2, <4>1, SourceIsSpelled
        <5>2. Len(Scanning!Pieces[pieces[i]]) \in 1 .. 6
          BY <5>1, PiecesHaveBytes
        <5>3. at[i] \in Nat /\ at[i + 1] <= Len(data) + 1 /\ Len(data) \in Nat
          BY <3>2, <4>1, PieceAt, SourceIsSpelled
        <5>4. index = at[i]
          BY <3>1, <4>1, <5>3 DEF Place
        <5> QED
          <6>1. \A m, n, l, d \in Nat : n = m + l /\ l >= 1 /\ n <= d + 1 => ~(m > d)
            OBVIOUS
          <6>2. at[i + 1] \in Nat /\ Len(Scanning!Pieces[pieces[i]]) \in Nat
                /\ Len(Scanning!Pieces[pieces[i]]) >= 1
            <7>1. \A l \in 1 .. 6 : l \in Nat /\ l >= 1
              OBVIOUS
            <7>2. at[i + 1] \in Nat
              BY <3>2, PieceAt
            <7> QED
              BY <5>2, <7>1, <7>2
          <6> QED
            BY <2>1, <5>1, <5>3, <5>4, <6>1, <6>2
      <4>2. CASE k > 0
        <5>1. pieces[i] = "hexText" /\ k \in 0 .. 4 /\ index = at[i] + k
          BY <3>1, <4>2 DEF Place
        <5>2. at[i + 1] = at[i] + 5 /\ at[i + 1] <= Len(data) + 1 /\ at[i] \in Nat /\ Len(data) \in Nat
          BY <3>2, <4>2, <5>1, PieceAt, SourceIsSpelled
        <5> QED
          BY <2>1, <5>1, <5>2
      <4> QED
        BY <4>1, <4>2
    <3>4. \A j \in 1 .. Len(pieces) : (j + 1 < Len(pieces) + 1) => j < Len(pieces)
      BY <3>2, SourceIsSpelled
    <3> QED
      BY <3>1, <3>2, <3>3, <3>4, SourceIsSpelled DEF PairedBefore, Scanning!Paired, Scanning!text, pieces
  <2> QED
    BY <1>2, <2>1, <2>2 DEF ScanningInv
<1> QED
  BY <1>1, <1>3, <1>4 DEF Scanning!Next

\* The invariant holds before the first byte.
LEMMA ScanningBegins == Scanning!Init => ScanningInv
<1> SUFFICES ASSUME Scanning!Init PROVE ScanningInv
  OBVIOUS
<1>1. spelling \in Spellings /\ data = spelling.data /\ index = 1 /\ insideString = FALSE /\ verdict = "scanning"
  BY DEF Scanning!Init
<1>2. Place(1, 0)
  BY <1>1, SourceIsSpelled DEF Place
<1>3. PairedBefore(1)
  BY DEF PairedBefore
<1>4. ~Scanning!InString(1)
  <2>1. {j \in 1 .. 1 - 1 : pieces[j] = "quote"} = {}
    OBVIOUS
  <2>2. Cardinality({}) = 0
    BY FS_EmptySet
  <2>3. Scanning!InString(1) <=> Cardinality({}) % 2 = 1
    BY <2>1, SameCount DEF Scanning!InString, Scanning!text, pieces
  <2> QED
    BY <2>2, <2>3
<1> QED
  BY <1>1, <1>2, <1>3, <1>4 DEF ScanningInv

\* What the invariant says of the property.
LEMMA ScanningInvSuffices == ScanningInv => Scanning!OnlyPairsPass
BY DEF ScanningInv, Scanning!OnlyPairsPass

-----------------------------------------------------------------------------
(* The four of them together. *)

ConversionInv ==
  /\ subject \in {"compiler", "condition", "rows", "surrogates"}
  /\ subject = "compiler" => CompilationInv
  /\ subject = "condition" => ChoiceInv
  /\ subject = "rows" => RowsInv
  /\ subject = "surrogates" => ScanningInv

\* The invariant holds where a conversion begins.
LEMMA ConversionsBegin == Init => ConversionInv
<1> SUFFICES ASSUME Init PROVE ConversionInv
  OBVIOUS
<1>1. CASE subject = "compiler" /\ Compiling!Init
  BY <1>1, CompilationBegins DEF ConversionInv
<1>2. CASE subject = "condition" /\ Choosing!Init
  BY <1>2, ChoiceBegins DEF ConversionInv
<1>3. CASE subject = "rows" /\ Rows!Init
  BY <1>3, RowsBegin DEF ConversionInv
<1>4. CASE subject = "surrogates" /\ Scanning!Init
  BY <1>4, ScanningBegins DEF ConversionInv
<1> QED
  BY <1>1, <1>2, <1>3, <1>4 DEF Init

\* A step is one of the subject, which stays what it is.
LEMMA ConversionsStep == ConversionInv /\ [Next]_conversion => ConversionInv'
<1> SUFFICES ASSUME ConversionInv, [Next]_conversion PROVE ConversionInv'
  OBVIOUS
<1>1. subject' = subject /\ subject \in {"compiler", "condition", "rows", "surrogates"}
  BY DEF ConversionInv, Next, conversion
<1>2. CASE subject = "compiler"
  <2>1. Compiling!Next \/ UNCHANGED Compiling!vars
    BY <1>2 DEF Next, conversion, compilation, Compiling!vars
  <2>2. CompilationInv'
    BY <1>2, <2>1, CompilationStep DEF ConversionInv
  <2> QED
    BY <1>1, <1>2, <2>2 DEF ConversionInv
<1>3. CASE subject = "condition"
  <2>1. Choosing!Next \/ UNCHANGED Choosing!vars
    BY <1>3 DEF Next, conversion, choice, Choosing!vars
  <2>2. ChoiceInv'
    BY <1>3, <2>1, ChoiceStep DEF ConversionInv
  <2> QED
    BY <1>1, <1>3, <2>2 DEF ConversionInv
<1>4. CASE subject = "rows"
  <2>1. Rows!Next \/ UNCHANGED Rows!vars
    BY <1>4 DEF Next, conversion, rowing, Rows!vars
  <2>2. RowsInv'
    BY <1>4, <2>1, RowsStep DEF ConversionInv
  <2> QED
    BY <1>1, <1>4, <2>2 DEF ConversionInv
<1>5. CASE subject = "surrogates"
  <2>1. Scanning!Next \/ UNCHANGED Scanning!vars
    BY <1>5 DEF Next, conversion, scanning, Scanning!vars
  <2>2. ScanningInv'
    BY <1>5, <2>1, ScanningStep DEF ConversionInv
  <2> QED
    BY <1>1, <1>5, <2>2 DEF ConversionInv
<1> QED
  BY <1>1, <1>2, <1>3, <1>4, <1>5

\* The invariant of the four is one of every behaviour.
LEMMA ConversionsKeepTheirInvariants == Spec => []ConversionInv
BY ConversionsBegin, ConversionsStep, PTL DEF Spec

\* What the invariant says of the properties.
LEMMA ConversionInvSuffices ==
  ASSUME ConversionInv
  PROVE  /\ VerdictIsRight /\ PlanIsExecutable /\ CountersAreExact
         /\ PublishedStaysValid /\ OutcomeIsRight
         /\ LoadedIsWhatWasSaved /\ NoFalseRewrite /\ RowsMeetTheSchema
         /\ OnlyPairsPass
<1>1. VerdictIsRight /\ PlanIsExecutable /\ CountersAreExact
  BY CompilationInvSuffices DEF ConversionInv, VerdictIsRight, PlanIsExecutable, CountersAreExact
<1>2. PublishedStaysValid /\ OutcomeIsRight
  BY DEF ConversionInv, ChoiceInv, PublishedStaysValid, OutcomeIsRight
<1>3. LoadedIsWhatWasSaved /\ NoFalseRewrite /\ RowsMeetTheSchema
  BY RowsInvSuffices DEF ConversionInv, LoadedIsWhatWasSaved, NoFalseRewrite, RowsMeetTheSchema
<1>4. OnlyPairsPass
  BY ScanningInvSuffices DEF ConversionInv, OnlyPairsPass
<1> QED
  BY <1>1, <1>2, <1>3, <1>4

(* compileDefinition accepts exactly the definitions that can be executed:   *)
(* for every list of nodes and edges, every registry and every order in      *)
(* which Go ranges over the indegree map, and a refusal names a defect.      *)
THEOREM CompilerIsRight == Spec => []VerdictIsRight
<1>1. ConversionInv => VerdictIsRight
  BY ConversionInvSuffices
<1> QED
  BY <1>1, ConversionsKeepTheirInvariants, PTL

(* The indexes of an accepted definition hold its edges and no other, begin  *)
(* with the unconditional route of the start, and route nothing back to it   *)
(* or on from an end: what engine.go advance takes for granted.              *)
THEOREM CompiledPlansAreExecutable == Spec => []PlanIsExecutable
<1>1. ConversionInv => PlanIsExecutable
  BY ConversionInvSuffices
<1> QED
  BY <1>1, ConversionsKeepTheirInvariants, PTL

(* validateAcyclic counts every node down by exactly the edges, parallel     *)
(* ones included, whose source it removed, and queues it once.               *)
THEOREM CountersStayExact == Spec => []CountersAreExact
<1>1. ConversionInv => CountersAreExact
  BY ConversionInvSuffices
<1> QED
  BY <1>1, ConversionsKeepTheirInvariants, PTL

(* A configuration that validateExpression admitted is never found invalid   *)
(* by evaluateExpression, whatever the data of the instance.                 *)
THEOREM PublishedConfigsStayValid == Spec => []PublishedStaysValid
<1>1. ConversionInv => PublishedStaysValid
  BY ConversionInvSuffices
<1> QED
  BY <1>1, ConversionsKeepTheirInvariants, PTL

(* activateConfig gives the outcome of the one rule that holds, or the       *)
(* default, and only when every expression of every rule could be evaluated. *)
THEOREM OutcomesAreRight == Spec => []OutcomeIsRight
<1>1. ConversionInv => OutcomeIsRight
  BY ConversionInvSuffices
<1> QED
  BY <1>1, ConversionsKeepTheirInvariants, PTL

(* What Load decodes is the aggregate of the last commit, for every batch    *)
(* size and every number of tasks and records, on either adapter: payload    *)
(* strings that are no text, ids and actions included, as the text json makes*)
(* of them, all else as it was passed.                                       *)
THEOREM LoadsGiveWhatWasSaved == Spec => []LoadedIsWhatWasSaved
<1>1. ConversionInv => LoadedIsWhatWasSaved
  BY ConversionInvSuffices
<1> QED
  BY <1>1, ConversionsKeepTheirInvariants, PTL

(* validateAuditAppend never refuses a caller that added to what it loaded.  *)
THEOREM HistoriesAreNotRefused == Spec => []NoFalseRewrite
<1>1. ConversionInv => NoFalseRewrite
  BY ConversionInvSuffices
<1> QED
  BY <1>1, ConversionsKeepTheirInvariants, PTL

(* No committed row breaks a constraint of the schema or exceeds a column    *)
(* of MySQL's, and the tasks of an instance have different ids.              *)
THEOREM RowsStayWithinTheSchema == Spec => []RowsMeetTheSchema
<1>1. ConversionInv => RowsMeetTheSchema
  BY ConversionInvSuffices
<1> QED
  BY <1>1, ConversionsKeepTheirInvariants, PTL

(* validateEscapedSurrogates lets a well-formed source of any length pass    *)
(* exactly when each high surrogate is followed by a low one and each low    *)
(* one follows a high one.                                                   *)
THEOREM OnlyPairsArePassed == Spec => []OnlyPairsPass
<1>1. ConversionInv => OnlyPairsPass
  BY ConversionInvSuffices
<1> QED
  BY <1>1, ConversionsKeepTheirInvariants, PTL
=============================================================================
