------------------------------- MODULE Compiler -------------------------------
(***************************************************************************)
(* compiler.go: what compileDefinition accepts.  A definition is indexed   *)
(* node by node and edge by edge, then three graph scans and the handler   *)
(* checks follow; each loop iteration is one step.  Roots enter the        *)
(* topological queue in Go's map order, which is any order.                *)
(***************************************************************************)
EXTENDS Integers, Sequences, FiniteSets, SequencesExt

CONSTANTS
  Definitions,       \* the definitions a caller may submit
  Registered,        \* kinds the registry has a handler for
  Prepares(_, _),    \* whether the handler of a kind accepts a valid JSON config
  NotJSON            \* a config that is not JSON

VARIABLES
  def,       \* the frozen definition: [id, nodes, edges]
  pc,        \* the pass compilation is in
  pos,       \* the next element of the list a pass ranges over
  a,         \* the analysis: indexes derived from nodes and edges
  scan,      \* the state of the current graph scan
  verdict    \* "" while compiling, then "ok" or the class of the error

vars == <<def, pc, pos, a, scan, verdict>>

DefinitionsAreLists ==
  \A d \in Definitions : d.nodes \in Seq(ToSet(d.nodes)) /\ d.edges \in Seq(ToSet(d.edges))

\* An assignment to a Go map.
With(map, key, value) ==
  [k \in DOMAIN map \union {key} |-> IF k = key THEN value ELSE map[k]]

NodeIds == DOMAIN a.nodes
Kind(id) == def.nodes[a.nodes[id]].kind

NoAnalysis == [nodes |-> << >>, starts |-> << >>, ends |-> << >>, routes |-> << >>,
               adjacency |-> << >>, predecessors |-> << >>, indegree |-> << >>]
NoScan == [queue |-> << >>, targets |-> << >>, visited |-> {}, order |-> << >>, remaining |-> << >>]

Init ==
  /\ def \in Definitions
  /\ pc = "nodes" /\ pos = 1
  /\ a = NoAnalysis /\ scan = NoScan
  /\ verdict = ""

Refuse(class) ==
  /\ verdict' = class /\ pc' = "done"
  /\ UNCHANGED <<def, pos, a, scan>>

Enter(pass) ==
  /\ pc' = pass /\ pos' = 1
  /\ UNCHANGED <<def, a, verdict>>

-----------------------------------------------------------------------------
(* indexNodes. *)

NodeIsBad(node) == node.id = "" \/ node.kind = "" \/ node.id \in NodeIds

WithNode(node) ==
  [nodes |-> With(a.nodes, node.id, pos),
   starts |-> IF node.kind = "start" THEN Append(a.starts, node.id) ELSE a.starts,
   ends |-> IF node.kind = "end" THEN Append(a.ends, node.id) ELSE a.ends,
   routes |-> a.routes,
   adjacency |-> With(a.adjacency, node.id, << >>),
   predecessors |-> With(a.predecessors, node.id, << >>),
   indegree |-> With(a.indegree, node.id, 0)]

IndexNode ==
  /\ pc = "nodes" /\ pos <= Len(def.nodes)
  /\ def.id # ""
  /\ IF NodeIsBad(def.nodes[pos]) THEN Refuse("structure")
     ELSE /\ a' = WithNode(def.nodes[pos]) /\ pos' = pos + 1
          /\ UNCHANGED <<def, pc, scan, verdict>>

NodesIndexed ==
  /\ pc = "nodes" /\ (pos > Len(def.nodes) \/ def.id = "")
  /\ IF def.id = "" \/ Len(a.starts) # 1 \/ a.ends = << >> THEN Refuse("structure")
     ELSE Enter("edges") /\ UNCHANGED scan

-----------------------------------------------------------------------------
(* indexEdges. *)

StartID == a.starts[1]
Selector(edge) == <<edge.from, edge.outcome>>

\* WithEdge for a route that leads to target.
Routed(edge, target) ==
  [nodes |-> a.nodes, starts |-> a.starts, ends |-> a.ends,
   routes |-> With(a.routes, Selector(edge), target),
   adjacency |-> [a.adjacency EXCEPT ![edge.from] = Append(@, edge.to)],
   predecessors |-> [a.predecessors EXCEPT ![edge.to] = Append(@, edge.from)],
   indegree |-> [a.indegree EXCEPT ![edge.to] = @ + 1]]

\* WithEdge, mutated: the route leads back to its source.
WithEdgeBack(edge) == Routed(edge, edge.from)
WithEdge(edge) == Routed(edge, edge.to)

EdgeIsBad(edge) ==
  edge.from \notin NodeIds \/ edge.to \notin NodeIds \/ Kind(edge.from) = "end"

IndexEdge ==
  /\ pc = "edges" /\ pos <= Len(def.edges)
  /\ LET edge == def.edges[pos] IN
     IF EdgeIsBad(edge) THEN Refuse("structure")
     ELSE IF Selector(edge) \in DOMAIN a.routes THEN Refuse("ambiguous")
     ELSE /\ a' = WithEdge(edge) /\ pos' = pos + 1
          /\ UNCHANGED <<def, pc, scan, verdict>>

\* validateAcyclic seeds its queue by ranging over a map: in any order.
EdgesIndexed ==
  /\ pc = "edges" /\ pos > Len(def.edges)
  /\ Enter("acyclic")
  /\ \E roots \in SetToSeqs({n \in NodeIds : a.indegree[n] = 0}) :
       scan' = [NoScan EXCEPT !.queue = roots, !.remaining = a.indegree]

-----------------------------------------------------------------------------
(* The three graph scans.  The front of the queue is popped, and then pos  *)
(* ranges over its neighbours, the targets of the scan.                    *)

RangedOver == pos > Len(scan.targets)

NextTarget(handled) ==
  /\ ~RangedOver
  /\ scan' = handled /\ pos' = pos + 1
  /\ UNCHANGED <<def, pc, a, verdict>>

Pop(neighbours) ==
  /\ RangedOver /\ scan.queue # << >>
  /\ scan' = [scan EXCEPT !.queue = Tail(@), !.order = Append(@, Head(scan.queue)),
                          !.targets = neighbours[Head(scan.queue)]]
  /\ pos' = 1
  /\ UNCHANGED <<def, pc, a, verdict>>

ScanEnds == RangedOver /\ scan.queue = << >>

\* Release, mutated: any removed predecessor is the last.
ReleaseEarly(s, target) ==
  [s EXCEPT !.remaining[target] = @ - 1, !.queue = Append(@, target)]

\* One successor's last predecessor may have been removed.
Release(s, target) ==
  LET left == s.remaining[target] - 1 IN
  [s EXCEPT !.remaining[target] = left,
            !.queue = IF left = 0 THEN Append(@, target) ELSE @]

RemoveReady == pc = "acyclic" /\ Pop(a.adjacency)
ReleaseTarget == pc = "acyclic" /\ NextTarget(Release(scan, scan.targets[pos]))

Acyclic ==
  /\ pc = "acyclic" /\ ScanEnds
  /\ IF Len(scan.order) # Cardinality(NodeIds) THEN Refuse("structure")
     ELSE /\ Enter("reachable")
          /\ scan' = [NoScan EXCEPT !.queue = <<StartID>>, !.visited = {StartID}]

Visit(s, target) ==
  IF target \in s.visited THEN s
  ELSE [s EXCEPT !.visited = @ \union {target}, !.queue = Append(@, target)]

VisitTarget == pc \in {"reachable", "ends"} /\ NextTarget(Visit(scan, scan.targets[pos]))
PopReachable == pc = "reachable" /\ Pop(a.adjacency)

\* Reachable, mutated: what the scan did not visit is not missed.
ReachableOrNot ==
  /\ pc = "reachable" /\ ScanEnds
  /\ Enter("ends")
  /\ scan' = [NoScan EXCEPT !.queue = a.ends, !.visited = ToSet(a.ends)]

Reachable ==
  /\ pc = "reachable" /\ ScanEnds
  /\ IF scan.visited # NodeIds THEN Refuse("structure")
     ELSE /\ Enter("ends")
          /\ scan' = [NoScan EXCEPT !.queue = a.ends, !.visited = ToSet(a.ends)]

PopCoreachable == pc = "ends" /\ Pop(a.predecessors)

CanReachEnd ==
  /\ pc = "ends" /\ ScanEnds
  /\ IF scan.visited # NodeIds THEN Refuse("structure")
     ELSE Enter("config") /\ scan' = NoScan

-----------------------------------------------------------------------------
(* compileDefinition, after the analysis. *)

CheckConfig ==
  /\ pc = "config"
  /\ IF \E k \in DOMAIN def.nodes : def.nodes[k].config = NotJSON THEN Refuse("config")
     ELSE IF <<StartID, "">> \notin DOMAIN a.routes THEN Refuse("no route")
     ELSE IF Len(a.adjacency[StartID]) # 1 THEN Refuse("structure")
     ELSE Enter("prepare") /\ UNCHANGED scan

PrepareNode ==
  /\ pc = "prepare" /\ pos <= Len(def.nodes)
  /\ LET node == def.nodes[pos] IN
     IF node.kind \in {"start", "end"} \/ (node.kind \in Registered /\ Prepares(node.kind, node.config))
     THEN pos' = pos + 1 /\ UNCHANGED <<def, pc, a, scan, verdict>>
     ELSE Refuse(IF node.kind \in Registered THEN "config" ELSE "no handler")

Compiled ==
  /\ pc = "prepare" /\ pos > Len(def.nodes)
  /\ pc' = "done" /\ verdict' = "ok"
  /\ UNCHANGED <<def, pos, a, scan>>

Next ==
  \/ IndexNode \/ NodesIndexed \/ IndexEdge \/ EdgesIndexed
  \/ RemoveReady \/ ReleaseTarget \/ Acyclic
  \/ VisitTarget \/ PopReachable \/ Reachable \/ PopCoreachable \/ CanReachEnd
  \/ CheckConfig \/ PrepareNode \/ Compiled

Spec == Init /\ [][Next]_vars

-----------------------------------------------------------------------------
(* What an executable definition is, without reference to the algorithm. *)

DefNodes == {def.nodes[k].id : k \in DOMAIN def.nodes}
DefEdges == ToSet(def.edges)
OfKind(kind) == {def.nodes[k].id : k \in {j \in DOMAIN def.nodes : def.nodes[j].kind = kind}}
Arrows == {<<e.from, e.to>> : e \in DefEdges}

WellNamed ==
  /\ def.id # ""
  /\ \A k \in DOMAIN def.nodes : def.nodes[k].id # "" /\ def.nodes[k].kind # ""
  /\ Cardinality(DefNodes) = Len(def.nodes)
  /\ Cardinality(OfKind("start")) = 1 /\ OfKind("end") # {}
  /\ \A e \in DefEdges : e.from \in DefNodes \ OfKind("end") /\ e.to \in DefNodes

Deterministic ==
  \A j, k \in DOMAIN def.edges : Selector(def.edges[j]) = Selector(def.edges[k]) => j = k

\* A cycle is a set of nodes each of which has a successor in the set.
HasNoCycle ==
  \A X \in (SUBSET DefNodes) \ {{}} : \E x \in X : \A y \in X : <<x, y>> \notin Arrows
AllFromStart ==
  \A X \in SUBSET DefNodes :
    (OfKind("start") \subseteq X /\ \A e \in Arrows : e[1] \in X => e[2] \in X) => X = DefNodes
AllToAnEnd ==
  \A X \in SUBSET DefNodes :
    (OfKind("end") \subseteq X /\ \A e \in Arrows : e[2] \in X => e[1] \in X) => X = DefNodes

StartsUnconditionally ==
  \E e \in DefEdges : e.outcome = "" /\ {d \in DefEdges : d.from \in OfKind("start")} = {e}
HandlersAccept ==
  \A k \in DOMAIN def.nodes :
    LET node == def.nodes[k] IN
    /\ node.config # NotJSON
    /\ node.kind \in {"start", "end"} \/ (node.kind \in Registered /\ Prepares(node.kind, node.config))

WellFormed ==
  /\ WellNamed /\ Deterministic
  /\ HasNoCycle /\ AllFromStart /\ AllToAnEnd
  /\ StartsUnconditionally /\ HandlersAccept

(***************************************************************************)
(* compileDefinition accepts exactly the executable definitions, whatever  *)
(* order Go's maps are ranged over in, and the class of a refusal names a  *)
(* defect the definition has.                                              *)
(***************************************************************************)
VerdictIsRight ==
  /\ verdict = "ok" => WellFormed
  /\ verdict \notin {"", "ok"} => ~WellFormed
  /\ verdict = "ambiguous" => ~Deterministic
  /\ verdict \in {"config", "no handler"} => ~HandlersAccept
  /\ verdict = "no route" => ~StartsUnconditionally

(***************************************************************************)
(* The indexes handed to the engine are the ones it relies on: they hold   *)
(* every edge and no other, the start has its unconditional route, nothing *)
(* routes back to the start and no end routes on (PlanAssumption of        *)
(* Aggregate, which engine.go advance depends on).                         *)
(***************************************************************************)
PlanIsExecutable ==
  verdict = "ok" =>
    /\ DOMAIN a.routes = {Selector(e) : e \in DefEdges}
    /\ \A e \in DefEdges : a.routes[Selector(e)] = e.to
    /\ <<StartID, "">> \in DOMAIN a.routes
    /\ \A s \in DOMAIN a.routes : a.routes[s] # StartID /\ Kind(s[1]) # "end"

(***************************************************************************)
(* The counters of validateAcyclic: each node waits for exactly the edges, *)
(* parallel ones included, whose source is not removed yet or which are    *)
(* being removed, is queued once when it waits for none, and is removed at *)
(* most once; so the scan ends.                                            *)
(***************************************************************************)
CountersAreExact ==
  pc = "acyclic" =>
    LET started == scan.order \o scan.queue
        removed == ToSet(scan.order)
    IN
    /\ IsInjective(started)
    /\ \A n \in NodeIds :
         scan.remaining[n] =
           Cardinality({k \in DOMAIN def.edges : def.edges[k].to = n /\ def.edges[k].from \notin removed})
           + Cardinality({j \in pos .. Len(scan.targets) : scan.targets[j] = n})
    /\ \A n \in NodeIds : n \in ToSet(started) <=> scan.remaining[n] = 0
=============================================================================
