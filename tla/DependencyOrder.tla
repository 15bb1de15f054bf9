--------------------------- MODULE DependencyOrder ---------------------------
(***************************************************************************)
(* The dependency graph of internal/dependency/resolver.go, its            *)
(* topological sort and the search for a cycle, as one call of             *)
(* ResolveDeploymentOrder and, when that fails, of DetectCycles.           *)
(*                                                                         *)
(* Both are sequential; what is not determined is the order in which Go    *)
(* ranges over a map (the graph, the in-degrees) and, since workloads are  *)
(* listed from a map, the order of the edges that leave a node.  A step is *)
(* one turn of a loop.                                                     *)
(***************************************************************************)
EXTENDS Integers, SequencesExt

CONSTANTS
    Ids,     \* workload IDs
    MaxDeps, \* bound: entries of Spec.Dependencies
    MaxEdges \* bound: entries of all the Spec.Dependencies together

ASSUME OrderAssumption ==
    /\ IsFiniteSet(Ids)
    /\ {MaxDeps, MaxEdges} \subseteq Nat

VARIABLES
    listed,   \* the IDs of the workloads to be ordered
    deps,     \* Spec.Dependencies: the WorkloadIDs, in order, perhaps repeated
    graph,    \* the edges of the dependency graph
    inDegree, \* of topologicalSort
    queue,    \* of topologicalSort
    result,   \* of topologicalSort
    visited,  \* of findCycle
    path,     \* of findCycle; the recursion stack holds the same IDs
    todo,     \* edges that findCycleDFS has not looked at yet
    cycle,    \* the answer of DetectCycles
    stage     \* "sort", then "ordered", or "search" and "circular"

sortVars == <<inDegree, queue, result>>
searchVars == <<visited, path, todo, cycle>>
given == <<listed, deps, graph>>
orderVars == <<given, sortVars, searchVars, stage>>

DepLists == UNION {[1 .. k -> Ids] : k \in 0 .. MaxDeps}

Edge == [from : Ids, to : Ids, at : 1 .. MaxDeps]

(* buildDependencyGraph.  An entry of Dependencies is an edge, so a        *)
(* repeated one is two; an ID that is not listed becomes a node, too.      *)
buildDependencyGraph ==
    UNION {{[from |-> deps[w][i], to |-> w, at |-> i] : i \in DOMAIN deps[w]} : w \in listed}

Nodes == listed \cup {e.from : e \in graph}

EdgesBetween(m, n) == {e \in graph : e.from = m /\ e.to = n}
Neighbors(n) == {e.to : e \in {f \in graph : f.from = n}}

(* Mutant of InDegree: a repeated dependency counts once.                  *)
InDegreeDistinct(n) == Cardinality({e.from : e \in {f \in graph : f.to = n}})

InDegree(n) == Cardinality({e \in graph : e.to = n})

OrderTypeOK ==
    /\ listed \in SUBSET Ids
    /\ deps \in [Ids -> DepLists]
    /\ graph \subseteq Edge
    /\ inDegree \in [Nodes -> Nat]
    /\ queue \in Seq(Nodes)
    /\ result \in Seq(Nodes)
    /\ visited \subseteq Nodes
    /\ path \in Seq(Nodes)
    /\ todo \in [Nodes -> SUBSET Nodes]
    /\ cycle \in Seq(Nodes)
    /\ stage \in {"sort", "ordered", "search", "circular"}

(* Any workloads, and any dependencies; the initial queue is in map order. *)
OrderInit ==
    /\ listed \in SUBSET Ids
    /\ deps \in {d \in [Ids -> DepLists] : \A id \in Ids \ listed : d[id] = <<>>}
    /\ graph = buildDependencyGraph
    /\ Cardinality(graph) <= MaxEdges
    /\ inDegree = [n \in Nodes |-> InDegree(n)]
    /\ queue \in SetToSeqs({n \in Nodes : InDegree(n) = 0})
    /\ result = <<>>
    /\ visited = {}
    /\ path = <<>>
    /\ todo = [n \in Nodes |-> Neighbors(n)]
    /\ cycle = <<>>
    /\ stage = "sort"

(* Mutant of Freed: a neighbor is enqueued as soon as its in-degree drops. *)
FreedEarly(node) == Neighbors(node) \ (ToSet(queue) \cup ToSet(result))

(* The neighbors whose in-degree reaches zero when node is taken.          *)
Freed(node) ==
    {n \in Neighbors(node) : inDegree[n] = Cardinality(EdgesBetween(node, n))}

(* One turn of the loop "Process nodes".                                   *)
SortStep ==
    LET node == Head(queue) IN
    /\ stage = "sort"
    /\ queue # <<>>
    /\ result' = Append(result, node)
    /\ inDegree' = [n \in Nodes |-> inDegree[n] - Cardinality(EdgesBetween(node, n))]
    /\ \E more \in SetToSeqs(Freed(node)) : queue' = Tail(queue) \o more
    /\ UNCHANGED <<given, searchVars, stage>>

(* "Check for cycles": DetectCycles gets the same error and searches.      *)
SortEnds ==
    /\ stage = "sort"
    /\ queue = <<>>
    /\ stage' = IF Len(result) = Cardinality(Nodes) THEN "ordered" ELSE "search"
    /\ UNCHANGED <<given, sortVars, searchVars>>

(***************************************************************************)
(* findCycle.                                                              *)
(***************************************************************************)
Enter(n) ==
    /\ visited' = visited \cup {n}
    /\ path' = Append(path, n)

(* findCycle starts a search at an unvisited node.                         *)
SearchFrom(n) ==
    /\ stage = "search"
    /\ path = <<>>
    /\ n \in Nodes \ visited
    /\ Enter(n)
    /\ UNCHANGED <<given, sortVars, todo, cycle, stage>>

(* Mutant of CycleFrom: the cycle is not cut out of the path.              *)
CycleFromStart(n) == Append(path, n)

CycleFrom(n) ==
    LET start == CHOOSE i \in DOMAIN path : path[i] = n
    IN Append(SubSeq(path, start, Len(path)), n)

(* findCycleDFS looks at a neighbor of the node it is at.                  *)
SearchEdge(n) ==
    LET node == Last(path) IN
    /\ stage = "search"
    /\ path # <<>>
    /\ n \in todo[node]
    /\ todo' = [todo EXCEPT ![node] = @ \ {n}]
    /\ \/ n \notin visited /\ Enter(n) /\ UNCHANGED <<cycle, stage>>
       \/ /\ n \in ToSet(path)
          /\ cycle' = CycleFrom(n)
          /\ stage' = "circular"
          /\ UNCHANGED <<visited, path>>
       \/ /\ n \in visited \ ToSet(path)
          /\ UNCHANGED <<visited, path, cycle, stage>>
    /\ UNCHANGED <<given, sortVars>>

(* Its loop ends: the node leaves the path.                                *)
SearchReturn ==
    /\ stage = "search"
    /\ path # <<>>
    /\ todo[Last(path)] = {}
    /\ path' = Front(path)
    /\ UNCHANGED <<given, sortVars, visited, todo, cycle, stage>>

(* Here findCycle would return nil.                                        *)
NoCycleFound ==
    /\ stage = "search"
    /\ path = <<>>
    /\ visited = Nodes

ResolveDeploymentOrder == SortStep \/ SortEnds

DetectCycles ==
    \/ \E n \in Nodes : SearchFrom(n) \/ SearchEdge(n)
    \/ SearchReturn

OrderNext == ResolveDeploymentOrder \/ DetectCycles

(* IDs are mapped back to the workloads that were listed: the deployment   *)
(* order are the workloads at these positions of result, in order.         *)
DeploymentOrder == {i \in DOMAIN result : result[i] \in listed}

(***************************************************************************)
(* The sort implements DeployOrder.                                        *)
(***************************************************************************)
Needs == [n \in Nodes |-> {e.from : e \in {f \in graph : f.to = n}}]

Verdict ==
    CASE stage = "sort"    -> "none"
      [] stage = "ordered" -> "ordered"
      [] OTHER             -> "circular"

Abstract == INSTANCE DeployOrder WITH needs <- Needs, order <- result, verdict <- Verdict

(* ResolveDeploymentOrder never places a workload before something it      *)
(* depends on, never twice, leaves nothing out, and fails exactly when no  *)
(* order exists, for repeated dependencies, dependencies on oneself and on *)
(* workloads that are not listed, and in whatever order Go ranges over its *)
(* maps.                                                                   *)
ImplementsDeployOrder == Abstract!Spec

(* What DetectCycles reports is a cycle of the graph, closed by its first  *)
(* ID, and it reports one whenever the sort failed: the search cannot end  *)
(* without.                                                                *)
CycleReported ==
    /\ ~NoCycleFound
    /\ stage = "circular" =>
          /\ Len(cycle) > 1
          /\ cycle[1] = Last(cycle)
          /\ \A i \in 1 .. Len(cycle) - 1 : cycle[i + 1] \in Neighbors(cycle[i])
==============================================================================
