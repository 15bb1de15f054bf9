-------------------------- MODULE Dependencies_proofs --------------------------
(***************************************************************************)
(* Proofs about Dependencies, for every finite set of workloads and every  *)
(* dependency graph on it: the topological sort implements DeployOrder,    *)
(* the search after a failed sort reports a cycle, no workload is started  *)
(* before its dependencies were seen to be satisfied, and without failures *)
(* nobody waits in vain.                                                   *)
(***************************************************************************)
EXTENDS Dependencies, CircuitEngine_proofs, FiniteSetTheorems, TLAPS

(* The edges into a node whose other end is not placed yet.                *)
OpenEdges(n) == {e \in graph : e.to = n /\ e.from \notin ToSet(result)}

GraphOK ==
    /\ IsFiniteSet(Nodes)
    /\ IsFiniteSet(graph)
    /\ \A e \in graph : e.from \in Nodes /\ e.to \in Nodes

(* The sort: in-degrees count the open edges, and a node is enqueued or    *)
(* placed exactly when it has none.                                        *)
SortOK ==
    /\ queue \in Seq(Nodes) /\ IsInjective(queue)
    /\ result \in Seq(Nodes) /\ IsInjective(result)
    /\ ToSet(queue) \cap ToSet(result) = {}
    /\ inDegree \in [Nodes -> Nat]
    /\ \A n \in Nodes : inDegree[n] = Cardinality(OpenEdges(n))
    /\ \A n \in Nodes : n \in ToSet(queue) \cup ToSet(result) <=> OpenEdges(n) = {}

(* The nodes that the search has left.                                     *)
Finished == visited \ ToSet(path)

(* A neighbor that is not to be looked at any more was left, or comes next *)
(* on the path.                                                            *)
Followed(i) ==
    \A n \in Neighbors(path[i]) \ todo[path[i]] :
       n \in Finished \/ (i < Len(path) /\ path[i + 1] = n)

(* Some node of the set follows none of its nodes.                         *)
HasSource(S) == \E n \in S : \A m \in S : n \notin Neighbors(m)

PathOK ==
    /\ visited \subseteq Nodes
    /\ path \in Seq(Nodes) /\ IsInjective(path)
    /\ ToSet(path) \subseteq visited
    /\ \A i \in 1 .. Len(path) - 1 : path[i + 1] \in Neighbors(path[i])

TodoOK ==
    /\ todo \in [Nodes -> SUBSET Nodes]
    /\ \A n \in Nodes \ visited : todo[n] = Neighbors(n)
    /\ \A n \in Nodes : todo[n] \subseteq Neighbors(n)
    /\ stage # "circular" => \A i \in 1 .. Len(path) : Followed(i)

(* There is no cycle among the nodes that the search has left.             *)
FinishedOK ==
    /\ \A n \in Finished : Neighbors(n) \subseteq Finished
    /\ \A S \in SUBSET Finished : S # {} => HasSource(S)

CycleOK ==
    /\ stage \in {"sort", "ordered", "search", "circular"}
    /\ stage \in {"sort", "ordered"} => visited = {} /\ path = <<>>
    /\ stage = "search" => Abstract!Circular
    /\ cycle \in Seq(Nodes)
    /\ stage = "circular" =>
          /\ Len(cycle) > 1
          /\ cycle[1] = Last(cycle)
          /\ \A i \in 1 .. Len(cycle) - 1 : cycle[i + 1] \in Neighbors(cycle[i])

OrderInv == GraphOK /\ SortOK /\ PathOK /\ TodoOK /\ FinishedOK /\ CycleOK

(***************************************************************************)
(* Sequences without repetitions and the sets of their elements.           *)
(***************************************************************************)
LEMMA AppendSet ==
    ASSUME NEW S, NEW s \in Seq(S), NEW x \in S
    PROVE  /\ Append(s, x) \in Seq(S)
           /\ ToSet(Append(s, x)) = ToSet(s) \cup {x}
           /\ IsInjective(s) /\ x \notin ToSet(s) => IsInjective(Append(s, x))
  <1> DEFINE t == Append(s, x)
  <1>1. /\ t \in Seq(S) /\ Len(t) = Len(s) + 1 /\ Len(s) \in Nat
        /\ t[Len(s) + 1] = x
        /\ \A i \in 1 .. Len(s) : t[i] = s[i]
        /\ DOMAIN t = 1 .. Len(s) + 1 /\ DOMAIN s = 1 .. Len(s)
    OBVIOUS
  <1> HIDE DEF t
  <1>2. ToSet(t) = ToSet(s) \cup {x}
    <2>1. \A i \in DOMAIN t : t[i] \in ToSet(s) \cup {x}
      BY <1>1 DEF ToSet
    <2>2. \A i \in DOMAIN s : s[i] \in ToSet(t)
      BY <1>1 DEF ToSet
    <2>3. x \in ToSet(t)
      BY <1>1 DEF ToSet
    <2> QED BY <2>1, <2>2, <2>3 DEF ToSet
  <1>3. ASSUME IsInjective(s), x \notin ToSet(s)
        PROVE  IsInjective(t)
    <2>1. \A i \in 1 .. Len(s) : s[i] # x
      BY <1>1, <1>3 DEF ToSet
    <2> QED BY <1>1, <1>3, <2>1 DEF IsInjective
  <1> QED BY <1>1, <1>2, <1>3 DEF t

LEMMA TailSet ==
    ASSUME NEW S, NEW s \in Seq(S), s # <<>>, IsInjective(s)
    PROVE  /\ Head(s) \in S /\ Tail(s) \in Seq(S)
           /\ ToSet(s) = ToSet(Tail(s)) \cup {Head(s)}
           /\ IsInjective(Tail(s)) /\ Head(s) \notin ToSet(Tail(s))
  <1> DEFINE t == Tail(s)
  <1>1. /\ Len(s) \in Nat /\ Len(s) >= 1
        /\ t \in Seq(S) /\ Len(t) = Len(s) - 1
        /\ Head(s) = s[1] /\ s[1] \in S
        /\ \A i \in 1 .. Len(t) : t[i] = s[i + 1]
        /\ DOMAIN t = 1 .. Len(t) /\ DOMAIN s = 1 .. Len(s)
    OBVIOUS
  <1> HIDE DEF t
  <1>2. ToSet(s) = ToSet(t) \cup {Head(s)}
    <2>1. ASSUME NEW i \in DOMAIN s
          PROVE  s[i] \in ToSet(t) \cup {s[1]}
      <3>1. CASE i = 1
        BY <3>1
      <3>2. CASE i # 1
        <4>1. i - 1 \in 1 .. Len(t) /\ t[i - 1] = s[i]
          BY <1>1, <3>2
        <4> QED BY <1>1, <4>1 DEF ToSet
      <3> QED BY <3>1, <3>2
    <2>2. \A i \in DOMAIN t : t[i] \in ToSet(s)
      BY <1>1 DEF ToSet
    <2>3. s[1] \in ToSet(s)
      BY <1>1 DEF ToSet
    <2> QED BY <1>1, <2>1, <2>2, <2>3 DEF ToSet
  <1>3. IsInjective(t)
    <2> SUFFICES ASSUME NEW i \in DOMAIN t, NEW j \in DOMAIN t, t[i] = t[j]
                 PROVE  i = j
      BY DEF IsInjective
    <2>1. i + 1 \in DOMAIN s /\ j + 1 \in DOMAIN s /\ s[i + 1] = s[j + 1]
      BY <1>1
    <2>2. i + 1 = j + 1
      BY <2>1 DEF IsInjective
    <2> QED BY <1>1, <2>2
  <1>4. Head(s) \notin ToSet(t)
    <2> SUFFICES ASSUME NEW i \in DOMAIN t, t[i] = s[1] PROVE FALSE
      BY <1>1 DEF ToSet
    <2>1. i + 1 \in DOMAIN s /\ 1 \in DOMAIN s /\ s[i + 1] = s[1]
      BY <1>1
    <2>2. i + 1 = 1
      BY <2>1 DEF IsInjective
    <2> QED BY <1>1, <2>2
  <1> QED BY <1>1, <1>2, <1>3, <1>4 DEF t

LEMMA ConcatSet ==
    ASSUME NEW S, NEW s \in Seq(S), NEW t \in Seq(S)
    PROVE  /\ s \o t \in Seq(S)
           /\ ToSet(s \o t) = ToSet(s) \cup ToSet(t)
           /\ IsInjective(s) /\ IsInjective(t) /\ ToSet(s) \cap ToSet(t) = {}
                 => IsInjective(s \o t)
  <1> DEFINE u == s \o t
  <1>1. /\ u \in Seq(S) /\ Len(u) = Len(s) + Len(t) /\ Len(s) \in Nat /\ Len(t) \in Nat
        /\ \A i \in 1 .. Len(s) : u[i] = s[i]
        /\ \A i \in Len(s) + 1 .. Len(s) + Len(t) : u[i] = t[i - Len(s)]
        /\ DOMAIN u = 1 .. Len(u) /\ DOMAIN s = 1 .. Len(s) /\ DOMAIN t = 1 .. Len(t)
    OBVIOUS
  <1> HIDE DEF u
  <1>2. \A i \in 1 .. Len(t) : Len(s) + i \in DOMAIN u /\ u[Len(s) + i] = t[i]
    BY <1>1
  <1>3. \A i \in DOMAIN u : i > Len(s) => i - Len(s) \in 1 .. Len(t) /\ u[i] = t[i - Len(s)]
    BY <1>1
  <1>4. ToSet(u) = ToSet(s) \cup ToSet(t)
    <2>1. ASSUME NEW i \in DOMAIN u
          PROVE  u[i] \in ToSet(s) \cup ToSet(t)
      <3>1. CASE i <= Len(s)
        BY <1>1, <3>1 DEF ToSet
      <3>2. CASE ~(i <= Len(s))
        BY <1>1, <1>3, <3>2 DEF ToSet
      <3> QED BY <3>1, <3>2
    <2>2. \A i \in DOMAIN s : s[i] \in ToSet(u)
      BY <1>1 DEF ToSet
    <2>3. \A i \in DOMAIN t : t[i] \in ToSet(u)
      BY <1>1, <1>2 DEF ToSet
    <2> QED BY <2>1, <2>2, <2>3 DEF ToSet
  <1>5. ASSUME IsInjective(s), IsInjective(t), ToSet(s) \cap ToSet(t) = {}
        PROVE  IsInjective(u)
    <2> SUFFICES ASSUME NEW i \in DOMAIN u, NEW j \in DOMAIN u, u[i] = u[j]
                 PROVE  i = j
      BY DEF IsInjective
    <2>1. \A a \in DOMAIN s, b \in DOMAIN t : s[a] # t[b]
      BY <1>5 DEF ToSet
    <2>2. CASE i <= Len(s) /\ j <= Len(s)
      BY <1>1, <1>5, <2>2 DEF IsInjective
    <2>3. CASE i > Len(s) /\ j > Len(s)
      <3>1. i - Len(s) = j - Len(s)
        BY <1>1, <1>3, <1>5, <2>3 DEF IsInjective
      <3> QED BY <1>1, <3>1
    <2>4. CASE i <= Len(s) /\ j > Len(s)
      BY <1>1, <1>3, <2>1, <2>4
    <2>5. CASE i > Len(s) /\ j <= Len(s)
      BY <1>1, <1>3, <2>1, <2>5
    <2> QED BY <1>1, <2>2, <2>3, <2>4, <2>5
  <1> QED BY <1>1, <1>4, <1>5 DEF u

LEMMA FrontSet ==
    ASSUME NEW S, NEW s \in Seq(S), s # <<>>, IsInjective(s)
    PROVE  /\ Last(s) \in S /\ Front(s) \in Seq(S) /\ Len(Front(s)) = Len(s) - 1
           /\ \A i \in 1 .. Len(s) - 1 : Front(s)[i] = s[i]
           /\ ToSet(s) = ToSet(Front(s)) \cup {Last(s)}
           /\ IsInjective(Front(s)) /\ Last(s) \notin ToSet(Front(s))
  <1> DEFINE f == Front(s)
  <1>1. /\ Len(s) \in Nat /\ Len(s) >= 1
        /\ f \in Seq(S) /\ Len(f) = Len(s) - 1
        /\ Last(s) = s[Len(s)] /\ s[Len(s)] \in S
        /\ \A i \in 1 .. Len(s) - 1 : f[i] = s[i]
        /\ DOMAIN f = 1 .. Len(s) - 1 /\ DOMAIN s = 1 .. Len(s)
    <2>1. Len(s) \in Nat /\ Len(s) >= 1 /\ DOMAIN s = 1 .. Len(s) /\ s[Len(s)] \in S
      OBVIOUS
    <2>2. f = SubSeq(s, 1, Len(s) - 1) /\ Last(s) = s[Len(s)]
      BY DEF Front, Last
    <2> HIDE DEF f
    <2>3. f \in Seq(S) /\ Len(f) = Len(s) - 1
      BY <2>1, <2>2
    <2>4. \A i \in 1 .. Len(s) - 1 : f[i] = s[i]
      BY <2>1, <2>2
    <2>5. DOMAIN f = 1 .. Len(s) - 1
      BY <2>3
    <2> QED BY <2>1, <2>2, <2>3, <2>4, <2>5
  <1> HIDE DEF f
  <1>2. ToSet(s) = ToSet(f) \cup {Last(s)}
    <2>1. ASSUME NEW i \in DOMAIN s
          PROVE  s[i] \in ToSet(f) \cup {s[Len(s)]}
      BY <1>1 DEF ToSet
    <2>2. \A i \in DOMAIN f : f[i] \in ToSet(s)
      BY <1>1 DEF ToSet
    <2>3. s[Len(s)] \in ToSet(s)
      BY <1>1 DEF ToSet
    <2> QED BY <1>1, <2>1, <2>2, <2>3 DEF ToSet
  <1>3. IsInjective(f)
    BY <1>1 DEF IsInjective
  <1>4. Last(s) \notin ToSet(f)
    <2> SUFFICES ASSUME NEW i \in DOMAIN f, f[i] = s[Len(s)] PROVE FALSE
      BY <1>1 DEF ToSet
    <2>1. i \in DOMAIN s /\ Len(s) \in DOMAIN s /\ s[i] = s[Len(s)] /\ i # Len(s)
      BY <1>1
    <2> QED BY <2>1 DEF IsInjective
  <1> QED BY <1>1, <1>2, <1>3, <1>4 DEF f

(* Every order of a finite set has all its elements, each once.            *)
LEMMA OrdersOfSet ==
    ASSUME NEW S, IsFiniteSet(S), NEW s \in SetToSeqs(S)
    PROVE  s \in Seq(S) /\ IsInjective(s) /\ ToSet(s) = S
  <1> DEFINE n == Cardinality(S)
  <1>1. n \in Nat
    BY FS_CardinalityType
  <1>2. s \in [1 .. n -> S] /\ \A i, j \in 1 .. n : i # j => s[i] # s[j]
    BY DEF SetToSeqs
  <1> HIDE DEF n
  <1>3. s \in Seq(S) /\ DOMAIN s = 1 .. n
    BY <1>1, <1>2
  <1>4. IsInjective(s)
    BY <1>2, <1>3 DEF IsInjective
  <1>5. s \in Injection(1 .. n, S)
    BY <1>2, <1>4 DEF Injection
  <1>6. Cardinality(1 .. n) = n
    BY <1>1, FS_Interval
  <1>7. s \in Surjection(1 .. n, S)
    BY <1>5, <1>6, FS_Injection DEF n
  <1>8. ToSet(s) = S
    BY <1>2, <1>3, <1>7 DEF Surjection, ToSet
  <1> QED BY <1>3, <1>4, <1>8

(* A sequence without repetitions counts its elements.                     *)
LEMMA CountSet ==
    ASSUME NEW S, NEW s \in Seq(S), IsInjective(s)
    PROVE  IsFiniteSet(ToSet(s)) /\ Cardinality(ToSet(s)) = Len(s)
  <1>1. Len(s) \in Nat /\ DOMAIN s = 1 .. Len(s)
    OBVIOUS
  <1>2. s \in Surjection(1 .. Len(s), ToSet(s)) /\ s \in Injection(1 .. Len(s), ToSet(s))
    BY <1>1 DEF Surjection, Injection, ToSet
  <1>3. IsFiniteSet(1 .. Len(s)) /\ Cardinality(1 .. Len(s)) = Len(s)
    BY <1>1, FS_Interval
  <1> QED BY <1>2, <1>3, FS_Surjection

(***************************************************************************)
(* The graph.                                                              *)
(***************************************************************************)
LEMMA EdgesFinite == IsFiniteSet(Edge)
  <1> DEFINE T == (Ids \X Ids) \X (1 .. MaxDeps)
             f == [e \in Edge |-> <<<<e.from, e.to>>, e.at>>]
  <1>1. IsFiniteSet(Ids) /\ MaxDeps \in Nat
    BY OrderAssumption
  <1>2. IsFiniteSet(T)
    <2>1. IsFiniteSet(Ids \X Ids)
      BY <1>1, FS_Product
    <2>2. IsFiniteSet(1 .. MaxDeps)
      BY <1>1, FS_Interval
    <2> QED BY <2>1, <2>2, FS_Product
  <1>3. f \in [Edge -> T]
    BY DEF Edge
  <1>4. \A a, b \in Edge : f[a] = f[b] => a = b
    BY DEF Edge
  <1> HIDE DEF T, f
  <1>5. f \in Injection(Edge, T)
    BY <1>3, <1>4 DEF Injection, IsInjective
  <1> QED BY <1>2, <1>5, FS_Injection

(* What buildDependencyGraph builds.                                       *)
LEMMA GraphBuilt ==
    ASSUME listed \in SUBSET Ids, deps \in [Ids -> DepLists], graph = buildDependencyGraph
    PROVE  GraphOK /\ graph \subseteq Edge
  <1>1. MaxDeps \in Nat /\ IsFiniteSet(Ids)
    BY OrderAssumption
  <1>2. ASSUME NEW e \in graph
        PROVE  e \in Edge /\ e.to \in listed
    <2>1. PICK w \in listed : e \in {[from |-> deps[w][i], to |-> w, at |-> i] : i \in DOMAIN deps[w]}
      BY DEF buildDependencyGraph
    <2>2. PICK i \in DOMAIN deps[w] : e = [from |-> deps[w][i], to |-> w, at |-> i]
      BY <2>1
    <2>3. PICK k \in 0 .. MaxDeps : deps[w] \in [1 .. k -> Ids]
      BY DEF DepLists
    <2>4. i \in 1 .. MaxDeps /\ deps[w][i] \in Ids
      BY <1>1, <2>3
    <2> QED BY <2>2, <2>4 DEF Edge
  <1>3. Nodes \subseteq Ids /\ graph \subseteq Edge
    BY <1>2 DEF Nodes, Edge
  <1>4. IsFiniteSet(Nodes) /\ IsFiniteSet(graph)
    BY <1>1, <1>3, EdgesFinite, FS_Subset
  <1>5. \A e \in graph : e.from \in Nodes /\ e.to \in Nodes
    BY <1>2 DEF Nodes
  <1> QED BY <1>3, <1>4, <1>5 DEF GraphOK

LEMMA NeighborsAreNodes ==
    ASSUME GraphOK, NEW n
    PROVE  Neighbors(n) \subseteq Nodes
  BY DEF GraphOK, Neighbors

LEMMA OpenFinite ==
    ASSUME GraphOK, NEW n
    PROVE  IsFiniteSet(OpenEdges(n)) /\ Cardinality(OpenEdges(n)) \in Nat
  <1>1. OpenEdges(n) \in SUBSET graph
    BY DEF OpenEdges
  <1>2. IsFiniteSet(OpenEdges(n))
    BY <1>1, FS_Subset DEF GraphOK
  <1> QED BY <1>2, FS_CardinalityType

(***************************************************************************)
(* The sort.                                                               *)
(***************************************************************************)
LEMMA OrderInitInv == OrderInit => OrderInv
  <1> SUFFICES ASSUME OrderInit PROVE OrderInv
    OBVIOUS
  <1> DEFINE sources == {n \in Nodes : InDegree(n) = 0}
  <1>1. /\ listed \in SUBSET Ids /\ deps \in [Ids -> DepLists] /\ graph = buildDependencyGraph
        /\ inDegree = [n \in Nodes |-> InDegree(n)] /\ queue \in SetToSeqs(sources)
        /\ result = <<>> /\ visited = {} /\ path = <<>>
        /\ todo = [n \in Nodes |-> Neighbors(n)] /\ cycle = <<>> /\ stage = "sort"
    BY DEF OrderInit
  <1>2. GraphOK
    BY <1>1, GraphBuilt
  <1>3. SortOK
    <2>1. ToSet(result) = {} /\ result \in Seq(Nodes) /\ IsInjective(result)
      BY <1>1 DEF ToSet, IsInjective
    <2>2. ASSUME NEW n \in Nodes
          PROVE  /\ InDegree(n) = Cardinality(OpenEdges(n)) /\ InDegree(n) \in Nat
                 /\ InDegree(n) = 0 <=> OpenEdges(n) = {}
      <3>1. OpenEdges(n) = {e \in graph : e.to = n}
        BY <2>1 DEF OpenEdges
      <3>2. InDegree(n) = Cardinality(OpenEdges(n))
        BY <3>1 DEF InDegree
      <3> QED BY <1>2, <3>2, OpenFinite, FS_EmptySet
    <2>3. sources \in SUBSET Nodes /\ IsFiniteSet(sources)
      <3>1. sources \in SUBSET Nodes
        OBVIOUS
      <3> QED BY <1>2, <3>1, FS_Subset DEF GraphOK
    <2>4. queue \in Seq(Nodes) /\ IsInjective(queue) /\ ToSet(queue) = sources
      <3>1. queue \in Seq(sources) /\ IsInjective(queue) /\ ToSet(queue) = sources
        BY <1>1, <2>3, OrdersOfSet
      <3> QED BY <2>3, <3>1
    <2> QED BY <1>1, <2>1, <2>2, <2>4 DEF SortOK
  <1>4. PathOK
    BY <1>1 DEF PathOK, IsInjective, ToSet
  <1>5. TodoOK
    <2>1. todo \in [Nodes -> SUBSET Nodes]
      BY <1>1, <1>2, NeighborsAreNodes
    <2> QED BY <1>1, <2>1 DEF TodoOK
  <1>6. FinishedOK
    BY <1>1 DEF FinishedOK, Finished
  <1>7. CycleOK
    BY <1>1 DEF CycleOK
  <1> QED BY <1>2, <1>3, <1>4, <1>5, <1>6, <1>7 DEF OrderInv

(* The given graph is the same in the next state, and with it all that is  *)
(* defined from it.                                                        *)
LEMMA SameGraph ==
    ASSUME UNCHANGED given
    PROVE  /\ Nodes' = Nodes /\ Needs' = Needs
           /\ \A n : Neighbors(n)' = Neighbors(n)
           /\ GraphOK => GraphOK'
  BY DEF given, Nodes, Needs, Neighbors, GraphOK

(* The node at the head of the queue has no open edge, so all that it      *)
(* needs is placed.                                                        *)
LEMMA HeadIsFree ==
    ASSUME OrderInv, queue # <<>>
    PROVE  /\ Head(queue) \in Nodes \ ToSet(result)
           /\ OpenEdges(Head(queue)) = {}
  <1>1. Head(queue) \in Nodes /\ Head(queue) \in ToSet(queue)
    BY TailSet DEF OrderInv, SortOK
  <1> QED BY <1>1 DEF OrderInv, SortOK

(* Placing a node closes the edges that leave it.                          *)
LEMMA PlacedEdges ==
    ASSUME OrderInv, SortStep, NEW n \in Nodes
    PROVE  /\ OpenEdges(n)' = OpenEdges(n) \ EdgesBetween(Head(queue), n)
           /\ EdgesBetween(Head(queue), n) \subseteq OpenEdges(n)
           /\ inDegree'[n] = Cardinality(OpenEdges(n)') /\ inDegree'[n] \in Nat
           /\ n \in Freed(Head(queue)) <=> OpenEdges(n) # {} /\ OpenEdges(n)' = {}
  <1> DEFINE node == Head(queue)
             between == EdgesBetween(node, n)
             open == OpenEdges(n)
  <1>1. node \in Nodes /\ node \notin ToSet(result)
    BY HeadIsFree DEF SortStep
  <1>2. ToSet(result') = ToSet(result) \cup {node}
    BY <1>1, AppendSet DEF SortStep, OrderInv, SortOK
  <1>3. graph' = graph
    BY DEF SortStep, given
  <1> HIDE DEF node
  <1>4. OpenEdges(n)' = open \ between
    BY <1>2, <1>3 DEF OpenEdges, EdgesBetween
  <1>5. between \subseteq open
    BY <1>1 DEF OpenEdges, EdgesBetween
  <1>6. IsFiniteSet(open) /\ Cardinality(open) \in Nat /\ inDegree[n] = Cardinality(open)
    BY OpenFinite DEF OrderInv, SortOK
  <1> HIDE DEF between, open
  <1>7. IsFiniteSet(between) /\ Cardinality(between) \in Nat
    BY <1>5, <1>6, FS_Subset, FS_CardinalityType
  <1>8. /\ IsFiniteSet(open \ between) /\ Cardinality(open \ between) \in Nat
        /\ Cardinality(open \ between) = Cardinality(open) - Cardinality(between)
    <2>1. open \cap between = between
      BY <1>5
    <2>2. /\ IsFiniteSet(open \ between)
          /\ Cardinality(open \ between) = Cardinality(open) - Cardinality(open \cap between)
      BY <1>6, FS_Difference
    <2>3. Cardinality(open \ between) \in Nat
      BY <2>2, FS_CardinalityType
    <2> QED BY <2>1, <2>2, <2>3
  <1>9. inDegree'[n] = inDegree[n] - Cardinality(between)
    BY DEF SortStep, node, between
  <1>10. n \in Freed(node) <=> n \in Neighbors(node) /\ inDegree[n] = Cardinality(between)
    BY DEF Freed, between, node, Neighbors
  <1>11. n \in Neighbors(node) <=> between # {}
    BY DEF Neighbors, EdgesBetween, between
  <1>12. Cardinality(open) = Cardinality(between) <=> open = between
    BY <1>5, <1>6, FS_Subset
  <1>13. n \in Freed(node) <=> open # {} /\ open \ between = {}
    BY <1>5, <1>6, <1>10, <1>11, <1>12
  <1> QED BY <1>4, <1>5, <1>6, <1>8, <1>9, <1>13 DEF node, between, open

(* One turn of the loop keeps the order of the sort.                       *)
LEMMA SortStepInv ==
    ASSUME OrderInv, SortStep
    PROVE  OrderInv'
  <1> DEFINE node == Head(queue)
  <1> USE DEF OrderInv
  <1>1. /\ stage = "sort" /\ queue # <<>> /\ result' = Append(result, node)
        /\ inDegree' = [n \in Nodes |-> inDegree[n] - Cardinality(EdgesBetween(node, n))]
        /\ UNCHANGED <<listed, deps, graph, visited, path, todo, cycle, stage>>
    BY DEF SortStep, given, searchVars
  <1>2. PICK more \in SetToSeqs(Freed(node)) : queue' = Tail(queue) \o more
    BY DEF SortStep
  <1>3. node \in Nodes \ ToSet(result) /\ OpenEdges(node) = {}
    BY <1>1, HeadIsFree
  <1>4. /\ Nodes' = Nodes /\ GraphOK'
        /\ \A n : Neighbors(n)' = Neighbors(n)
    BY <1>1, SameGraph DEF given
  <1>5. /\ Tail(queue) \in Seq(Nodes) /\ IsInjective(Tail(queue))
        /\ node \notin ToSet(Tail(queue)) /\ ToSet(queue) = ToSet(Tail(queue)) \cup {node}
    BY <1>1, TailSet DEF SortOK
  <1>6. /\ result' \in Seq(Nodes) /\ IsInjective(result')
        /\ ToSet(result') = ToSet(result) \cup {node}
    BY <1>1, <1>3, AppendSet DEF SortOK
  <1>7. Freed(node) \in SUBSET Nodes /\ IsFiniteSet(Freed(node))
    <2>1. Freed(node) \in SUBSET Nodes
      BY NeighborsAreNodes DEF Freed
    <2> QED BY <2>1, FS_Subset DEF GraphOK
  <1>8. more \in Seq(Nodes) /\ IsInjective(more) /\ ToSet(more) = Freed(node)
    <2>1. more \in Seq(Freed(node)) /\ IsInjective(more) /\ ToSet(more) = Freed(node)
      BY <1>2, <1>7, OrdersOfSet
    <2> QED BY <1>7, <2>1
  <1> HIDE DEF node
  <1>9. \A n \in Nodes : /\ OpenEdges(n)' \subseteq OpenEdges(n)
                         /\ inDegree'[n] = Cardinality(OpenEdges(n)') /\ inDegree'[n] \in Nat
                         /\ n \in Freed(node) <=> OpenEdges(n) # {} /\ OpenEdges(n)' = {}
    BY PlacedEdges DEF node
  <1>10. Freed(node) \cap (ToSet(queue) \cup ToSet(result)) = {}
    BY <1>7, <1>9 DEF SortOK
  <1>11. /\ queue' \in Seq(Nodes) /\ IsInjective(queue')
         /\ ToSet(queue') = ToSet(Tail(queue)) \cup Freed(node)
    <2>1. ToSet(Tail(queue)) \cap ToSet(more) = {}
      BY <1>5, <1>8, <1>10
    <2> DEFINE rest == Tail(queue)
    <2>2. /\ rest \in Seq(Nodes) /\ IsInjective(rest) /\ ToSet(rest) \cap ToSet(more) = {}
          /\ queue' = rest \o more
      BY <2>1, <1>2, <1>5
    <2> HIDE DEF rest
    <2>3. queue' \in Seq(Nodes) /\ ToSet(queue') = ToSet(rest) \cup ToSet(more)
      BY <2>2, <1>8, ConcatSet
    <2>4. IsInjective(queue')
      BY <2>2, <1>8, ConcatSet
    <2> QED BY <2>3, <2>4, <1>8 DEF rest
  <1>12. SortOK'
    <2>1. ToSet(queue') \cap ToSet(result') = {}
      BY <1>3, <1>5, <1>6, <1>10, <1>11 DEF SortOK
    <2>2. inDegree' \in [Nodes -> Nat]
      BY <1>1, <1>9
    <2>3. ASSUME NEW n \in Nodes
          PROVE  n \in ToSet(queue') \cup ToSet(result') <=> OpenEdges(n)' = {}
      <3>1. ToSet(queue') \cup ToSet(result')
              = ToSet(queue) \cup ToSet(result) \cup Freed(node)
        BY <1>5, <1>6, <1>11
      <3>2. n \in ToSet(queue) \cup ToSet(result) <=> OpenEdges(n) = {}
        BY DEF SortOK
      <3> QED BY <3>1, <3>2, <1>9
    <2> QED BY <1>4, <1>6, <1>9, <1>11, <2>1, <2>2, <2>3 DEF SortOK
  <1>13. PathOK'
    BY <1>1, <1>4 DEF PathOK
  <1>14. TodoOK'
    BY <1>1, <1>4 DEF TodoOK, Followed, Finished
  <1>15. FinishedOK'
    BY <1>1, <1>4 DEF FinishedOK, Finished, HasSource
  <1>16. CycleOK'
    BY <1>1, <1>4 DEF CycleOK
  <1> QED BY <1>4, <1>12, <1>13, <1>14, <1>15, <1>16

(* Without a free node left, those that are not placed block each other.   *)
LEMMA RestIsCircular ==
    ASSUME OrderInv, queue = <<>>, Len(result) # Cardinality(Nodes)
    PROVE  Abstract!Circular
  <1> DEFINE S == Nodes \ ToSet(result)
  <1> USE DEF OrderInv
  <1>1. ToSet(queue) = {}
    BY DEF ToSet
  <1>2. S # {}
    <2>1. Cardinality(ToSet(result)) = Len(result)
      BY CountSet DEF SortOK
    <2>2. ToSet(result) \subseteq Nodes
      BY DEF SortOK, ToSet
    <2>3. ToSet(result) # Nodes
      BY <2>1
    <2> QED BY <2>2, <2>3
  <1>3. ASSUME NEW n \in S
        PROVE  Needs[n] \cap S # {}
    <2>1. PICK e \in OpenEdges(n) : TRUE
      BY <1>1, <1>3 DEF SortOK
    <2>2. e \in graph /\ e.to = n /\ e.from \in S
      BY <2>1 DEF OpenEdges, GraphOK
    <2> QED BY <2>2 DEF Needs
  <1>4. DOMAIN Needs = Nodes
    BY DEF Needs
  <1> HIDE DEF S
  <1>5. S \in SUBSET DOMAIN Needs
    BY <1>4 DEF S
  <1> QED BY <1>2, <1>3, <1>5 DEF Abstract!Circular

LEMMA SortEndsInv ==
    ASSUME OrderInv, SortEnds
    PROVE  OrderInv'
  <1> USE DEF OrderInv
  <1>1. /\ stage = "sort" /\ queue = <<>>
        /\ stage' = IF Len(result) = Cardinality(Nodes) THEN "ordered" ELSE "search"
        /\ UNCHANGED <<listed, deps, graph, inDegree, queue, result, visited, path, todo, cycle>>
    BY DEF SortEnds, given, sortVars, searchVars
  <1>2. /\ Nodes' = Nodes /\ GraphOK' /\ Needs' = Needs
        /\ \A n : Neighbors(n)' = Neighbors(n)
    BY <1>1, SameGraph DEF given
  <1>3. SortOK'
    BY <1>1, <1>2 DEF SortOK, OpenEdges
  <1>4. PathOK'
    BY <1>1, <1>2 DEF PathOK
  <1>5. TodoOK'
    BY <1>1, <1>2 DEF TodoOK, Followed, Finished
  <1>6. FinishedOK'
    BY <1>1, <1>2 DEF FinishedOK, Finished, HasSource
  <1>7. stage' = "search" => (Abstract!Circular)'
    <2>1. Abstract!Circular => (Abstract!Circular)'
      BY <1>2 DEF Abstract!Circular
    <2> QED BY <1>1, <2>1, RestIsCircular
  <1>8. CycleOK'
    BY <1>1, <1>2, <1>7 DEF CycleOK
  <1> QED BY <1>2, <1>3, <1>4, <1>5, <1>6, <1>8

(***************************************************************************)
(* The search.                                                             *)
(***************************************************************************)
LEMMA SortKept ==
    ASSUME SortOK, UNCHANGED given, UNCHANGED sortVars
    PROVE  SortOK'
  <1>1. Nodes' = Nodes /\ UNCHANGED <<graph, inDegree, queue, result>>
    BY SameGraph DEF given, sortVars
  <1> QED BY <1>1 DEF SortOK, OpenEdges

LEMMA FinishedKept ==
    ASSUME FinishedOK, UNCHANGED given, Finished' = Finished
    PROVE  FinishedOK'
  <1>1. \A n : Neighbors(n)' = Neighbors(n)
    BY SameGraph
  <1> QED BY <1>1 DEF FinishedOK, HasSource

LEMMA CircularKept ==
    ASSUME Abstract!Circular, UNCHANGED given
    PROVE  (Abstract!Circular)'
  <1>1. Needs' = Needs
    BY SameGraph
  <1> QED BY <1>1 DEF Abstract!Circular

(* findCycleDFS enters a node: the path gets longer, and the nodes that    *)
(* the search has left are the same.                                       *)
LEMMA EnterResult ==
    ASSUME PathOK, UNCHANGED given, NEW n \in Nodes \ visited, Enter(n),
           path # <<>> => n \in Neighbors(Last(path))
    PROVE  /\ PathOK' /\ Finished' = Finished
           /\ Len(path') = Len(path) + 1 /\ Len(path) \in Nat /\ path'[Len(path) + 1] = n
           /\ \A i \in 1 .. Len(path) : path'[i] = path[i]
  <1>1. Nodes' = Nodes /\ \A m : Neighbors(m)' = Neighbors(m)
    BY SameGraph
  <1>2. visited' = visited \cup {n} /\ path' = Append(path, n)
    BY DEF Enter
  <1>3. path \in Seq(Nodes) /\ IsInjective(path) /\ n \notin ToSet(path)
    BY DEF PathOK
  <1>4. path' \in Seq(Nodes) /\ IsInjective(path') /\ ToSet(path') = ToSet(path) \cup {n}
    BY <1>2, <1>3, AppendSet
  <1>5. /\ Len(path') = Len(path) + 1 /\ Len(path) \in Nat /\ path'[Len(path) + 1] = n
        /\ \A i \in 1 .. Len(path) : path'[i] = path[i]
    BY <1>2, <1>3
  <1>6. Finished' = Finished
    BY <1>2, <1>4 DEF Finished
  <1>7. ASSUME NEW i \in 1 .. Len(path') - 1
        PROVE  path'[i + 1] \in Neighbors(path'[i])
    <2>1. CASE i = Len(path)
      <3>1. path # <<>> /\ path'[i] = Last(path)
        BY <1>5, <2>1 DEF Last
      <3> QED BY <3>1, <2>1, <1>5
    <2>2. CASE i # Len(path)
      <3>1. i \in 1 .. Len(path) - 1 /\ i \in 1 .. Len(path) /\ i + 1 \in 1 .. Len(path)
        BY <1>5, <2>2
      <3>2. path[i + 1] \in Neighbors(path[i])
        BY <3>1 DEF PathOK
      <3> QED BY <3>1, <3>2, <1>5
    <2> QED BY <2>1, <2>2
  <1>8. PathOK'
    BY <1>1, <1>2, <1>4, <1>7 DEF PathOK
  <1> QED BY <1>5, <1>6, <1>8

(* findCycle starts at a node that was not visited.                        *)
LEMMA SearchFromInv ==
    ASSUME OrderInv, NEW n \in Nodes, SearchFrom(n)
    PROVE  OrderInv'
  <1> USE DEF OrderInv
  <1>1. /\ stage = "search" /\ path = <<>> /\ n \in Nodes \ visited /\ Enter(n)
        /\ UNCHANGED given /\ UNCHANGED sortVars /\ UNCHANGED <<todo, cycle, stage>>
    BY DEF SearchFrom
  <1>2. Nodes' = Nodes /\ GraphOK' /\ \A m : Neighbors(m)' = Neighbors(m)
    BY <1>1, SameGraph
  <1>3. /\ PathOK' /\ Finished' = Finished /\ Len(path') = 1 /\ path'[1] = n
    BY <1>1, EnterResult
  <1>4. SortOK' /\ FinishedOK'
    BY <1>1, <1>3, SortKept, FinishedKept
  <1>5. TodoOK'
    <2>1. todo[n] = Neighbors(n)
      BY <1>1 DEF TodoOK
    <2>2. \A i \in 1 .. Len(path') : Followed(i)'
      BY <1>1, <1>2, <1>3, <2>1 DEF Followed
    <2>3. visited' = visited \cup {n}
      BY <1>1 DEF Enter
    <2> QED BY <1>1, <1>2, <2>2, <2>3 DEF TodoOK
  <1>6. CycleOK'
    <2>1. (Abstract!Circular)'
      BY <1>1, CircularKept DEF CycleOK
    <2> QED BY <1>1, <1>2, <2>1 DEF CycleOK
  <1> QED BY <1>2, <1>3, <1>4, <1>5, <1>6

(* The neighbor is new: the search goes on there.                          *)
LEMMA SearchDeeper ==
    ASSUME OrderInv, NEW n \in Nodes \ visited, stage = "search", path # <<>>,
           n \in todo[Last(path)], todo' = [todo EXCEPT ![Last(path)] = @ \ {n}], Enter(n),
           UNCHANGED given, UNCHANGED sortVars, UNCHANGED <<cycle, stage>>
    PROVE  OrderInv'
  <1> USE DEF OrderInv
  <1> DEFINE node == Last(path)
             k == Len(path)
  <1>1. Nodes' = Nodes /\ GraphOK' /\ \A m : Neighbors(m)' = Neighbors(m)
    BY SameGraph
  <1>2. /\ k \in Nat /\ k >= 1 /\ node = path[k] /\ node \in Nodes /\ node \in visited
        /\ \A i \in 1 .. k : path[i] \in Nodes /\ path[i] \in visited
        /\ \A i \in 1 .. k : path[i] = node => i = k
    BY DEF Last, PathOK, ToSet, IsInjective
  <1>3. n \in Neighbors(node)
    BY <1>2 DEF TodoOK
  <1>4. /\ PathOK' /\ Finished' = Finished /\ Len(path') = k + 1 /\ path'[k + 1] = n
        /\ \A i \in 1 .. k : path'[i] = path[i]
    BY <1>3, EnterResult
  <1>5. SortOK' /\ FinishedOK'
    BY <1>4, SortKept, FinishedKept
  <1>6. todo' = [todo EXCEPT ![node] = todo[node] \ {n}] /\ todo \in [Nodes -> SUBSET Nodes]
    BY DEF TodoOK
  <1> HIDE DEF node
  <1>7. TodoOK'
    <2>1. todo' \in [Nodes -> SUBSET Nodes]
      <3>1. node \in Nodes /\ todo[node] \ {n} \in SUBSET Nodes
        BY <1>2, <1>6
      <3> QED  BY <1>6, <3>1
    <2>2. visited' = visited \cup {n} /\ n # node
      BY <1>2 DEF Enter
    <2>3. \A m \in Nodes : m # node => todo'[m] = todo[m]
      BY <1>6
    <2>4. todo'[node] = todo[node] \ {n}
      BY <1>2, <1>6
    <2>5. \A m \in Nodes \ visited' : todo'[m] = Neighbors(m)
      BY <1>2, <2>2, <2>3 DEF TodoOK
    <2>6. \A m \in Nodes : todo'[m] \subseteq Neighbors(m)
      BY <1>2, <2>3, <2>4 DEF TodoOK
    <2>7. ASSUME NEW i \in 1 .. k + 1
          PROVE  Followed(i)'
      <3>1. CASE i = k + 1
        <4>1. path'[i] = n /\ todo'[n] = Neighbors(n)
          BY <1>4, <2>2, <2>3, <3>1 DEF TodoOK
        <4> QED BY <4>1, <1>1 DEF Followed
      <3>2. CASE i = k
        <4>1. Followed(k)
          BY <1>2 DEF TodoOK
        <4>2. \A m \in Neighbors(node) \ todo[node] : m \in Finished
          BY <4>1, <1>2 DEF Followed
        <4>3. path'[i] = node /\ i < Len(path') /\ path'[i + 1] = n
          BY <1>2, <1>4, <3>2
        <4> QED BY <4>2, <4>3, <2>4, <1>1, <1>4 DEF Followed
      <3>3. CASE i < k
        <4>1. i \in 1 .. k /\ i + 1 \in 1 .. k /\ path[i] # node /\ i < Len(path')
          BY <1>2, <1>4, <3>3
        <4>2. Followed(i)
          BY <4>1 DEF TodoOK
        <4>3. todo'[path[i]] = todo[path[i]] /\ path'[i] = path[i] /\ path'[i + 1] = path[i + 1]
          BY <4>1, <1>2, <1>4, <2>3
        <4> QED BY <4>1, <4>2, <4>3, <1>1, <1>4 DEF Followed
      <3> QED BY <1>2, <3>1, <3>2, <3>3
    <2> QED BY <1>1, <1>4, <2>1, <2>5, <2>6, <2>7 DEF TodoOK
  <1>8. CycleOK'
    <2>1. (Abstract!Circular)'
      BY CircularKept DEF CycleOK
    <2> QED BY <1>1, <2>1 DEF CycleOK
  <1> QED BY <1>1, <1>4, <1>5, <1>7, <1>8

(* The neighbor was left before: nothing but its edge is done.             *)
LEMMA SearchSkips ==
    ASSUME OrderInv, NEW n \in Finished, stage = "search", path # <<>>,
           n \in todo[Last(path)], todo' = [todo EXCEPT ![Last(path)] = @ \ {n}],
           UNCHANGED given, UNCHANGED sortVars, UNCHANGED <<visited, path, cycle, stage>>
    PROVE  OrderInv'
  <1> USE DEF OrderInv
  <1> DEFINE node == Last(path)
             k == Len(path)
  <1>1. Nodes' = Nodes /\ GraphOK' /\ \A m : Neighbors(m)' = Neighbors(m)
    BY SameGraph
  <1>2. /\ k \in Nat /\ k >= 1 /\ node = path[k] /\ node \in Nodes /\ node \in visited
        /\ \A i \in 1 .. k : path[i] \in Nodes /\ path[i] \in visited
        /\ \A i \in 1 .. k : path[i] = node => i = k
    BY DEF Last, PathOK, ToSet, IsInjective
  <1>3. Finished' = Finished
    BY DEF Finished
  <1>4. SortOK' /\ FinishedOK'
    BY <1>3, SortKept, FinishedKept
  <1>5. PathOK'
    BY <1>1 DEF PathOK
  <1>6. todo' = [todo EXCEPT ![node] = todo[node] \ {n}] /\ todo \in [Nodes -> SUBSET Nodes]
    BY DEF TodoOK
  <1> HIDE DEF node
  <1>7. TodoOK'
    <2>1. todo' \in [Nodes -> SUBSET Nodes]
      <3>1. node \in Nodes /\ todo[node] \ {n} \in SUBSET Nodes
        BY <1>2, <1>6
      <3> QED  BY <1>6, <3>1
    <2>2. \A m \in Nodes : m # node => todo'[m] = todo[m]
      BY <1>6
    <2>3. todo'[node] = todo[node] \ {n}
      BY <1>2, <1>6
    <2>4. \A m \in Nodes \ visited' : todo'[m] = Neighbors(m)
      BY <1>2, <2>2 DEF TodoOK
    <2>5. \A m \in Nodes : todo'[m] \subseteq Neighbors(m)
      BY <1>2, <2>2, <2>3 DEF TodoOK
    <2>6. ASSUME NEW i \in 1 .. k
          PROVE  Followed(i)'
      <3>1. Followed(i)
        BY DEF TodoOK
      <3>2. CASE i = k
        <4>1. path[i] = node
          BY <1>2, <3>2
        <4> QED BY <4>1, <3>1, <2>3, <1>1, <1>3 DEF Followed
      <3>3. CASE i # k
        <4>1. todo'[path[i]] = todo[path[i]]
          BY <1>2, <2>2, <3>3
        <4> QED BY <4>1, <3>1, <1>1, <1>3 DEF Followed
      <3> QED BY <3>2, <3>3
    <2> QED BY <1>1, <2>1, <2>4, <2>5, <2>6 DEF TodoOK
  <1>8. CycleOK'
    <2>1. (Abstract!Circular)'
      BY CircularKept DEF CycleOK
    <2> QED BY <1>1, <2>1 DEF CycleOK
  <1> QED BY <1>1, <1>4, <1>5, <1>7, <1>8

(* The neighbor is on the path: from there on, the path is a cycle.        *)
LEMMA CycleCut ==
    ASSUME OrderInv, path # <<>>, NEW n \in ToSet(path), n \in Neighbors(Last(path))
    PROVE  /\ CycleFrom(n) \in Seq(Nodes) /\ Len(CycleFrom(n)) > 1
           /\ CycleFrom(n)[1] = Last(CycleFrom(n))
           /\ \A i \in 1 .. Len(CycleFrom(n)) - 1 :
                 CycleFrom(n)[i + 1] \in Neighbors(CycleFrom(n)[i])
  <1> DEFINE start == CHOOSE i \in DOMAIN path : path[i] = n
             k == Len(path)
             s == SubSeq(path, start, k)
             c == Append(s, n)
  <1>1. start \in DOMAIN path /\ path[start] = n
    BY DEF ToSet
  <1>2. CycleFrom(n) = c
    BY DEF CycleFrom
  <1>3. /\ path \in Seq(Nodes) /\ k \in Nat /\ DOMAIN path = 1 .. k /\ n \in Nodes
        /\ \A i \in 1 .. k - 1 : path[i + 1] \in Neighbors(path[i])
    BY DEF OrderInv, PathOK, ToSet
  <1> HIDE DEF start
  <1>4. start \in 1 .. k /\ start \in Nat /\ Last(path) = path[k]
    BY <1>1, <1>3 DEF Last
  <1>5. /\ s \in Seq(Nodes) /\ Len(s) = k - start + 1
        /\ \A i \in 1 .. k - start + 1 : s[i] = path[start + i - 1]
    BY <1>3, <1>4
  <1> HIDE DEF s
  <1>6. /\ c \in Seq(Nodes) /\ Len(c) = k - start + 2 /\ c[k - start + 2] = n
        /\ \A i \in 1 .. k - start + 1 : c[i] = path[start + i - 1]
    <2>1. /\ c \in Seq(Nodes) /\ Len(c) = Len(s) + 1 /\ c[Len(s) + 1] = n
          /\ \A i \in 1 .. Len(s) : c[i] = s[i]
      BY <1>3, <1>5
    <2>2. Len(s) + 1 = k - start + 2
      BY <1>3, <1>4, <1>5
    <2> HIDE DEF c
    <2> QED BY <2>1, <2>2, <1>5
  <1> HIDE DEF c
  <1>7. Len(c) > 1 /\ c[1] = n /\ Last(c) = n
    <2>1. 1 \in 1 .. k - start + 1 /\ start + 1 - 1 = start
      BY <1>3, <1>4
    <2> QED BY <2>1, <1>1, <1>3, <1>4, <1>6 DEF Last
  <1>8. ASSUME NEW i \in 1 .. Len(c) - 1
        PROVE  c[i + 1] \in Neighbors(c[i])
    <2>1. i \in 1 .. k - start + 1 /\ c[i] = path[start + i - 1]
      BY <1>3, <1>4, <1>6
    <2>2. CASE i = k - start + 1
      <3>1. start + i - 1 = k /\ i + 1 = k - start + 2
        BY <1>3, <1>4, <2>2
      <3> QED BY <3>1, <2>1, <1>4, <1>6
    <2>3. CASE i # k - start + 1
      <3> DEFINE j == start + i - 1
      <3>1. /\ i + 1 \in 1 .. k - start + 1 /\ j \in 1 .. k - 1 /\ start + (i + 1) - 1 = j + 1
        <4>1. k \in Nat /\ start \in 1 .. k
          BY <1>3, <1>4
        <4>2. i \in 1 .. k - start + 1
          BY <2>1
        <4> HIDE DEF k
        <4> QED BY <4>1, <4>2, <2>3
      <3>2. c[i + 1] = path[start + (i + 1) - 1]
        BY <3>1, <1>6
      <3> HIDE DEF j
      <3>3. path[j + 1] \in Neighbors(path[j])
        BY <3>1, <1>3
      <3> QED BY <3>1, <3>2, <3>3, <2>1 DEF j
    <2> QED BY <2>2, <2>3
  <1> QED BY <1>2, <1>6, <1>7, <1>8

LEMMA SearchEdgeInv ==
    ASSUME OrderInv, NEW n \in Nodes, SearchEdge(n)
    PROVE  OrderInv'
  <1> DEFINE node == Last(path)
  <1>1. /\ stage = "search" /\ path # <<>> /\ n \in todo[node]
        /\ todo' = [todo EXCEPT ![node] = @ \ {n}]
        /\ UNCHANGED given /\ UNCHANGED sortVars
    BY DEF SearchEdge
  <1>2. CASE n \notin visited /\ Enter(n) /\ UNCHANGED <<cycle, stage>>
    BY <1>1, <1>2, SearchDeeper
  <1>3. CASE n \in visited \ ToSet(path) /\ UNCHANGED <<visited, path, cycle, stage>>
    BY <1>1, <1>3, SearchSkips DEF Finished
  <1>4. CASE /\ n \in ToSet(path) /\ cycle' = CycleFrom(n) /\ stage' = "circular"
             /\ UNCHANGED <<visited, path>>
    <2> USE DEF OrderInv
    <2>1. Nodes' = Nodes /\ GraphOK' /\ \A m : Neighbors(m)' = Neighbors(m)
      BY <1>1, SameGraph
    <2>2. Finished' = Finished
      BY <1>4 DEF Finished
    <2>3. SortOK' /\ FinishedOK'
      BY <1>1, <2>2, SortKept, FinishedKept
    <2>4. PathOK'
      BY <1>4, <2>1 DEF PathOK
    <2>5. node \in Nodes /\ node \in visited
      BY <1>1 DEF Last, PathOK, ToSet
    <2>6. n \in Neighbors(node)
      BY <1>1, <2>5 DEF TodoOK
    <2> HIDE DEF node
    <2>7. TodoOK'
      <3>1. todo \in [Nodes -> SUBSET Nodes] /\ todo' = [todo EXCEPT ![node] = todo[node] \ {n}]
        BY <1>1 DEF TodoOK
      <3>2. /\ todo' \in [Nodes -> SUBSET Nodes]
            /\ \A m \in Nodes : todo'[m] \subseteq todo[m]
            /\ \A m \in Nodes : m # node => todo'[m] = todo[m]
        BY <3>1, <2>5
      <3> QED BY <1>4, <2>1, <2>5, <3>2 DEF TodoOK
    <2>8. CycleOK'
      <3>1. /\ cycle' \in Seq(Nodes) /\ Len(cycle') > 1 /\ cycle'[1] = Last(cycle')
            /\ \A i \in 1 .. Len(cycle') - 1 : cycle'[i + 1] \in Neighbors(cycle'[i])
        BY <1>1, <1>4, <2>6, CycleCut DEF node
      <3> QED BY <3>1, <1>4, <2>1 DEF CycleOK
    <2> QED BY <2>1, <2>3, <2>4, <2>7, <2>8
  <1> QED BY <1>2, <1>3, <1>4 DEF SearchEdge

(* A node is left: all its neighbors were, so it is on no cycle with them. *)
LEMMA SearchReturnInv ==
    ASSUME OrderInv, SearchReturn
    PROVE  OrderInv'
  <1> USE DEF OrderInv
  <1> DEFINE node == Last(path)
             k == Len(path)
  <1>1. /\ stage = "search" /\ path # <<>> /\ todo[node] = {} /\ path' = Front(path)
        /\ UNCHANGED given /\ UNCHANGED sortVars /\ UNCHANGED <<visited, todo, cycle, stage>>
    BY DEF SearchReturn
  <1>2. Nodes' = Nodes /\ GraphOK' /\ \A m : Neighbors(m)' = Neighbors(m)
    BY <1>1, SameGraph
  <1>3. /\ node \in Nodes /\ path' \in Seq(Nodes) /\ Len(path') = k - 1
        /\ \A i \in 1 .. k - 1 : path'[i] = path[i]
        /\ ToSet(path) = ToSet(path') \cup {node}
        /\ IsInjective(path') /\ node \notin ToSet(path')
    BY <1>1, FrontSet DEF PathOK
  <1>4. k \in Nat /\ k >= 1 /\ node = path[k]
    BY <1>1 DEF PathOK, Last
  <1> HIDE DEF node
  <1>5. Finished' = Finished \cup {node} /\ node \notin Finished
    BY <1>1, <1>3 DEF Finished, PathOK
  <1>6. Neighbors(node) \subseteq Finished
    <2>1. Followed(k)
      BY <1>1, <1>4 DEF TodoOK
    <2> QED BY <2>1, <1>1, <1>4 DEF Followed
  <1>7. SortOK'
    BY <1>1, SortKept
  <1>8. PathOK'
    <2>1. \A i \in 1 .. k - 2 : path'[i + 1] \in Neighbors(path'[i])
      <3> SUFFICES ASSUME NEW i \in 1 .. k - 2
                   PROVE  path'[i + 1] \in Neighbors(path'[i])
        OBVIOUS
      <3>1. i \in 1 .. k - 1 /\ i + 1 \in 1 .. k - 1
        BY <1>4
      <3>2. path[i + 1] \in Neighbors(path[i])
        BY <3>1 DEF PathOK
      <3> QED BY <3>1, <3>2, <1>3
    <2>2. Len(path') - 1 = k - 2
      BY <1>3, <1>4
    <2> QED BY <1>1, <1>2, <1>3, <2>1, <2>2 DEF PathOK
  <1>9. TodoOK'
    <2>1. ASSUME NEW i \in 1 .. k - 1
          PROVE  Followed(i)'
      <3>1. Followed(i) /\ i + 1 \in 1 .. k
        BY <1>1, <1>4 DEF TodoOK
      <3>2. i + 1 = k => path[i + 1] = node
        BY <1>4
      <3>3. i + 1 # k => i < Len(path') /\ path'[i + 1] = path[i + 1]
        BY <1>3, <1>4, <3>1
      <3> QED BY <3>1, <3>2, <3>3, <1>1, <1>2, <1>3, <1>5 DEF Followed
    <2> QED BY <1>1, <1>2, <1>3, <2>1 DEF TodoOK
  <1>10. FinishedOK'
    <2>1. \A n \in Finished' : Neighbors(n) \subseteq Finished'
      BY <1>5, <1>6 DEF FinishedOK
    <2>2. ASSUME NEW S \in SUBSET Finished', S # {}
          PROVE  HasSource(S)
      <3>1. CASE node \in S
        <4>1. \A m \in S : node \notin Neighbors(m)
          BY <1>5, <1>6, <2>2 DEF FinishedOK
        <4> QED BY <3>1, <4>1 DEF HasSource
      <3>2. CASE node \notin S
        <4>1. S \in SUBSET Finished
          BY <1>5, <3>2
        <4> QED BY <4>1, <2>2 DEF FinishedOK
      <3> QED BY <3>1, <3>2
    <2> QED BY <1>2, <2>1, <2>2 DEF FinishedOK, HasSource
  <1>11. CycleOK'
    <2>1. (Abstract!Circular)'
      BY <1>1, CircularKept DEF CycleOK
    <2> QED BY <1>1, <1>2, <2>1 DEF CycleOK
  <1> QED BY <1>2, <1>7, <1>8, <1>9, <1>10, <1>11

(***************************************************************************)
(* The resolver as a whole.                                                *)
(***************************************************************************)
LEMMA OrderNextInv ==
    ASSUME OrderInv, OrderNext
    PROVE  OrderInv'
  BY SortStepInv, SortEndsInv, SearchFromInv, SearchEdgeInv, SearchReturnInv
     DEF OrderNext, ResolveDeploymentOrder, DetectCycles

LEMMA OrderStutterInv ==
    ASSUME OrderInv, UNCHANGED orderVars
    PROVE  OrderInv'
  <1> USE DEF OrderInv
  <1>1. UNCHANGED given /\ UNCHANGED sortVars /\ UNCHANGED <<visited, path, todo, cycle, stage>>
    BY DEF orderVars, searchVars
  <1>2. Nodes' = Nodes /\ GraphOK' /\ \A n : Neighbors(n)' = Neighbors(n)
    BY <1>1, SameGraph
  <1>3. Finished' = Finished
    BY <1>1 DEF Finished
  <1>4. SortOK' /\ FinishedOK'
    BY <1>1, <1>3, SortKept, FinishedKept
  <1>5. PathOK'
    BY <1>1, <1>2 DEF PathOK
  <1>6. TodoOK'
    BY <1>1, <1>2, <1>3 DEF TodoOK, Followed
  <1>7. CycleOK'
    BY <1>1, <1>2, CircularKept DEF CycleOK
  <1> QED BY <1>2, <1>4, <1>5, <1>6, <1>7

(* Only the resolver changes its variables.                                *)
LEMMA OrderSteps == [Next]_vars => [OrderNext]_orderVars
  BY DEF Next, vars, Resolve, Client, CheckDependency, Start, WaitTimesOut, Tick, Reconcile,
         ReplicaReady, Fail, Recover, Report

LEMMA OrderInvariant == Spec => []OrderInv
  <1>1. Init => OrderInv
    BY OrderInitInv DEF Init
  <1>2. OrderInv /\ [Next]_vars => OrderInv'
    BY OrderSteps, OrderNextInv, OrderStutterInv
  <1> QED BY <1>1, <1>2, PTL DEF Spec

(* findCycle cannot end without a cycle: by then all nodes are left, and   *)
(* there is no cycle among those.                                          *)
LEMMA SearchFinds ==
    ASSUME OrderInv
    PROVE  ~NoCycleFound
  <1> SUFFICES ASSUME NoCycleFound PROVE FALSE
    OBVIOUS
  <1> USE DEF OrderInv
  <1>1. stage = "search" /\ path = <<>> /\ visited = Nodes
    BY DEF NoCycleFound
  <1>2. Finished = Nodes
    BY <1>1 DEF Finished, ToSet
  <1>3. DOMAIN Needs = Nodes
    BY DEF Needs
  <1>4. PICK S \in SUBSET Nodes : S # {} /\ \A n \in S : Needs[n] \cap S # {}
    BY <1>1, <1>3 DEF CycleOK, Abstract!Circular
  <1>5. PICK n \in S : \A m \in S : n \notin Neighbors(m)
    BY <1>2, <1>4 DEF FinishedOK, HasSource
  <1>6. PICK m \in S : m \in Needs[n]
    BY <1>4, <1>5
  <1>7. n \in Neighbors(m)
    BY <1>4, <1>6 DEF Needs, Neighbors
  <1> QED BY <1>5, <1>6, <1>7

(* DetectCycles, for every graph: it answers with a cycle whenever the     *)
(* sort failed, and with nothing but a cycle.                              *)
THEOREM CyclesAreReported == Spec => []CycleReported
  <1>1. OrderInv => CycleReported
    BY SearchFinds DEF OrderInv, CycleOK, CycleReported
  <1> QED BY <1>1, OrderInvariant, PTL

(* ResolveDeploymentOrder implements DeployOrder, for every graph and in   *)
(* whatever order Go ranges over its maps: a step of the sort places a     *)
(* workload whose dependencies are placed, its end is complete or refused  *)
(* for a reason, and everything else is a stutter.                         *)
THEOREM SortImplementsDeployOrder == Spec => ImplementsDeployOrder
  <1>1. Init => Abstract!Init
    <2> SUFFICES ASSUME Init PROVE Abstract!Init
      OBVIOUS
    <2>1. OrderInv /\ result = <<>> /\ stage = "sort"
      BY OrderInitInv DEF Init, OrderInit
    <2>2. Needs \in [Nodes -> SUBSET Nodes] /\ DOMAIN Needs = Nodes
      BY <2>1 DEF Needs, OrderInv, GraphOK
    <2> QED BY <2>1, <2>2 DEF Abstract!Init, Verdict
  <1>2. ASSUME OrderInv, OrderNext
        PROVE  Abstract!Next \/ UNCHANGED Abstract!vars
    <2> USE <1>2
    <2>1. DOMAIN Needs = Nodes /\ Abstract!Placed = ToSet(result)
      BY DEF Needs, Abstract!Placed, ToSet
    <2>2. CASE SortStep
      <3> DEFINE node == Head(queue)
      <3>1. /\ stage = "sort" /\ stage' = "sort" /\ queue # <<>>
            /\ result' = Append(result, node) /\ UNCHANGED given
        BY <2>2 DEF SortStep
      <3>2. node \in Nodes \ ToSet(result) /\ OpenEdges(node) = {}
        BY <3>1, HeadIsFree
      <3>3. Needs[node] \subseteq ToSet(result)
        BY <3>2 DEF Needs, OpenEdges
      <3>4. Needs' = Needs
        BY <3>1, SameGraph
      <3>5. Verdict = "none" /\ Verdict' = "none"
        BY <3>1 DEF Verdict
      <3> HIDE DEF node
      <3>6. Abstract!Place(node)
        BY <2>1, <3>1, <3>2, <3>3, <3>4, <3>5 DEF Abstract!Place
      <3> QED BY <2>1, <3>2, <3>6 DEF Abstract!Next
    <2>3. CASE SortEnds
      <3>1. /\ stage = "sort" /\ queue = <<>> /\ result' = result /\ UNCHANGED given
            /\ stage' = IF Len(result) = Cardinality(Nodes) THEN "ordered" ELSE "search"
        BY <2>3 DEF SortEnds, sortVars
      <3>2. Needs' = Needs
        BY <3>1, SameGraph
      <3>3. CASE Len(result) = Cardinality(Nodes)
        <4>1. ToSet(result) \in SUBSET Nodes /\ Cardinality(ToSet(result)) = Len(result)
          <5>1. ToSet(result) \in SUBSET Nodes
            BY DEF OrderInv, SortOK, ToSet
          <5>2. Cardinality(ToSet(result)) = Len(result)
            BY CountSet DEF OrderInv, SortOK
          <5> QED BY <5>1, <5>2
        <4>2. ToSet(result) = Nodes
          BY <3>3, <4>1, FS_Subset DEF OrderInv, GraphOK
        <4>3. Verdict = "none" /\ Verdict' = "ordered"
          BY <3>1, <3>3 DEF Verdict
        <4> QED BY <2>1, <3>1, <3>2, <4>2, <4>3 DEF Abstract!Complete, Abstract!Next
      <3>4. CASE Len(result) # Cardinality(Nodes)
        <4>1. Abstract!Circular
          BY <3>1, <3>4, RestIsCircular
        <4>2. Verdict = "none" /\ Verdict' = "circular"
          BY <3>1, <3>4 DEF Verdict
        <4> QED BY <3>1, <3>2, <4>1, <4>2 DEF Abstract!Refuse, Abstract!Next
      <3> QED BY <3>3, <3>4
    <2>4. CASE DetectCycles
      <3>1. /\ stage = "search" /\ stage' \in {"search", "circular"}
            /\ UNCHANGED given /\ result' = result
        BY <2>4 DEF DetectCycles, SearchFrom, SearchEdge, SearchReturn, sortVars
      <3>2. Needs' = Needs
        BY <3>1, SameGraph
      <3>3. Verdict = "circular" /\ Verdict' = "circular"
        BY <3>1 DEF Verdict
      <3> QED BY <3>1, <3>2, <3>3 DEF Abstract!vars
    <2> QED BY <2>2, <2>3, <2>4 DEF OrderNext, ResolveDeploymentOrder
  <1>3. ASSUME UNCHANGED orderVars
        PROVE  UNCHANGED Abstract!vars
    <2>1. Needs' = Needs /\ UNCHANGED <<result, stage>>
      BY <1>3, SameGraph DEF orderVars, sortVars
    <2> QED BY <2>1 DEF Abstract!vars, Verdict
  <1>4. OrderInv /\ [Next]_vars => [Abstract!Next]_(Abstract!vars)
    BY <1>2, <1>3, OrderSteps
  <1> QED BY <1>1, <1>4, OrderInvariant, PTL DEF Spec, ImplementsDeployOrder, Abstract!Spec

(***************************************************************************)
(* The client.                                                             *)
(***************************************************************************)

(* A set of naturals has a least element.                                  *)
LEMMA MinOfSet ==
    ASSUME NEW S \in SUBSET Nat, S # {}
    PROVE  Min(S) \in S /\ \A y \in S : Min(S) <= y
  <1> DEFINE R == OpToRel(<, Nat)
  <1>1. IsWellFoundedOn(R, Nat)
    BY NatLessThanWellFounded, Zenon
  <1>2. \A x, y \in Nat : <<x, y>> \in R <=> x < y
    BY DEF OpToRel
  <1> HIDE DEF R
  <1>3. PICK x \in S : \A y \in S : ~(<<y, x>> \in R)
    BY <1>1, WFMin
  <1>4. \A y \in S : x <= y
    <2> SUFFICES ASSUME NEW y \in S PROVE x <= y
      OBVIOUS
    <2>1. x \in Nat /\ y \in Nat /\ ~(<<y, x>> \in R)
      BY <1>3
    <2>2. ~(y < x)
      BY <1>2, <2>1
    <2> QED BY <2>1, <2>2
  <1> QED BY <1>3, <1>4 DEF Min

(* A round of checks runs after the sort, and the dependencies that it has *)
(* passed were seen to meet their condition.                               *)
ClientInv ==
    /\ listed \in SUBSET Ids /\ deps \in [Ids -> DepLists]
    /\ DOMAIN status = Ids
    /\ at \in Nat
    /\ check \in Nat
    /\ check > 0 =>
          /\ stage = "ordered"
          /\ \A i \in 1 .. check - 1 : i \in DOMAIN deps[Current] => deps[Current][i] \in seen

(* The workload that is up next is one of the listed ones.                 *)
LEMMA CurrentListed ==
    ASSUME OrderInv, ClientInv, Deploying
    PROVE  /\ Min(Ahead) \in Nat
           /\ Current \in Ids /\ Len(deps[Current]) \in Nat
           /\ DOMAIN deps[Current] = 1 .. Len(deps[Current])
           /\ \A i \in DOMAIN deps[Current] : deps[Current][i] \in Ids
  <1>1. result \in Seq(Nodes) /\ Len(result) \in Nat /\ DOMAIN result = 1 .. Len(result)
    BY DEF OrderInv, SortOK
  <1>2. Ahead \in SUBSET Nat /\ Ahead # {}
    BY <1>1 DEF Ahead, DeploymentOrder, Deploying
  <1>3. Min(Ahead) \in Ahead
    BY <1>2, MinOfSet
  <1>4. Current \in listed
    BY <1>3 DEF Current, Ahead, DeploymentOrder
  <1>5. deps[Current] \in DepLists
    BY <1>4 DEF ClientInv
  <1>6. MaxDeps \in Nat
    BY OrderAssumption
  <1>7. PICK k \in 0 .. MaxDeps : deps[Current] \in [1 .. k -> Ids]
    BY <1>5 DEF DepLists
  <1>8. k \in Nat /\ deps[Current] \in Seq(Ids) /\ Len(deps[Current]) = k
    BY <1>6, <1>7
  <1> QED BY <1>2, <1>3, <1>4, <1>7, <1>8 DEF ClientInv

(* What was seen in this round stays seen.                                 *)
LEMMA SeenGrows ==
    ASSUME Observe, check # 0
    PROVE  seen \subseteq seen'
  BY DEF Observe

LEMMA CurrentKept ==
    ASSUME UNCHANGED orderVars, at' = at
    PROVE  Current' = Current /\ UNCHANGED <<listed, deps, stage>>
  BY DEF orderVars, given, sortVars, Current, Ahead, DeploymentOrder

(* A dependency is passed only if it meets its condition now.              *)
LEMMA CheckSees ==
    ASSUME OrderInv, ClientInv, CheckDependency, Observe
    PROVE  ClientInv'
  <1> DEFINE id == deps[Current][check]
             s == Synced(status[id])
  <1>1. /\ Deploying /\ check \in DOMAIN deps[Current]
        /\ status' = [status EXCEPT ![id] = s]
        /\ check' = IF checkDependency(s, id) THEN check + 1 ELSE 0
        /\ at' = at /\ UNCHANGED orderVars
    BY DEF CheckDependency, Waiting
  <1>2. /\ Current' = Current /\ UNCHANGED <<listed, deps, stage>>
    BY <1>1, CurrentKept
  <1>3. /\ check \in 1 .. Len(deps[Current]) /\ Len(deps[Current]) \in Nat /\ id \in Ids
    BY <1>1, CurrentListed
  <1> HIDE DEF s
  <1>4. status'[id] = s /\ DOMAIN status' = Ids
    BY <1>1, <1>3 DEF ClientInv
  <1>5. checkDependency(s, id) => id \in seen'
    <2>1. checkDependency(s, id) => ConditionMet(status'[id], id)
      BY <1>4 DEF checkDependency
    <2> QED BY <2>1, <1>3 DEF Observe, ConditionMet, isHealthy, isReady
  <1>6. seen \subseteq seen'
    BY <1>3, SeenGrows
  <1>7. CASE ~checkDependency(s, id)
    BY <1>1, <1>2, <1>4, <1>7 DEF ClientInv
  <1>8. CASE checkDependency(s, id)
    <2>1. check' = check + 1 /\ check' \in Nat /\ stage = "ordered" /\ check > 0
      BY <1>1, <1>3, <1>8 DEF Deploying
    <2>2. ASSUME NEW i \in 1 .. check' - 1, i \in DOMAIN deps[Current]
          PROVE  deps[Current][i] \in seen'
      <3>1. CASE i = check
        BY <3>1, <1>5, <1>8
      <3>2. CASE i # check
        <4>1. i \in 1 .. check - 1
          BY <2>1, <3>2, <1>3
        <4> QED BY <4>1, <2>1, <2>2, <1>6 DEF ClientInv
      <3> QED BY <3>1, <3>2
    <2> QED BY <1>1, <1>2, <1>4, <2>1, <2>2 DEF ClientInv
  <1> QED BY <1>7, <1>8

(* The other steps that leave the round of checks alone.                   *)
LEMMA RoundKept ==
    ASSUME ClientInv, Observe, UNCHANGED orderVars, UNCHANGED <<at, check>>,
           DOMAIN status' = Ids
    PROVE  ClientInv'
  <1>1. /\ Current' = Current /\ UNCHANGED <<listed, deps, stage, at, check>>
    BY CurrentKept
  <1>2. check > 0 => seen \subseteq seen'
    BY SeenGrows DEF ClientInv
  <1> QED BY <1>1, <1>2 DEF ClientInv

LEMMA ClientInitInv ==
    ASSUME Init
    PROVE  ClientInv
  BY DEF Init, OrderInit, ClientInv

LEMMA ClientNextInv ==
    ASSUME OrderInv, ClientInv, Next
    PROVE  ClientInv'
  <1> USE DEF Next
  <1>1. CASE Resolve /\ Observe
    <2>1. UNCHANGED <<listed, deps, status, at, check>> /\ stage # "ordered"
      BY <1>1 DEF Resolve, waitVars, OrderNext, ResolveDeploymentOrder, SortStep, SortEnds,
                  DetectCycles, SearchFrom, SearchEdge, SearchReturn, given
    <2> QED BY <2>1 DEF ClientInv
  <1>2. CASE CheckDependency /\ Observe
    BY <1>2, CheckSees
  <1>3. CASE Start /\ Observe
    <2>1. /\ Deploying /\ status' = [status EXCEPT ![Current] = Fresh]
          /\ at' = Min(Ahead) /\ check' = 0 /\ UNCHANGED <<listed, deps>>
      BY <1>3 DEF Start, orderVars, given
    <2>2. at' \in Nat
      BY <2>1, CurrentListed
    <2> QED BY <2>1, <2>2 DEF ClientInv
  <1>4. CASE WaitTimesOut /\ Observe
    BY <1>4, RoundKept DEF WaitTimesOut, ClientInv
  <1>5. CASE Tick /\ Observe
    <2>1. /\ check' \in {0, 1} /\ at' = at /\ UNCHANGED <<listed, deps, stage>>
          /\ stage = "ordered" /\ DOMAIN status' = Ids
      BY <1>5 DEF Tick, Waiting, Deploying, orderVars, given
    <2>2. CASE check' = 0
      BY <2>1, <2>2 DEF ClientInv
    <2>3. CASE check' = 1
      <3>1. \A i \in 1 .. check' - 1 : FALSE
        BY <2>3
      <3> QED BY <2>1, <2>3, <3>1 DEF ClientInv
    <2> QED BY <2>1, <2>2, <2>3
  <1>6. ASSUME NEW id \in Ids, Reconcile(id) \/ ReplicaReady(id) \/ Fail(id) \/ Recover(id),
               Observe
        PROVE  ClientInv'
    <2>1. UNCHANGED orderVars /\ UNCHANGED <<at, check>>
      BY <1>6 DEF Reconcile, ReplicaReady, Fail, Recover, Report, waitVars
    <2>2. DOMAIN status' = DOMAIN status
      BY <1>6 DEF Reconcile, ReplicaReady, Fail, Recover, Report
    <2> QED BY <1>6, <2>1, <2>2, RoundKept DEF ClientInv
  <1> QED BY <1>1, <1>2, <1>3, <1>4, <1>5, <1>6 DEF Client

LEMMA ClientStutterInv ==
    ASSUME ClientInv, UNCHANGED vars
    PROVE  ClientInv'
  <1>1. UNCHANGED orderVars /\ UNCHANGED <<at, check, status, seen>>
    BY DEF vars, waitVars
  <1>2. Current' = Current /\ UNCHANGED <<listed, deps, stage>>
    BY <1>1, CurrentKept
  <1> QED BY <1>1, <1>2 DEF ClientInv

LEMMA ClientInvariant == Spec => [](OrderInv /\ ClientInv)
  <1>1. Init => ClientInv
    BY ClientInitInv
  <1>2. OrderInv /\ ClientInv /\ [Next]_vars => ClientInv'
    BY ClientNextInv, ClientStutterInv
  <1> QED BY <1>1, <1>2, OrderInvariant, PTL DEF Spec

(* WaitDependencies, for every workload: it is deployed only when each of  *)
(* its dependencies met its condition since the last tick, however the     *)
(* dependencies fail and recover in between.                               *)
THEOREM StartIsSatisfied == Spec => StartsOnSatisfied
  <1>1. ASSUME OrderInv, ClientInv, Next, at' # at
        PROVE  ToSet(deps[Current]) \subseteq seen
    <2> USE <1>1
    <2>1. Start
      BY DEF Next, Client, Resolve, CheckDependency, WaitTimesOut, Tick, Reconcile, ReplicaReady,
             Fail, Recover, Report, waitVars
    <2>2. Deploying /\ (check = Len(deps[Current]) + 1 \/ deps[Current] = <<>>)
      BY <2>1 DEF Start
    <2>3. CASE deps[Current] = <<>>
      BY <2>3 DEF ToSet
    <2>4. CASE check = Len(deps[Current]) + 1
      <3>1. /\ Len(deps[Current]) \in Nat /\ DOMAIN deps[Current] = 1 .. Len(deps[Current])
        BY <2>2, CurrentListed
      <3>2. check > 0 /\ check - 1 = Len(deps[Current])
        BY <2>4, <3>1
      <3>3. \A i \in 1 .. Len(deps[Current]) : deps[Current][i] \in seen
        BY <3>1, <3>2 DEF ClientInv
      <3> QED BY <3>1, <3>3 DEF ToSet
    <2> QED BY <2>2, <2>3, <2>4
  <1>2. OrderInv /\ ClientInv /\ [Next]_vars
           => [at' # at => ToSet(deps[Current]) \subseteq seen]_vars
    BY <1>1
  <1> QED BY <1>2, ClientInvariant, PTL DEF Spec, StartsOnSatisfied

(***************************************************************************)
(* Types.  Those of the sort and the search follow from OrderInv; what     *)
(* the client and the loop keep needs sound circuits (CircuitEngine) and   *)
(* that nothing is deployed before the sort has ended.                     *)
(***************************************************************************)
StatusOK(s, id) ==
    /\ s \in [phase : Phases \cup {"none"}, ready : 0 .. Replicas[id], cb : CircuitStatus]
    /\ Sound(s.cb)

StatusesOK == DOMAIN status = Ids /\ \A id \in Ids : StatusOK(status[id], id)

WaitOK ==
    /\ at \in 0 .. Len(result)
    /\ stage # "ordered" => at = 0
    /\ check \in 0 .. MaxDeps + 1
    /\ elapsed \in Nat

BoundsOK ==
    /\ timedOut \in BOOLEAN
    /\ seen \subseteq Ids
    /\ slow \in 0 .. MaxSlow
    /\ failures \in 0 .. MaxFailures

TypeInv ==
    /\ graph \subseteq Edge
    /\ StatusesOK
    /\ WaitOK
    /\ BoundsOK

(* A stored status with a new circuit, or with a new report.               *)
LEMMA StatusRewritten ==
    ASSUME NEW id \in Ids, NEW s, StatusOK(s, id)
    PROVE  /\ \A c : Sound(c) => StatusOK([s EXCEPT !.cb = c], id)
           /\ \A p \in Phases, r \in 0 .. Replicas[id] :
                 StatusOK([[s EXCEPT !.phase = p] EXCEPT !.ready = r], id)
           /\ s.phase # "none" => Sound(SyncFromWorkload(s.cb, s.phase, s.ready > 0))
  <1>1. \A c : Sound(c) => StatusOK([s EXCEPT !.cb = c], id)
    <2> SUFFICES ASSUME NEW c, Sound(c) PROVE StatusOK([s EXCEPT !.cb = c], id)
      OBVIOUS
    <2>1. c \in CircuitStatus
      BY DEF Sound
    <2>2. [s EXCEPT !.cb = c].cb = c
      BY DEF StatusOK
    <2> QED BY <2>1, <2>2 DEF StatusOK
  <1>2. \A p \in Phases, r \in 0 .. Replicas[id] :
           StatusOK([[s EXCEPT !.phase = p] EXCEPT !.ready = r], id)
    <2> SUFFICES ASSUME NEW p \in Phases, NEW r \in 0 .. Replicas[id]
                 PROVE  StatusOK([[s EXCEPT !.phase = p] EXCEPT !.ready = r], id)
      OBVIOUS
    <2> DEFINE t == [s EXCEPT !.phase = p]
    <2>1. t \in [phase : Phases \cup {"none"}, ready : 0 .. Replicas[id], cb : CircuitStatus]
          /\ t.cb = s.cb
      BY DEF StatusOK
    <2> HIDE DEF t
    <2>2. [t EXCEPT !.ready = r]
            \in [phase : Phases \cup {"none"}, ready : 0 .. Replicas[id], cb : CircuitStatus]
          /\ [t EXCEPT !.ready = r].cb = s.cb
      BY <2>1
    <2> QED BY <2>2 DEF StatusOK, t
  <1>3. ASSUME s.phase # "none"
        PROVE  Sound(SyncFromWorkload(s.cb, s.phase, s.ready > 0))
    <2>1. s.phase \in Phases /\ Sound(s.cb) /\ (s.ready > 0) \in BOOLEAN
      BY <1>3 DEF StatusOK
    <2> QED BY <2>1, SyncSound
  <1> QED BY <1>1, <1>2, <1>3

(* AllowRoute's sync.                                                      *)
LEMMA SyncedOK ==
    ASSUME NEW id \in Ids, NEW s, StatusOK(s, id)
    PROVE  StatusOK(Synced(s), id)
  <1>1. CASE s.phase = "none"
    BY <1>1 DEF Synced
  <1>2. CASE s.phase # "none"
    <2> DEFINE c == SyncFromWorkload(s.cb, s.phase, s.ready > 0)
    <2>1. Sound(c)
      BY <1>2, StatusRewritten
    <2>2. Synced(s) = [s EXCEPT !.cb = c]
      BY <1>2 DEF Synced
    <2> HIDE DEF c
    <2>3. StatusOK([s EXCEPT !.cb = c], id)
      BY <2>1, StatusRewritten, Zenon
    <2> QED BY <2>2, <2>3
  <1> QED BY <1>1, <1>2

(* One status changes.                                                     *)
LEMMA OneStatusChanges ==
    ASSUME StatusesOK, NEW id \in Ids, NEW s, StatusOK(s, id),
           status' = [status EXCEPT ![id] = s]
    PROVE  StatusesOK'
  BY DEF StatusesOK, StatusOK, Sound, CircuitStatus, Consistent

(* The statuses that workloads are created with.                           *)
LEMMA NewStatuses ==
    ASSUME NEW id \in Ids
    PROVE  StatusOK(Fresh, id) /\ StatusOK(Absent, id) /\ StatusOK(Up(id), id)
  <1>1. Sound(NoCircuit) /\ NoCircuit \in CircuitStatus
    BY BlankStatus DEF Sound
  <1>2. Replicas[id] \in Nat
    BY DependenciesAssumption
  <1>3. 0 \in 0 .. Replicas[id] /\ Replicas[id] \in 0 .. Replicas[id]
    BY <1>2
  <1> QED BY <1>1, <1>3 DEF StatusOK, Fresh, Absent, Up, Phases

(* The first states.                                                       *)
LEMMA TypeInit ==
    ASSUME Init
    PROVE  TypeInv
  <1>1. graph \subseteq Edge
    <2>1. listed \in SUBSET Ids /\ deps \in [Ids -> DepLists] /\ graph = buildDependencyGraph
      BY DEF Init, OrderInit
    <2> QED BY <2>1, GraphBuilt
  <1>2. StatusesOK
    <2>1. PICK before \in SUBSET (Nodes \ listed) :
             status = [id \in Ids |-> IF id \in before THEN Up(id) ELSE Absent]
      BY DEF Init
    <2>2. DOMAIN status = Ids /\ \A id \in Ids : status[id] \in {Up(id), Absent}
      BY <2>1
    <2> QED BY <2>2, NewStatuses DEF StatusesOK
  <1>3. WaitOK
    <2>1. MaxDeps \in Nat /\ Len(result) = 0
      BY OrderAssumption DEF Init, OrderInit
    <2> QED BY <2>1 DEF Init, WaitOK
  <1>4. BoundsOK
    <2>1. slow \in 0 .. MaxSlow /\ failures \in 0 .. MaxFailures
      BY DependenciesAssumption DEF Init
    <2> QED BY <2>1, Zenon DEF Init, BoundsOK
  <1> QED BY <1>1, <1>2, <1>3, <1>4 DEF TypeInv

(* The statuses after each step.                                           *)
LEMMA StatusStep ==
    ASSUME OrderInv, ClientInv, TypeInv, Next
    PROVE  StatusesOK'
  <1> USE DEF Next
  <1>1. StatusesOK
    BY DEF TypeInv
  <1>2. CASE Resolve \/ WaitTimesOut
    BY <1>1, <1>2 DEF Resolve, WaitTimesOut, StatusesOK, StatusOK, Sound, Consistent
  <1>3. CASE CheckDependency
    <2> DEFINE id == deps[Current][check]
               s == Synced(status[id])
    <2>1. Deploying /\ check \in DOMAIN deps[Current] /\ status' = [status EXCEPT ![id] = s]
      BY <1>3 DEF CheckDependency, Waiting
    <2>2. id \in Ids
      BY <2>1, CurrentListed
    <2>3. StatusOK(s, id)
      BY <1>1, <2>2, SyncedOK DEF StatusesOK
    <2> HIDE DEF s, id
    <2> QED BY <1>1, <2>1, <2>2, <2>3, OneStatusChanges
  <1>4. CASE Start
    <2>1. Deploying /\ status' = [status EXCEPT ![Current] = Fresh]
      BY <1>4 DEF Start
    <2>2. Current \in Ids
      BY <2>1, CurrentListed
    <2> QED BY <1>1, <2>1, <2>2, NewStatuses, OneStatusChanges
  <1>5. CASE Tick
    <2> DEFINE left(c) == IF c.openUntil > 0 THEN c.openUntil - 1 ELSE c.openUntil
               ticked(s) == [s EXCEPT !.cb = [s.cb EXCEPT !.openUntil = left(s.cb)]]
    <2>1. DOMAIN status' = Ids
      BY <1>5 DEF Tick
    <2>2. ASSUME NEW id \in Ids
          PROVE  StatusOK(status'[id], id)
      <3> DEFINE s == status[id]
                 c == [s.cb EXCEPT !.openUntil = left(s.cb)]
      <3>1. StatusOK(s, id) /\ Sound(s.cb)
        BY <1>1, <2>2 DEF StatusesOK, StatusOK
      <3>2. status'[id] = [s EXCEPT !.cb = c]
        BY <1>5, <2>2, Zenon DEF Tick
      <3>3. Sound(c)
        BY <3>1, TickSound
      <3> HIDE DEF c, s
      <3>4. StatusOK([s EXCEPT !.cb = c], id)
        BY <2>2, <3>1, <3>3, StatusRewritten, Zenon
      <3> QED BY <3>2, <3>4
    <2> QED BY <2>1, <2>2 DEF StatusesOK, StatusOK, Sound, Consistent
  <1>6. ASSUME NEW id \in Ids, Reconcile(id)
        PROVE  StatusesOK'
    <2> DEFINE t == Synced(status[id])
               s == Synced(t)
               new == [phase |-> IF RouteVerdict(s.cb, s.phase) /\ s.phase = "Pending"
                                 THEN "Running" ELSE s.phase,
                       ready |-> s.ready,
                       cb |-> IF RouteVerdict(s.cb, s.phase) THEN RecordRouteAttempt(s.cb)
                              ELSE s.cb]
    <2>1. status' = [status EXCEPT ![id] = new]
      BY <1>6, Zenon DEF Reconcile
    <2>2. StatusOK(t, id)
      BY <1>1, <1>6, SyncedOK DEF StatusesOK
    <2>3. StatusOK(s, id)
      BY <1>6, <2>2, SyncedOK
    <2> HIDE DEF s, t
    <2>4. Sound(s.cb) /\ Sound(RecordRouteAttempt(s.cb))
      BY <2>3, RecordSound DEF StatusOK
    <2>5. StatusOK(new, id)
      BY <2>3, <2>4 DEF StatusOK, Sound, Phases
    <2> HIDE DEF new
    <2> QED BY <1>1, <1>6, <2>1, <2>5, OneStatusChanges
  <1>7. ASSUME NEW id \in Ids, ReplicaReady(id) \/ Fail(id) \/ Recover(id)
        PROVE  StatusesOK'
    <2>1. StatusOK(status[id], id) /\ DOMAIN status = Ids /\ Replicas[id] \in Nat
      BY <1>1, <1>7, DependenciesAssumption DEF StatusesOK
    <2>2. ASSUME NEW p \in Phases, NEW r \in 0 .. Replicas[id],
                 Report(id, [phase |-> p, ready |-> r])
          PROVE  StatusesOK'
      <3> DEFINE new == [[status[id] EXCEPT !.phase = p] EXCEPT !.ready = r]
      <3>1. StatusOK(new, id)
        BY <1>7, <2>1, <2>2, StatusRewritten, Zenon
      <3>2. status' = [status EXCEPT ![id] = new]
        BY <1>7, <2>1, <2>2 DEF Report
      <3> HIDE DEF new
      <3> QED BY <1>1, <1>7, <3>1, <3>2, OneStatusChanges
    <2>3. status[id].ready \in 0 .. Replicas[id]
      BY <2>1 DEF StatusOK
    <2>4. CASE ReplicaReady(id)
      <3>1. status[id].ready + 1 \in 0 .. Replicas[id]
        BY <2>1, <2>3, <2>4 DEF ReplicaReady
      <3> QED BY <2>2, <2>4, <3>1 DEF ReplicaReady, Phases
    <2>5. CASE Fail(id)
      <3>1. 0 \in 0 .. Replicas[id]
        BY <2>1
      <3> QED BY <2>2, <2>5, <3>1 DEF Fail, Phases
    <2>6. CASE Recover(id)
      <3>1. Replicas[id] \in 0 .. Replicas[id]
        BY <2>1
      <3> QED BY <2>2, <2>6, <3>1 DEF Recover, Phases
    <2> QED BY <1>7, <2>4, <2>5, <2>6
  <1> QED BY <1>2, <1>3, <1>4, <1>5, <1>6, <1>7 DEF Client

(* The position, the check and the clock of the client after each step.    *)
LEMMA WaitStep ==
    ASSUME OrderInv, ClientInv, TypeInv, Next
    PROVE  WaitOK'
  <1> USE DEF Next
  <1>1. /\ at \in 0 .. Len(result) /\ (stage # "ordered" => at = 0)
        /\ check \in 0 .. MaxDeps + 1 /\ elapsed \in Nat
        /\ result \in Seq(Nodes) /\ Len(result) \in Nat /\ MaxDeps \in Nat
    BY OrderAssumption DEF TypeInv, WaitOK, OrderInv, SortOK
  <1>2. CASE Resolve
    <2>1. UNCHANGED <<at, check, elapsed>> /\ stage # "ordered"
      BY <1>2 DEF Resolve, waitVars, OrderNext, ResolveDeploymentOrder, SortStep, SortEnds,
                  DetectCycles, SearchFrom, SearchEdge, SearchReturn
    <2>2. Len(result)' \in Nat
      <3>1. OrderInv'
        BY <1>2, OrderNextInv DEF Resolve
      <3> QED BY <3>1 DEF OrderInv, SortOK
    <2> QED BY <1>1, <2>1, <2>2 DEF WaitOK
  <1>3. CASE CheckDependency
    <2>1. /\ Deploying /\ check \in DOMAIN deps[Current]
          /\ check' \in {check + 1, 0} /\ UNCHANGED <<at, elapsed, result, stage>>
      BY <1>3 DEF CheckDependency, Waiting, orderVars, sortVars
    <2>2. check \in 1 .. Len(deps[Current]) /\ Len(deps[Current]) \in 0 .. MaxDeps
      <3>1. /\ Current \in Ids /\ DOMAIN deps[Current] = 1 .. Len(deps[Current])
            /\ Len(deps[Current]) \in Nat
        BY <2>1, CurrentListed
      <3>2. deps[Current] \in DepLists
        BY <3>1 DEF ClientInv
      <3>3. PICK k \in 0 .. MaxDeps : deps[Current] \in [1 .. k -> Ids]
        BY <3>2 DEF DepLists
      <3>4. k \in Nat /\ Len(deps[Current]) = k
        BY <1>1, <3>3
      <3> QED BY <2>1, <3>1, <3>3, <3>4
    <2>3. check' \in 0 .. MaxDeps + 1
      BY <1>1, <2>1, <2>2
    <2> QED BY <1>1, <2>1, <2>3 DEF WaitOK
  <1>4. CASE Start
    <2>1. /\ Deploying /\ at' = Min(Ahead) /\ elapsed' = 0 /\ check' = 0
          /\ UNCHANGED <<result, stage>>
      BY <1>4 DEF Start, orderVars, sortVars
    <2>2. Ahead \in SUBSET Nat /\ Ahead # {} /\ Ahead \subseteq DOMAIN result
      BY <1>1, <2>1 DEF Ahead, DeploymentOrder, Deploying
    <2>3. Min(Ahead) \in Ahead
      BY <2>2, MinOfSet
    <2>4. DOMAIN result = 1 .. Len(result)
      BY <1>1
    <2>5. at' \in 0 .. Len(result)
      <3>1. at' \in DOMAIN result
        BY <2>1, <2>2, <2>3, Zenon
      <3>2. \A n \in Nat : 1 .. n \subseteq 0 .. n
        OBVIOUS
      <3> QED BY <1>1, <2>4, <3>1, <3>2, Zenon
    <2>6. stage = "ordered"
      BY <2>1 DEF Deploying
    <2> QED BY <1>1, <2>1, <2>5, <2>6 DEF WaitOK
  <1>5. CASE Tick
    <2>1. /\ check' \in {0, 1} /\ elapsed' = elapsed + 1 /\ UNCHANGED <<at, result, stage>>
      BY <1>5 DEF Tick, orderVars, sortVars
    <2>2. check' \in 0 .. MaxDeps + 1
      BY <1>1, <2>1
    <2> QED BY <1>1, <2>1, <2>2 DEF WaitOK
  <1>6. ASSUME UNCHANGED <<at, check, elapsed, result, stage>>
        PROVE  WaitOK'
    BY <1>1, <1>6 DEF WaitOK
  <1>7. CASE WaitTimesOut \/ \E id \in Ids : Reconcile(id) \/ ReplicaReady(id) \/ Fail(id)
                                             \/ Recover(id)
    BY <1>6, <1>7 DEF WaitTimesOut, Reconcile, ReplicaReady, Fail, Recover, Report, waitVars,
                      orderVars, sortVars
  <1> QED BY <1>2, <1>3, <1>4, <1>5, <1>7 DEF Client

(* The history and the bounded counters.                                   *)
LEMMA BoundsStep ==
    ASSUME TypeInv, Next
    PROVE  BoundsOK'
  <1> USE DEF Next
  <1>1. /\ timedOut \in BOOLEAN /\ seen \subseteq Ids
        /\ slow \in 0 .. MaxSlow /\ failures \in 0 .. MaxFailures
        /\ MaxSlow \in Nat /\ MaxFailures \in Nat
    BY DependenciesAssumption DEF TypeInv, BoundsOK
  <1>2. seen' \subseteq Ids
    BY <1>1 DEF Observe
  <1>3. timedOut' \in BOOLEAN
    BY <1>1, Zenon
       DEF Resolve, Client, CheckDependency, Start, WaitTimesOut, Tick, Reconcile, ReplicaReady,
           Fail, Recover, Report, waitVars
  <1>4. slow' \in {slow, slow + 1} /\ (slow' = slow \/ slow < MaxSlow)
    <2>1. CASE Tick
      BY <2>1 DEF Tick
    <2>2. CASE ~Tick
      BY <2>2 DEF Resolve, Client, CheckDependency, Start, WaitTimesOut, Reconcile,
                  ReplicaReady, Fail, Recover, Report, waitVars, bounds
    <2> QED BY <2>1, <2>2
  <1>5. failures' = failures \/ (failures' = failures + 1 /\ failures < MaxFailures)
    BY DEF Resolve, Client, CheckDependency, Start, WaitTimesOut, Tick, Reconcile,
           ReplicaReady, Fail, Recover, Report, waitVars, bounds
  <1>6. slow' \in 0 .. MaxSlow /\ failures' \in 0 .. MaxFailures
    BY <1>1, <1>4, <1>5
  <1> QED BY <1>2, <1>3, <1>6, Zenon DEF BoundsOK

LEMMA TypeNext ==
    ASSUME OrderInv, ClientInv, TypeInv, [Next]_vars
    PROVE  TypeInv'
  <1>1. CASE Next
    <2>1. graph' = graph
      BY <1>1 DEF Next, Resolve, OrderNext, ResolveDeploymentOrder, SortStep, SortEnds,
                  DetectCycles, SearchFrom, SearchEdge, SearchReturn, Client, CheckDependency,
                  Start, WaitTimesOut, Tick, Reconcile, ReplicaReady, Fail, Recover, Report,
                  orderVars, given
    <2> QED BY <1>1, <2>1, StatusStep, WaitStep, BoundsStep DEF TypeInv, Edge
  <1>2. CASE UNCHANGED vars
    <2>1. UNCHANGED <<graph, result, stage, status, at, elapsed, check, timedOut, seen, slow,
                      failures>>
      BY <1>2 DEF vars, orderVars, given, sortVars, waitVars, bounds
    <2>2. StatusesOK'
      BY <2>1 DEF TypeInv, StatusesOK, StatusOK, Sound, Consistent
    <2> QED BY <2>1, <2>2 DEF TypeInv, WaitOK, BoundsOK, Edge
  <1> QED BY <1>1, <1>2

(* Every variable keeps its type, for every set of workloads, conditions,  *)
(* timeouts and circuit configuration.                                     *)
THEOREM TypeCorrect == Spec => []TypeOK
  <1>1. Init => TypeInv
    BY TypeInit
  <1>2. OrderInv /\ ClientInv /\ TypeInv /\ [Next]_vars => TypeInv'
    BY TypeNext
  <1>3. ASSUME OrderInv, ClientInv, TypeInv
        PROVE  TypeOK
    <2>1. OrderTypeOK
      BY <1>3 DEF OrderInv, SortOK, PathOK, TodoOK, CycleOK, ClientInv, TypeInv, OrderTypeOK
    <2>2. \A id \in Ids : IsStatus(status[id], id)
      BY <1>3 DEF TypeInv, StatusesOK, StatusOK, IsStatus
    <2> QED BY <1>3, <2>1, <2>2 DEF TypeInv, WaitOK, BoundsOK, TypeOK
  <1> QED BY <1>1, <1>2, <1>3, ClientInvariant, PTL DEF Spec

(***************************************************************************)
(* Without failures nobody waits in vain.                                  *)
(***************************************************************************)

(* A workload that never failed, and its circuit, which never counted.     *)
Calm(s) == s.phase \in {"none", "Pending", "Running"} /\ s.cb.state \in {"none", "closed"}

(* The order is one: what a workload depends on is placed before it.       *)
PlacedOK ==
    /\ \A w \in listed : \A i \in DOMAIN deps[w] :
          [from |-> deps[w][i], to |-> w, at |-> i] \in graph
    /\ \A i \in 1 .. Len(result) : \A e \in graph :
          e.to = result[i] => \E j \in 1 .. i - 1 : result[j] = e.from

(* The client has gone through the order up to at.                         *)
StartedOK == \A i \in 1 .. at : result[i] \in listed => result[i] \in Present

(* Every tick of a wait was one of the slow ones, or all is up and the     *)
(* checks are passing.                                                     *)
PatienceOK ==
    /\ failures = 0 => \A id \in Ids : Calm(status[id])
    /\ failures = 0 /\ Reachable =>
          /\ ~timedOut
          /\ elapsed <= slow \/ (check > 0 /\ AllUp)

WaitInv == PlacedOK /\ StartedOK /\ PatienceOK

(* A finite set of naturals has a greatest element: a smallest set without *)
(* one would have one that is smaller.                                     *)
LEMMA MaxOfSet ==
    ASSUME NEW S \in SUBSET Nat, S # {}, IsFiniteSet(S)
    PROVE  Max(S) \in S /\ \A y \in S : Max(S) >= y
  <1> DEFINE HasMax(T) == \E x \in T : \A y \in T : x >= y
             Bad == {T \in SUBSET S : T # {} /\ ~HasMax(T)}
             sizes == {Cardinality(T) : T \in Bad}
  <1>1. \A T \in SUBSET S : IsFiniteSet(T) /\ Cardinality(T) \in Nat
    BY FS_Subset, FS_CardinalityType
  <1>2. Bad = {}
    <2> SUFFICES ASSUME Bad # {} PROVE FALSE
      OBVIOUS
    <2>1. sizes \in SUBSET Nat /\ sizes # {}
      BY <1>1
    <2> HIDE DEF sizes
    <2>2. Min(sizes) \in sizes /\ \A n \in sizes : Min(sizes) <= n
      BY <2>1, MinOfSet
    <2>3. PICK T \in Bad : Cardinality(T) = Min(sizes)
      BY <2>2 DEF sizes
    <2>4. T \in SUBSET S /\ T # {} /\ ~HasMax(T)
      OBVIOUS
    <2>5. PICK x \in T : TRUE
      BY <2>4
    <2>6. IsFiniteSet(T)
      BY <1>1, <2>4, Zenon
    <2>7. Cardinality(T \ {x}) = Cardinality(T) - 1
      BY <2>5, <2>6, FS_RemoveElement
    <2>8. T \ {x} \in SUBSET S /\ Cardinality(T) \in Nat
      BY <1>1, <2>4
    <2>9. T \ {x} \notin Bad
      <3>1. ASSUME T \ {x} \in Bad PROVE FALSE
        <4>1. Cardinality(T \ {x}) \in sizes
          BY <3>1 DEF sizes
        <4>2. Cardinality(T) <= Cardinality(T) - 1
          BY <2>2, <2>3, <2>7, <4>1
        <4> QED BY <2>8, <4>2
      <3> QED BY <3>1
    <2>10. CASE T \ {x} = {}
      <3>1. T = {x} /\ x >= x
        BY <2>4, <2>5, <2>10
      <3> QED BY <2>4, <3>1
    <2>11. CASE T \ {x} # {}
      <3>1. PICK z \in T \ {x} : \A y \in T \ {x} : z >= y
        BY <2>8, <2>9, <2>11
      <3>2. x \in Nat /\ z \in Nat /\ \A y \in T : y \in Nat
        BY <2>4, <2>5, <3>1
      <3>3. CASE x >= z
        <4>1. \A y \in T : x >= y
          BY <3>1, <3>2, <3>3
        <4> QED BY <2>4, <2>5, <4>1
      <3>4. CASE ~(x >= z)
        <4>1. \A y \in T : z >= y
          BY <3>1, <3>2, <3>4
        <4> QED BY <2>4, <3>1, <4>1
      <3> QED BY <3>3, <3>4
    <2> QED BY <2>10, <2>11
  <1>3. HasMax(S)
    BY <1>2
  <1> QED BY <1>3 DEF Max

(* No wait is shorter than the default.                                    *)
LEMMA WaitsDefault ==
    ASSUME OrderInv, ClientInv, Deploying
    PROVE  MaxTimeout(Current) \in Nat /\ DefaultTimeout <= MaxTimeout(Current)
  <1> DEFINE d == deps[Current]
             more == {Timeout[d[i]] : i \in DOMAIN d}
             all == {DefaultTimeout} \cup more
  <1>1. /\ Len(d) \in Nat /\ DOMAIN d = 1 .. Len(d) /\ \A i \in DOMAIN d : d[i] \in Ids
    BY CurrentListed
  <1>2. DefaultTimeout \in Nat /\ \A id \in Ids : Timeout[id] \in Nat
    BY DependenciesAssumption
  <1>3. all \in SUBSET Nat /\ all # {} /\ DefaultTimeout \in all
    BY <1>1, <1>2
  <1>4. IsFiniteSet(all)
    <2> DEFINE f == [i \in 1 .. Len(d) |-> Timeout[d[i]]]
    <2>1. IsFiniteSet(1 .. Len(d))
      <3>1. 1 \in Int /\ Len(d) \in Int
        BY <1>1
      <3> QED BY <3>1, FS_Interval
    <2>2. f \in Surjection(1 .. Len(d), more)
      BY <1>1 DEF Surjection
    <2> HIDE DEF f, more
    <2>3. IsFiniteSet(more)
      BY <2>1, <2>2, FS_Surjection
    <2>4. more \cup {DefaultTimeout} = all
      OBVIOUS
    <2>5. IsFiniteSet(more \cup {DefaultTimeout})
      BY <2>3, FS_AddElement
    <2> QED BY <2>4, <2>5
  <1> HIDE DEF all
  <1>5. Max(all) \in all /\ \A y \in all : Max(all) >= y
    BY <1>3, <1>4, MaxOfSet
  <1>6. MaxTimeout(Current) = Max(all)
    BY DEF MaxTimeout, all
  <1>7. Max(all) \in Nat /\ Max(all) >= DefaultTimeout
    BY <1>3, <1>5
  <1> QED BY <1>2, <1>6, <1>7

(***************************************************************************)
(* The sort places what a workload depends on before it.                   *)
(***************************************************************************)
LEMMA PlacedInit ==
    ASSUME Init
    PROVE  PlacedOK
  <1>1. graph = buildDependencyGraph /\ result = <<>>
    BY DEF Init, OrderInit
  <1>2. \A w \in listed : \A i \in DOMAIN deps[w] :
           [from |-> deps[w][i], to |-> w, at |-> i] \in graph
    BY <1>1 DEF buildDependencyGraph
  <1>3. \A i \in 1 .. Len(result) : FALSE
    BY <1>1
  <1> QED BY <1>2, <1>3 DEF PlacedOK

LEMMA PlacedStep ==
    ASSUME OrderInv, PlacedOK, [Next]_vars
    PROVE  PlacedOK'
  <1>1. CASE SortStep
    <2> DEFINE node == Head(queue)
               l == Len(result)
    <2>1. /\ queue # <<>> /\ result' = Append(result, node)
          /\ UNCHANGED <<listed, deps, graph>>
      BY <1>1 DEF SortStep, given
    <2>2. node \in Nodes /\ OpenEdges(node) = {}
      BY <2>1, HeadIsFree
    <2>3. result \in Seq(Nodes) /\ l \in Nat /\ DOMAIN result = 1 .. l
      BY DEF OrderInv, SortOK
    <2> HIDE DEF node
    <2>4. /\ Len(result') = l + 1 /\ result'[l + 1] = node
          /\ \A i \in 1 .. l : result'[i] = result[i]
      BY <2>1, <2>2, <2>3
    <2>5. ASSUME NEW i \in 1 .. l + 1, NEW e \in graph, e.to = result'[i]
          PROVE  \E j \in 1 .. i - 1 : result'[j] = e.from
      <3>1. CASE i = l + 1
        <4>1. e.from \in ToSet(result)
          BY <2>2, <2>4, <2>5, <3>1 DEF OpenEdges
        <4>2. PICK j \in 1 .. l : result[j] = e.from
          BY <2>3, <4>1 DEF ToSet
        <4>3. j \in 1 .. i - 1 /\ result'[j] = e.from
          BY <2>3, <2>4, <3>1, <4>2
        <4> QED BY <4>3
      <3>2. CASE i # l + 1
        <4>1. i \in 1 .. l
          BY <2>3, <3>2
        <4>2. e.to = result[i]
          BY <2>4, <2>5, <4>1
        <4>3. PICK j \in 1 .. i - 1 : result[j] = e.from
          BY <4>1, <4>2 DEF PlacedOK
        <4>4. j \in 1 .. l
          BY <2>3, <4>1
        <4> QED BY <2>4, <4>3, <4>4
      <3> QED BY <3>1, <3>2
    <2> HIDE DEF l
    <2>6. \A i \in 1 .. Len(result') : \A e \in graph' :
             e.to = result'[i] => \E j \in 1 .. i - 1 : result'[j] = e.from
      BY <2>1, <2>4, <2>5, Zenon
    <2>7. \A w \in listed' : \A i \in DOMAIN deps'[w] :
             [from |-> deps'[w][i], to |-> w, at |-> i] \in graph'
      BY <2>1 DEF PlacedOK
    <2> QED BY <2>6, <2>7, Zenon DEF PlacedOK
  <1>2. CASE UNCHANGED <<listed, deps, graph, result>>
    BY <1>2 DEF PlacedOK
  <1>3. SortStep \/ UNCHANGED <<listed, deps, graph, result>>
    BY DEF Next, Resolve, OrderNext, ResolveDeploymentOrder, SortEnds,
           DetectCycles, SearchFrom, SearchEdge, SearchReturn, Client, CheckDependency,
           Start, WaitTimesOut, Tick, Reconcile, ReplicaReady, Fail, Recover, Report,
           vars, orderVars, given, sortVars
  <1> QED BY <1>1, <1>2, <1>3

(* If nothing is missing, all that the next workload depends on is there.  *)
LEMMA DependenciesPresent ==
    ASSUME OrderInv, ClientInv, TypeInv, PlacedOK, StartedOK, Deploying, Reachable,
           NEW i \in DOMAIN deps[Current]
    PROVE  deps[Current][i] \in Present
  <1> DEFINE w == Current
             d == deps[w][i]
             p == Min(Ahead)
  <1>1. result \in Seq(Nodes) /\ DOMAIN result = 1 .. Len(result) /\ Len(result) \in Nat
        /\ at \in Nat
    BY DEF OrderInv, SortOK, ClientInv
  <1>2. Ahead \in SUBSET Nat /\ Ahead # {}
    BY <1>1 DEF Ahead, DeploymentOrder, Deploying
  <1>3. p \in Ahead /\ \A q \in Ahead : p <= q
    BY <1>2, MinOfSet
  <1>4. p \in 1 .. Len(result) /\ w = result[p] /\ w \in listed
    BY <1>1, <1>3 DEF Ahead, DeploymentOrder, Current
  <1> HIDE DEF p, w
  <1>5. d \in listed \cup Present
    BY <1>4 DEF Reachable, ToSet, w
  <1>6. CASE d \in listed
    <2> DEFINE e == [from |-> d, to |-> w, at |-> i]
    <2>1. e \in graph /\ e.to = result[p] /\ e.from = d
      BY <1>4 DEF PlacedOK, w
    <2>2. PICK j \in 1 .. p - 1 : result[j] = d
      BY <1>4, <2>1 DEF PlacedOK
    <2>3. j \in 1 .. Len(result) /\ ~(p <= j) /\ j \in Nat
      BY <1>1, <1>4
    <2>4. j \notin Ahead
      BY <1>3, <2>3
    <2>5. ~(j > at)
      BY <1>1, <1>6, <2>2, <2>3, <2>4 DEF Ahead, DeploymentOrder
    <2>6. j \in 1 .. at
      BY <1>1, <2>3, <2>5
    <2> QED BY <1>6, <2>2, <2>6 DEF StartedOK, w
  <1> QED BY <1>5, <1>6 DEF w

(***************************************************************************)
(* What the steps do to a status.                                          *)
(***************************************************************************)

(* A status after a step that neither starts the workload nor fails it.    *)
Later(s, t, id) ==
    /\ t.phase = "none" <=> s.phase = "none"
    /\ isReady(s, id) => isReady(t, id)
    /\ Calm(s) => Calm(t)

(* A sync leaves the report alone, and a calm circuit closed.              *)
LEMMA SyncLater ==
    ASSUME NEW id \in Ids, NEW s, StatusOK(s, id)
    PROVE  /\ Synced(s).phase = s.phase /\ Synced(s).ready = s.ready
           /\ Calm(s) => Calm(Synced(s))
           /\ Calm(s) /\ s.phase # "none" => RouteVerdict(Synced(s).cb, s.phase)
           /\ Later(s, Synced(s), id)
  <1> DEFINE c == SyncFromWorkload(s.cb, s.phase, s.ready > 0)
  <1>1. s \in [phase : Phases \cup {"none"}, ready : 0 .. Replicas[id], cb : CircuitStatus]
        /\ s.cb \in CircuitStatus
    BY DEF StatusOK
  <1>2. CASE s.phase = "none"
    <2>1. Synced(s) = s
      BY <1>2 DEF Synced
    <2> QED BY <1>2, <2>1 DEF Later
  <1>3. CASE s.phase # "none"
    <2>1. Synced(s) = [s EXCEPT !.cb = c]
      BY <1>3 DEF Synced
    <2> HIDE DEF c
    <2>2. Synced(s).phase = s.phase /\ Synced(s).ready = s.ready /\ Synced(s).cb = c
      BY <1>1, <2>1
    <2>3. ASSUME Calm(s)
          PROVE  c.state \in {"none", "closed"} /\ RouteVerdict(c, s.phase)
      <3>1. /\ s.phase \in {"Pending", "Running"} /\ s.cb.state \in {"none", "closed"}
            /\ ~Unhealthy(s.phase) /\ s.phase # "Failed"
        BY <1>3, <2>3 DEF Calm, Unhealthy
      <3>2. CASE ~EnabledFor
        BY <3>1, <3>2 DEF c, SyncFromWorkload, RouteVerdict
      <3>3. CASE EnabledFor
        <4> DEFINE a == Advanced(Initialised(s.cb))
        <4>1. a.state = "closed" /\ a \in CircuitStatus
          BY <1>1, <3>1 DEF Advanced, Initialised, CircuitStatus, CircuitStates
        <4>2. c = SyncClosed(a, s.phase)
          BY <3>3, <4>1 DEF c, SyncFromWorkload
        <4> HIDE DEF a
        <4>3. c.state = "closed"
          BY <3>1, <4>1, <4>2 DEF SyncClosed, CircuitStatus
        <4> QED BY <3>1, <3>3, <4>3 DEF RouteVerdict
      <3> QED BY <3>2, <3>3
    <2>4. Calm(s) => Calm(Synced(s))
      BY <2>2, <2>3 DEF Calm
    <2>5. isReady(s, id) => isReady(Synced(s), id)
      BY <2>2 DEF isReady
    <2> QED BY <1>3, <2>2, <2>3, <2>4, <2>5 DEF Later
  <1> QED BY <1>2, <1>3

(* Every step but Start and Fail leaves later statuses.                    *)
LEMMA StatusesLater ==
    ASSUME OrderInv, ClientInv, TypeInv, Next, ~Start, \A id \in Ids : ~Fail(id),
           NEW n \in Ids
    PROVE  Later(status[n], status'[n], n)
  <1> USE DEF Next
  <1>1. StatusOK(status[n], n) /\ DOMAIN status = Ids
    BY DEF TypeInv, StatusesOK
  <1>2. ASSUME status'[n] = status[n]
        PROVE  Later(status[n], status'[n], n)
    BY <1>2 DEF Later
  <1>3. CASE Resolve \/ WaitTimesOut
    BY <1>2, <1>3 DEF Resolve, WaitTimesOut
  <1>4. CASE CheckDependency
    <2> DEFINE id == deps[Current][check]
    <2>1. Deploying /\ check \in DOMAIN deps[Current]
          /\ status' = [status EXCEPT ![id] = Synced(status[id])]
      BY <1>4 DEF CheckDependency, Waiting
    <2> HIDE DEF id
    <2>2. CASE n = id
      <3>1. status'[n] = Synced(status[n])
        BY <1>1, <2>1, <2>2
      <3> QED BY <1>1, <3>1, SyncLater
    <2>3. CASE n # id
      BY <1>1, <1>2, <2>1, <2>3
    <2> QED BY <2>2, <2>3
  <1>5. CASE Tick
    <2> DEFINE s == status[n]
               left == IF s.cb.openUntil > 0 THEN s.cb.openUntil - 1 ELSE s.cb.openUntil
               c == [s.cb EXCEPT !.openUntil = left]
    <2>1. status'[n] = [s EXCEPT !.cb = c]
      BY <1>5, Zenon DEF Tick
    <2>2. s \in [phase : Phases \cup {"none"}, ready : 0 .. Replicas[n], cb : CircuitStatus]
          /\ s.cb \in CircuitStatus
      BY <1>1 DEF StatusOK
    <2> HIDE DEF left, s
    <2>3. c.state = s.cb.state
      BY <2>2 DEF CircuitStatus
    <2> HIDE DEF c
    <2>4. status'[n].phase = s.phase /\ status'[n].ready = s.ready /\ status'[n].cb = c
      BY <2>1, <2>2
    <2>5. Later(s, status'[n], n)
      BY <2>3, <2>4 DEF Later, isReady, Calm
    <2> QED BY <2>5 DEF s
  <1>6. ASSUME NEW id \in Ids, Reconcile(id)
        PROVE  Later(status[n], status'[n], n)
    <2> DEFINE t == Synced(status[id])
               s == Synced(t)
               new == [phase |-> IF RouteVerdict(s.cb, s.phase) /\ s.phase = "Pending"
                                 THEN "Running" ELSE s.phase,
                       ready |-> s.ready,
                       cb |-> IF RouteVerdict(s.cb, s.phase) THEN RecordRouteAttempt(s.cb)
                              ELSE s.cb]
    <2>1. status' = [status EXCEPT ![id] = new]
      BY <1>6, Zenon DEF Reconcile
    <2>2. StatusOK(status[id], id)
      BY DEF TypeInv, StatusesOK
    <2>3. StatusOK(t, id) /\ t.phase = status[id].phase /\ t.ready = status[id].ready
          /\ (Calm(status[id]) => Calm(t))
      BY <2>2, SyncedOK, SyncLater
    <2> HIDE DEF t
    <2>4. s.phase = t.phase /\ s.ready = t.ready /\ (Calm(t) => Calm(s))
      BY <2>3, SyncLater
    <2> HIDE DEF s
    <2>5. Calm(s) => RecordRouteAttempt(s.cb) = s.cb
      BY DEF Calm, RecordRouteAttempt
    <2>6. new.phase = s.phase \/ (s.phase = "Pending" /\ new.phase = "Running")
      OBVIOUS
    <2>7. new.ready = s.ready /\ (Calm(s) => new.cb = s.cb)
      BY <2>5
    <2> HIDE DEF new
    <2>8. Later(status[id], new, id)
      BY <2>3, <2>4, <2>6, <2>7 DEF Later, isReady, Calm
    <2>9. CASE n = id
      <3>1. status'[n] = new
        BY <1>1, <2>1, <2>9
      <3> QED BY <2>8, <2>9, <3>1
    <2>10. CASE n # id
      BY <1>1, <1>2, <2>1, <2>10
    <2> QED BY <2>9, <2>10
  <1>7. ASSUME NEW id \in Ids, ReplicaReady(id) \/ Recover(id)
        PROVE  Later(status[n], status'[n], n)
    <2>1. PICK p \in {"Running"}, r \in 0 .. Replicas[id] : Report(id, [phase |-> p, ready |-> r])
      <3>1. StatusOK(status[id], id) /\ Replicas[id] \in Nat
        BY <1>7, DependenciesAssumption DEF TypeInv, StatusesOK
      <3>2. status[id].ready \in 0 .. Replicas[id]
        BY <3>1 DEF StatusOK
      <3>3. CASE ReplicaReady(id)
        <4>1. status[id].ready + 1 \in 0 .. Replicas[id]
          BY <3>1, <3>2, <3>3 DEF ReplicaReady
        <4> QED BY <3>3, <4>1 DEF ReplicaReady
      <3>4. CASE Recover(id)
        <4>1. Replicas[id] \in 0 .. Replicas[id]
          BY <3>1
        <4> QED BY <3>4, <4>1 DEF Recover
      <3> QED BY <1>7, <3>3, <3>4
    <2>2. /\ status' = [status EXCEPT ![id].phase = "Running", ![id].ready = r]
      BY <2>1 DEF Report
    <2>3. CASE n # id
      BY <1>1, <1>2, <2>2, <2>3
    <2>4. CASE n = id
      <3> DEFINE s == status[n]
      <3>1. s \in [phase : Phases \cup {"none"}, ready : 0 .. Replicas[n], cb : CircuitStatus]
        BY <1>1 DEF StatusOK
      <3>2. status'[n] = [[s EXCEPT !.phase = "Running"] EXCEPT !.ready = r]
        BY <1>1, <2>2, <2>4
      <3> HIDE DEF s
      <3>3. status'[n].phase = "Running" /\ status'[n].cb = s.cb
        BY <3>1, <3>2
      <3>4. s.phase # "none" /\ ~isReady(s, n)
        <4>1. CASE ReplicaReady(n)
          <5>1. s.ready < Replicas[n] /\ s.phase = "Running" /\ s.ready \in Int /\ Replicas[n] \in Int
            BY <3>1, <4>1, DependenciesAssumption DEF ReplicaReady, s
          <5> QED BY <5>1 DEF isReady
        <4>2. CASE Recover(n)
          BY <4>2 DEF Recover, isReady, s
        <4> QED BY <1>7, <2>4, <4>1, <4>2
      <3>5. Later(s, status'[n], n)
        BY <3>3, <3>4 DEF Later, Calm
      <3> QED BY <3>5 DEF s
    <2> QED BY <2>3, <2>4
  <1> QED BY <1>3, <1>4, <1>5, <1>6, <1>7 DEF Client

(* Then who is there stays there, and who is up stays up.                  *)
LEMMA LaterKeeps ==
    ASSUME \A id \in Ids : Later(status[id], status'[id], id), UNCHANGED <<listed, deps>>
    PROVE  /\ Present' = Present
           /\ Reachable' = Reachable
           /\ AllUp => AllUp'
           /\ (\A id \in Ids : Calm(status[id])) => \A id \in Ids : Calm(status'[id])
  <1>1. Present' = Present
    BY DEF Present, Later
  <1>2. Reachable' = Reachable
    BY <1>1 DEF Reachable
  <1>3. AllUp => AllUp'
    <2> SUFFICES ASSUME AllUp, NEW id \in Present' PROVE isReady(status'[id], id)
      BY DEF AllUp, isReady
    <2>1. id \in Ids /\ isReady(status[id], id)
      BY <1>1 DEF AllUp, Present
    <2> QED BY <2>1 DEF Later
  <1>4. ASSUME \A id \in Ids : Calm(status[id]), NEW id \in Ids
        PROVE  Calm(status'[id])
    BY <1>4 DEF Later
  <1> QED BY <1>1, <1>2, <1>3, <1>4

(* A workload that the client starts is there, and calm.                   *)
LEMMA StartedStatus ==
    ASSUME OrderInv, ClientInv, TypeInv, Start
    PROVE  /\ Current \in Ids
           /\ Present' = Present \cup {Current}
           /\ (\A id \in Ids : Calm(status[id])) => \A id \in Ids : Calm(status'[id])
  <1>1. Deploying /\ status' = [status EXCEPT ![Current] = Fresh]
    BY DEF Start
  <1>2. Current \in Ids /\ DOMAIN status = Ids
    BY <1>1, CurrentListed DEF TypeInv, StatusesOK
  <1>3. \A id \in Ids : status'[id] = IF id = Current THEN Fresh ELSE status[id]
    BY <1>1, <1>2
  <1>4. Fresh.phase = "Pending" /\ Calm(Fresh)
    BY DEF Fresh, Calm, NoCircuit
  <1>5. \A id \in Ids : status'[id].phase # "none" <=> id = Current \/ status[id].phase # "none"
    BY <1>3, <1>4
  <1>6. Present' = Present \cup {Current}
    BY <1>2, <1>5 DEF Present
  <1> QED BY <1>2, <1>3, <1>4, <1>6

(* A failure takes nobody away.                                            *)
LEMMA FailedStatus ==
    ASSUME TypeInv, NEW id \in Ids, Fail(id)
    PROVE  Present' = Present
  <1>1. DOMAIN status = Ids /\ StatusOK(status[id], id)
    BY DEF TypeInv, StatusesOK
  <1>2. /\ status[id].phase = "Running"
        /\ status' = [status EXCEPT ![id].phase = "Failed", ![id].ready = 0]
    BY DEF Fail, Report
  <1>3. status[id] \in [phase : Phases \cup {"none"}, ready : 0 .. Replicas[id], cb : CircuitStatus]
    BY <1>1 DEF StatusOK
  <1>4. status'[id] = [[status[id] EXCEPT !.phase = "Failed"] EXCEPT !.ready = 0]
    BY <1>1, <1>2
  <1>5. status'[id].phase = "Failed"
    BY <1>3, <1>4
  <1>6. \A n \in Ids : n # id => status'[n] = status[n]
    BY <1>1, <1>2
  <1>7. \A n \in Ids : status'[n].phase # "none" <=> status[n].phase # "none"
    BY <1>2, <1>5, <1>6
  <1> QED BY <1>7 DEF Present

LEMMA StartedStep ==
    ASSUME OrderInv, ClientInv, TypeInv, StartedOK, Next
    PROVE  StartedOK'
  <1> USE DEF Next
  <1>1. at \in Nat /\ (stage # "ordered" => at = 0)
    BY DEF TypeInv, WaitOK, ClientInv
  <1>2. CASE Start
    <2> DEFINE p == Min(Ahead)
    <2>1. Deploying /\ at' = p /\ UNCHANGED <<listed, result>>
      BY <1>2 DEF Start, orderVars, given, sortVars
    <2>2. Present' = Present \cup {Current}
      BY <1>2, StartedStatus
    <2>3. DOMAIN result = 1 .. Len(result) /\ Len(result) \in Nat
      BY DEF OrderInv, SortOK
    <2>4. Ahead \in SUBSET Nat /\ Ahead # {}
      BY <2>1, <2>3 DEF Ahead, DeploymentOrder, Deploying
    <2>5. p \in Ahead /\ \A q \in Ahead : p <= q
      BY <2>4, MinOfSet
    <2>6. p \in 1 .. Len(result) /\ result[p] = Current
      BY <2>3, <2>5 DEF Ahead, DeploymentOrder, Current
    <2> HIDE DEF p
    <2>7. ASSUME NEW i \in 1 .. p, result[i] \in listed
          PROVE  result[i] \in Present \cup {Current}
      <3>1. CASE i = p
        BY <2>6, <3>1
      <3>2. CASE i # p
        <4>1. i \in 1 .. Len(result) /\ ~(p <= i) /\ i \in Nat
          BY <2>3, <2>6, <3>2
        <4>2. ~(i > at)
          BY <2>3, <2>5, <2>7, <4>1 DEF Ahead, DeploymentOrder
        <4>3. i \in 1 .. at
          BY <1>1, <4>1, <4>2
        <4> QED BY <2>7, <4>3 DEF StartedOK
      <3> QED BY <3>1, <3>2
    <2> QED BY <2>1, <2>2, <2>7 DEF StartedOK
  <1>3. CASE Resolve
    <2>1. at' = at /\ stage # "ordered"
      BY <1>3 DEF Resolve, waitVars, OrderNext, ResolveDeploymentOrder, SortStep, SortEnds,
                  DetectCycles, SearchFrom, SearchEdge, SearchReturn
    <2>2. \A i \in 1 .. at' : FALSE
      BY <1>1, <2>1
    <2> QED BY <2>2 DEF StartedOK
  <1>4. CASE ~Start /\ ~Resolve
    <2>1. UNCHANGED <<listed, deps, result, at>>
      BY <1>4 DEF Client, CheckDependency, WaitTimesOut, Tick, Reconcile, ReplicaReady, Fail,
                  Recover, Report, waitVars, orderVars, given, sortVars
    <2>2. Present' = Present
      <3>1. CASE \E id \in Ids : Fail(id)
        BY <3>1, FailedStatus
      <3>2. CASE \A id \in Ids : ~Fail(id)
        BY <1>4, <2>1, <3>2, StatusesLater, LaterKeeps
      <3> QED BY <3>1, <3>2
    <2> QED BY <2>1, <2>2 DEF StartedOK
  <1> QED BY <1>2, <1>3, <1>4

(* A check passes when all is up.                                          *)
LEMMA CheckPasses ==
    ASSUME Timely, OrderInv, ClientInv, TypeInv, PlacedOK, StartedOK, Reachable, AllUp,
           \A id \in Ids : Calm(status[id]), CheckDependency
    PROVE  check' = check + 1
  <1> DEFINE id == deps[Current][check]
             s == status[id]
             t == Synced(s)
  <1>1. /\ Deploying /\ check \in DOMAIN deps[Current]
        /\ check' = IF checkDependency(t, id) THEN check + 1 ELSE 0
    BY DEF CheckDependency, Waiting
  <1>2. id \in Present /\ id \in Ids
    BY <1>1, DependenciesPresent DEF Present
  <1> HIDE DEF id, t
  <1>3. isReady(s, id) /\ s.phase # "none" /\ Calm(s) /\ StatusOK(s, id)
    BY <1>2 DEF AllUp, Present, TypeInv, StatusesOK
  <1> HIDE DEF s
  <1>4. t.phase = s.phase /\ t.ready = s.ready /\ RouteVerdict(t.cb, s.phase)
    BY <1>2, <1>3, SyncLater DEF t
  <1>5. ConditionMet(t, id)
    <2>1. t.phase = "Running" /\ t.ready = Replicas[id]
      BY <1>3, <1>4 DEF isReady
    <2>2. Condition[id] = "healthy" => isHealthy(t)
      BY <1>2, <2>1 DEF Timely, isHealthy
    <2> QED BY <2>1, <2>2 DEF ConditionMet, isReady
  <1>6. checkDependency(t, id)
    BY <1>3, <1>4, <1>5 DEF checkDependency
  <1> QED BY <1>1, <1>6

LEMMA PatienceStep ==
    ASSUME Timely, OrderInv, ClientInv, TypeInv, WaitInv, Next
    PROVE  PatienceOK'
  <1> USE DEF Next
  <1>1. /\ elapsed \in Nat /\ slow \in Nat /\ slow <= MaxSlow /\ failures \in Nat /\ check \in Nat
        /\ MaxSlow \in Nat /\ DefaultTimeout \in Nat /\ MaxSlow + 1 < DefaultTimeout
    BY DependenciesAssumption DEF TypeInv, WaitOK, BoundsOK, ClientInv, Timely
  <1>2. /\ failures = 0 => \A id \in Ids : Calm(status[id])
        /\ failures = 0 /\ Reachable => ~timedOut /\ (elapsed <= slow \/ (check > 0 /\ AllUp))
        /\ PlacedOK /\ StartedOK
    BY DEF WaitInv, PatienceOK
  <1>3. CASE \E id \in Ids : Fail(id)
    <2>1. failures' # 0
      BY <1>1, <1>3 DEF Fail
    <2> QED BY <2>1 DEF PatienceOK
  <1>4. CASE Start
    <2>1. /\ ~timedOut /\ timedOut' = timedOut /\ elapsed' = 0 /\ slow' = slow
          /\ failures' = failures
      BY <1>4 DEF Start, Deploying, bounds
    <2>2. failures' = 0 => \A id \in Ids : Calm(status'[id])
      BY <1>2, <1>4, <2>1, StartedStatus
    <2>3. elapsed' <= slow'
      BY <1>1, <2>1
    <2> QED BY <2>1, <2>2, <2>3 DEF PatienceOK
  <1>5. CASE ~Start /\ \A id \in Ids : ~Fail(id)
    <2>1. failures' = failures /\ UNCHANGED <<listed, deps>>
      BY <1>5 DEF Client, Resolve, OrderNext, ResolveDeploymentOrder, SortStep, SortEnds,
                  DetectCycles, SearchFrom, SearchEdge, SearchReturn, CheckDependency,
                  WaitTimesOut, Tick, Reconcile, ReplicaReady, Recover, Report, bounds,
                  orderVars, given
    <2>2. /\ Reachable' = Reachable /\ (AllUp => AllUp')
          /\ (\A id \in Ids : Calm(status[id])) => \A id \in Ids : Calm(status'[id])
      BY <1>5, <2>1, StatusesLater, LaterKeeps
    <2> SUFFICES ASSUME failures = 0, Reachable
                 PROVE  ~timedOut' /\ (elapsed' <= slow' \/ (check' > 0 /\ AllUp'))
      BY <1>2, <2>1, <2>2 DEF PatienceOK
    <2>3. ~timedOut /\ (elapsed <= slow \/ (check > 0 /\ AllUp)) /\ \A id \in Ids : Calm(status[id])
      BY <1>2
    <2>4. CASE CheckDependency
      <3>1. timedOut' = timedOut /\ elapsed' = elapsed /\ slow' = slow
        BY <2>4 DEF CheckDependency, bounds
      <3>2. AllUp => check' = check + 1
        BY <1>2, <2>3, <2>4, CheckPasses
      <3>3. check + 1 > 0
        BY <1>1
      <3> QED BY <2>2, <2>3, <3>1, <3>2, <3>3
    <2>5. CASE WaitTimesOut
      <3>1. Deploying /\ check = 0 /\ elapsed = MaxTimeout(Current)
        BY <2>5 DEF WaitTimesOut, Waiting
      <3>2. MaxTimeout(Current) \in Nat /\ DefaultTimeout <= MaxTimeout(Current)
        BY <3>1, WaitsDefault
      <3>3. elapsed <= slow
        BY <2>3, <3>1
      <3> QED BY <1>1, <3>1, <3>2, <3>3
    <2>6. CASE Tick
      <3>1. /\ Deploying /\ check = 0 /\ timedOut' = timedOut /\ elapsed' = elapsed + 1
            /\ check' \in IF elapsed' = MaxTimeout(Current) THEN {0, 1} ELSE {1}
            /\ slow' = IF AllUp \/ failures > 0 THEN slow ELSE slow + 1
        BY <2>6 DEF Tick, Waiting
      <3>2. MaxTimeout(Current) \in Nat /\ DefaultTimeout <= MaxTimeout(Current)
        BY <3>1, WaitsDefault
      <3>3. elapsed <= slow
        BY <2>3, <3>1
      <3>4. CASE AllUp
        <4>1. elapsed' # MaxTimeout(Current)
          BY <1>1, <3>1, <3>2, <3>3
        <4>2. check' = 1
          BY <3>1, <4>1
        <4>3. check' > 0
          BY <4>2
        <4> QED BY <2>2, <2>3, <3>1, <3>4, <4>3, Zenon
      <3>5. CASE ~AllUp
        <4>1. slow' = slow + 1
          BY <1>1, <3>1, <3>5
        <4>2. elapsed' <= slow'
          BY <1>1, <3>1, <3>3, <4>1
        <4> QED BY <2>3, <3>1, <4>2, Zenon
      <3> QED BY <3>4, <3>5
    <2>7. CASE ~CheckDependency /\ ~WaitTimesOut /\ ~Tick
      <3>1. UNCHANGED <<timedOut, elapsed, slow, check>>
        BY <1>5, <2>7 DEF Client, Resolve, Reconcile, ReplicaReady, Recover, Report, bounds, waitVars
      <3> QED BY <2>2, <2>3, <3>1
    <2> QED BY <2>4, <2>5, <2>6, <2>7
  <1> QED BY <1>3, <1>4, <1>5

LEMMA WaitInit ==
    ASSUME Init
    PROVE  WaitInv
  <1>1. StartedOK
    <2>1. \A i \in 1 .. at : FALSE
      BY DEF Init
    <2> QED BY <2>1 DEF StartedOK
  <1>2. PatienceOK
    <2>1. PICK before \in SUBSET (Nodes \ listed) :
             status = [id \in Ids |-> IF id \in before THEN Up(id) ELSE Absent]
      BY DEF Init
    <2>2. \A id \in Ids : status[id] \in {Up(id), Absent}
      BY <2>1
    <2>3. \A id \in Ids : Calm(Up(id)) /\ Calm(Absent)
      BY DEF Calm, Up, Absent, NoCircuit
    <2>4. \A id \in Ids : Calm(status[id])
      BY <2>2, <2>3
    <2>5. ~timedOut /\ elapsed <= slow
      BY DEF Init
    <2> QED BY <2>4, <2>5 DEF PatienceOK
  <1> QED BY <1>1, <1>2, PlacedInit DEF WaitInv

LEMMA WaitNext ==
    ASSUME Timely, OrderInv, ClientInv, TypeInv, WaitInv, [Next]_vars
    PROVE  WaitInv'
  <1>1. CASE Next
    BY <1>1, PlacedStep, StartedStep, PatienceStep DEF WaitInv
  <1>2. CASE UNCHANGED vars
    <2>1. UNCHANGED <<listed, deps, graph, result, status, at, elapsed, check, timedOut, slow,
                      failures>>
      BY <1>2 DEF vars, orderVars, given, sortVars, waitVars, bounds
    <2>2. StartedOK'
      BY <2>1 DEF WaitInv, StartedOK, Present
    <2>3. Reachable' = Reachable /\ AllUp' = AllUp
      BY <2>1 DEF Reachable, AllUp, Present, isReady
    <2>4. PatienceOK'
      BY <2>1, <2>3 DEF WaitInv, PatienceOK, Calm
    <2> QED BY <1>2, <2>2, <2>4, PlacedStep DEF WaitInv
  <1> QED BY <1>1, <1>2

(* WaitDependencies with the order of ResolveDeploymentOrder: without      *)
(* failures and missing dependencies no wait ever times out, for every     *)
(* graph without a cycle, all conditions, timeouts, replica counts and     *)
(* circuit configurations, however the ticks, checks, passes and replica   *)
(* reports interleave.                                                     *)
THEOREM NobodyWaitsInVain == Timely => (Spec => []OrderSuffices)
  <1> SUFFICES ASSUME Timely PROVE Spec => []OrderSuffices
    OBVIOUS
  <1>1. Init => TypeInv
    BY TypeInit
  <1>2. OrderInv /\ ClientInv /\ TypeInv /\ [Next]_vars => TypeInv'
    BY TypeNext
  <1>3. Init => WaitInv
    BY WaitInit
  <1>4. OrderInv /\ ClientInv /\ TypeInv /\ WaitInv /\ [Next]_vars => WaitInv'
    BY WaitNext
  <1>5. TypeInv /\ WaitInv => OrderSuffices
    <2> SUFFICES ASSUME TypeInv, WaitInv PROVE OrderSuffices
      OBVIOUS
    <2>1. failures \in Nat
      BY DependenciesAssumption DEF TypeInv, BoundsOK
    <2>2. failures = 0 \/ failures > 0
      BY <2>1
    <2> QED BY <2>2 DEF WaitInv, PatienceOK, OrderSuffices
  <1> QED BY <1>1, <1>2, <1>3, <1>4, <1>5, ClientInvariant, PTL DEF Spec
================================================================================
