------------------------------ MODULE Placement ------------------------------
(***************************************************************************)
(* Cost-aware placement (internal/scheduler/scheduler.go) as operators on  *)
(* a scheduling record, types.SchedulingConfig.  Node registry and cost    *)
(* provider are interfaces; Nodes is what they answer, in the order of the *)
(* registry.  Costs are integers (the code compares floats), UnknownCost   *)
(* when the provider fails.  MaxCostPerHour is NoLimit when it is empty,   *)
(* or when parseCost cannot read it, which is only logged.                 *)
(***************************************************************************)
EXTENDS Integers, Sequences

CONSTANT
    Nodes   \* NodeRegistry.ListNodes, with GetNodeCost of each node

Hostname == "kubernetes.io/hostname"
ArchLabel == "kubernetes.io/arch"
NoLimit == -1
UnknownCost == -1
AnyNode == "any"

NodeIDs == {Nodes[i].id : i \in DOMAIN Nodes}

(* Labels and selectors map keys to values.  "" is an unset string.        *)
IsMap(f) == f \in [DOMAIN f -> STRING]

IsNode(n) ==
    /\ {n.id, n.region, n.zone, n.arch} \subseteq STRING
    /\ IsMap(n.labels)
    /\ n.draining \in BOOLEAN
    /\ n.cost \in Int

SchedulingType(keys, values) ==
    [costAware : BOOLEAN, regions : SUBSET STRING, zones : SUBSET STRING,
     selectors : UNION {[ks -> values] : ks \in SUBSET keys},
     avoidDraining : BOOLEAN, arch : STRING, maxCost : Int]

(* The provider is asked for the cost of an ID.  AnyNode is no node.       *)
ASSUME PlacementAssumption ==
    /\ \A i \in DOMAIN Nodes : IsNode(Nodes[i]) /\ Nodes[i].id # AnyNode
    /\ \A i, j \in DOMAIN Nodes : Nodes[i].id = Nodes[j].id => Nodes[i].cost = Nodes[j].cost

normalizeArch(arch) ==
    CASE arch \in {"x86_64", "x64"} -> "amd64"
      [] arch = "aarch64"           -> "arm64"
      [] OTHER                      -> arch

(* An empty list or map of preferences accepts every node.                 *)
matchesNodeSelectors(node, selectors) ==
    \A k \in DOMAIN selectors : k \in DOMAIN node.labels /\ node.labels[k] = selectors[k]

MatchesArch(node, arch) ==
    arch # "" =>
       /\ node.arch \in {"", normalizeArch(arch)}
       /\ ArchLabel \in DOMAIN node.labels =>
             node.labels[ArchLabel] \in {"", normalizeArch(arch)}

Preferred(node, sched) ==
    /\ sched.regions # {} => node.region \in sched.regions
    /\ sched.zones # {} => node.zone \in sched.zones
    /\ matchesNodeSelectors(node, sched.selectors)
    /\ ~(sched.avoidDraining /\ node.draining)
    /\ MatchesArch(node, sched.arch)

(* The candidates, by their positions in the registry.  When no node       *)
(* matches, all of them are.                                               *)
filterNodes(sched) == {i \in DOMAIN Nodes : Preferred(Nodes[i], sched)}

CandidateNodes(sched) ==
    IF filterNodes(sched) = {} THEN DOMAIN Nodes ELSE filterNodes(sched)

Affordable(node, sched) ==
    /\ node.cost # UnknownCost
    /\ sched.maxCost # NoLimit => node.cost <= sched.maxCost

(* Mutant of cheapest: the limit is not looked at.                         *)
cheapestAnyCost(nodes, sched) ==
    LET ok == {i \in nodes : Nodes[i].cost # UnknownCost}
    IN {i \in ok : \A j \in ok : Nodes[i].cost < Nodes[j].cost
                                 \/ (Nodes[i].cost = Nodes[j].cost /\ i <= j)}

(* selectCheapestNode's choice: the first of the cheapest affordable       *)
(* candidates, none when there is no affordable one.                       *)
cheapest(nodes, sched) ==
    LET ok == {i \in nodes : Affordable(Nodes[i], sched)}
    IN {i \in ok : \A j \in ok : Nodes[i].cost < Nodes[j].cost
                                 \/ (Nodes[i].cost = Nodes[j].cost /\ i <= j)}

selectCheapestNode(sched) == {Nodes[i] : i \in cheapest(CandidateNodes(sched), sched)}

(* applyCostAwareScheduling writes the choice into NodeSelectors.          *)
Pinned(sched, node) ==
    [sched EXCEPT !.selectors =
        [k \in {Hostname} \cup DOMAIN @ |-> IF k = Hostname THEN node.id ELSE @[k]]]
==============================================================================
