------------------------------ MODULE MCRollout ------------------------------
(* Instances of Rollout: the nodes of DefaultNodeRegistry at different     *)
(* costs, and a fourth whose cost is not known; one submission per kind of *)
(* strategy, gate and preference, and one of numbers that make no sense.   *)
EXTENDS Rollout, TLC

Node(id, region, zone, arch, draining, cost) ==
    [id |-> id, region |-> region, zone |-> zone, arch |-> arch,
     labels |-> (ArchLabel :> arch), draining |-> draining, cost |-> cost]

Registry ==
    <<Node("node-amd64-1", "us-east-1", "us-east-1a", "amd64", FALSE, 10),
      Node("node-arm64-1", "us-east-1", "us-east-1b", "arm64", FALSE, 20),
      Node("node-amd64-2", "us-west-2", "us-west-2a", "amd64", TRUE, 30),
      Node("node-arm64-2", "us-west-2", "us-west-2b", "arm64", FALSE, UnknownCost)>>

Anywhere == [costAware |-> FALSE, regions |-> {}, zones |-> {}, selectors |-> <<>>,
             avoidDraining |-> FALSE, arch |-> "", maxCost |-> NoLimit]
Arm == [Anywhere EXCEPT !.costAware = TRUE, !.arch = "aarch64", !.maxCost = 20]
ArmCheap == [Arm EXCEPT !.maxCost = 15]
West == [Anywhere EXCEPT !.costAware = TRUE, !.regions = {"us-west-2"}, !.avoidDraining = TRUE]
Ssd == [Anywhere EXCEPT !.costAware = TRUE, !.selectors = ("disk" :> "ssd"), !.maxCost = 10]

NoGate == [on |-> FALSE, mode |-> "block", timeout |-> "unset", checks |-> <<>>]
Gate(mode, timeout) ==
    [on |-> TRUE, mode |-> mode, timeout |-> timeout, checks |-> <<"http", "tcp">>]

Base == [type |-> "rolling", config |-> TRUE, image |-> "v1", replicas |-> 4, count |-> 2,
         share |-> 0, auto |-> FALSE, a |-> "v2", b |-> "v3", gate |-> NoGate, sched |-> Anywhere]

AllSubmissions ==
    {[Base EXCEPT !.gate = Gate("block", "valid")],
     [Base EXCEPT !.type = "recreate", !.image = "v2", !.gate = Gate("block", "invalid")],
     [Base EXCEPT !.type = "canary", !.share = 50, !.auto = TRUE, !.sched = Arm],
     [Base EXCEPT !.type = "canary", !.image = "v2", !.gate = Gate("warn", "unset"), !.sched = ArmCheap],
     [Base EXCEPT !.type = "canary", !.config = FALSE],
     [Base EXCEPT !.type = "abtest", !.share = 20, !.auto = TRUE, !.sched = Ssd],
     [Base EXCEPT !.type = "abtest", !.share = 50, !.gate = Gate("block", "unset"), !.sched = West],
     [Base EXCEPT !.type = "abtest", !.replicas = -3, !.share = 150, !.auto = TRUE]}

ArmOnly == {[Base EXCEPT !.sched = Arm]}
==============================================================================
