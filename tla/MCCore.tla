-------------------------------- MODULE MCCore --------------------------------
(* Instances of Core: specs of one and of two replicas that the autoscaler *)
(* moves between one and two, and a large one that policy rejects, which   *)
(* comes first in a pass and asks for neither rotation nor scaling.        *)
EXTENDS Core, TLC

CONSTANTS ok, big, bad

Plain ==
    [replicas |-> 1, priority |-> "", priorityClass |-> FALSE, cron |-> "none",
     breaker |-> [enabled |-> FALSE, limits |-> {}],
     standby |-> [enabled |-> FALSE, replicas |-> 0],
     scaling |-> [enabled |-> TRUE, min |-> 1, max |-> 2,
                  cpu |-> TRUE, memory |-> TRUE, custom |-> FALSE],
     secrets |-> [enabled |-> TRUE, refs |-> {"db"}]]

Texts ==
    [s \in Specs |->
       CASE s = big -> [Plain EXCEPT !.replicas = 2, !.priority = "high"]
         [] s = bad -> [Plain EXCEPT !.replicas = 2, !.priority = "crit",
                                     !.secrets.enabled = FALSE, !.scaling.enabled = FALSE]
         [] OTHER -> Plain]

OneReplica == [workloads |-> 2, replicas |-> 1]
TwoReplicas == [workloads |-> 2, replicas |-> 2]
PutQuotas == {TwoReplicas}

(* The instances are ones that RunningWithinQuota is about.                *)
ASSUME InstanceNonNegative == NonNegative
==============================================================================
