------------------------------ MODULE Admission ------------------------------
(***************************************************************************)
(* What reconcileOne asks about a spec before it acts on the workload:     *)
(* policy.Validate, the hard quota of resourcequota.Enforce, and the rank  *)
(* that orders the workloads of a pass.                                    *)
(*                                                                         *)
(* Every workload comes from deployOne, which puts it into the namespace   *)
(* "default" and gives it neither tags, labels nor a tenant.  So namespace *)
(* isolation never rejects, a required tag always does, and the one quota  *)
(* that Enforce can find is the one of "default".  Text is compared after  *)
(* TrimSpace and ToLower, as the code does everywhere here.                *)
(***************************************************************************)
EXTENDS Integers, FiniteSetsExt

CONSTANTS
    Specs,        \* what a client may submit as a spec
    Text,         \* the fields of a spec that admission reads
    RequiredTags  \* policy.Config: the tags required at admission

(* cron is the outcome of cronsched.Validate; limits are the four of the   *)
(* circuit breaker; cpu, memory and custom tell which targets of scaling   *)
(* are set.                                                                *)
SpecText ==
    [replicas : Int,
     priority : STRING,
     priorityClass : BOOLEAN,
     cron : {"none", "valid", "invalid"},
     breaker : [enabled : BOOLEAN, limits : SUBSET Int],
     standby : [enabled : BOOLEAN, replicas : Int],
     scaling : [enabled : BOOLEAN, min : Int, max : Int,
                cpu : BOOLEAN, memory : BOOLEAN, custom : BOOLEAN],
     secrets : [enabled : BOOLEAN, refs : SUBSET STRING]]

(* Hard limits of the namespace, 0 for none; replicas stand for everything *)
(* else that is added up.                                                  *)
Quota == [workloads : Nat, replicas : Nat]
NoQuota == [workloads |-> 0, replicas |-> 0]

ASSUME AdmissionAssumption ==
    /\ Text \in [Specs -> SpecText]
    /\ RequiredTags \subseteq {"team", "environment", "cost_center"}

AllowedPriorities == {"critical", "high", "normal", "low", ""}

(***************************************************************************)
(* policy.Validate.  The default limits it fills in are read by drivers    *)
(* only, and it reads no field that it writes, so asking again gives the   *)
(* same answer.                                                            *)
(***************************************************************************)
Validate(spec) ==
    LET t == Text[spec] IN
    /\ t.priority \in AllowedPriorities
    /\ t.cron # "invalid"
    /\ t.breaker.enabled => \A n \in t.breaker.limits : n >= 0
    /\ t.standby.enabled => t.standby.replicas >= 0
    /\ t.secrets.enabled => t.secrets.refs # {} /\ "" \notin t.secrets.refs
    /\ RequiredTags = {}

(* quotaaggregate.SumRequests, of a function from workloads to replicas.   *)
SumRequests(peers) == MapThenSumSet(LAMBDA i : peers[i], DOMAIN peers)

(* Mutant of Enforce: the limits are applied to each workload alone.       *)
EnforceAlone(lim, replicas, peers) ==
    /\ lim.workloads > 0 => 1 <= lim.workloads
    /\ lim.replicas > 0 => replicas <= lim.replicas

(* resourcequota.Enforce of a workload beside the other stored workloads,  *)
(* running or not.                                                         *)
Enforce(lim, replicas, peers) ==
    /\ lim.workloads > 0 => Cardinality(DOMAIN peers) + 1 <= lim.workloads
    /\ lim.replicas > 0 => SumRequests(peers) + replicas <= lim.replicas

PriorityRank(priority) ==
    CASE priority \in {"critical", "crit"} -> 1000
      [] priority = "high" -> 750
      [] priority = "low" -> 250
      [] OTHER -> 500

WorkloadSchedulingRank(spec) ==
    LET rank == PriorityRank(Text[spec].priority)
    IN IF Text[spec].priorityClass /\ rank < 750 THEN 750 ELSE rank
==============================================================================
