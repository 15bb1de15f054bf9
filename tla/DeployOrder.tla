----------------------------- MODULE DeployOrder -----------------------------
(***************************************************************************)
(* What ResolveDeploymentOrder of internal/dependency/resolver.go promises *)
(* ("the correct deployment order for workloads based on dependencies"),   *)
(* whatever algorithm finds it: the order grows by workloads that need     *)
(* nothing outside of it, and ends either complete or with the verdict     *)
(* that the dependencies are circular.  Module DependencyOrder is the      *)
(* algorithm of the code.                                                  *)
(***************************************************************************)
EXTENDS Sequences

VARIABLES
    needs,  \* the IDs that each ID of the graph depends on
    order,  \* the order so far
    verdict \* "none" while it grows, then "ordered" or "circular"

vars == <<needs, order, verdict>>

Placed == {order[i] : i \in DOMAIN order}

(* A set of IDs none of which can be the first of them to be deployed.     *)
Circular ==
    \E S \in SUBSET DOMAIN needs : S # {} /\ \A n \in S : needs[n] \cap S # {}

Init ==
    /\ needs \in [DOMAIN needs -> SUBSET DOMAIN needs]
    /\ order = <<>>
    /\ verdict = "none"

Place(n) ==
    /\ verdict = "none"
    /\ n \notin Placed
    /\ needs[n] \subseteq Placed
    /\ order' = Append(order, n)
    /\ UNCHANGED <<needs, verdict>>

Complete ==
    /\ verdict = "none"
    /\ Placed = DOMAIN needs
    /\ verdict' = "ordered"
    /\ UNCHANGED <<needs, order>>

Refuse ==
    /\ verdict = "none"
    /\ Circular
    /\ verdict' = "circular"
    /\ UNCHANGED <<needs, order>>

Next ==
    \/ \E n \in DOMAIN needs : Place(n)
    \/ Complete
    \/ Refuse

Spec == Init /\ [][Next]_vars
==============================================================================
