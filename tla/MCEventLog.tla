------------------------------ MODULE MCEventLog ------------------------------
(* Instances of EventLog with a channel and an age that overflow; no       *)
(* definition tells one spec from another.                                 *)
EXTENDS EventLog

SpecSymmetry == Permutations(WorkloadSpecs)
===============================================================================
