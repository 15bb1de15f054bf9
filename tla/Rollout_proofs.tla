---------------------------- MODULE Rollout_proofs ----------------------------
(***************************************************************************)
(* Proofs about Rollout, for every set of submitted specs, every registry  *)
(* of nodes and both store kinds.                                          *)
(***************************************************************************)
EXTENDS Rollout, TLAPS

(***************************************************************************)
(* The inductive invariant.  What an attempt works on differs from what    *)
(* the client submitted in the image of an A/B test and in the node        *)
(* selectors only, so its plan is the plan of the submitted spec; the      *)
(* calls of the plan already made are deployed, and no later call touches  *)
(* the part of an earlier one.                                             *)
(***************************************************************************)
Kept(w) ==
    /\ w \in SpecType
    /\ w.type = asked.type /\ w.config = asked.config /\ w.auto = asked.auto
    /\ w.replicas = asked.replicas /\ w.count = asked.count /\ w.share = asked.share
    /\ w.a = asked.a /\ w.b = asked.b /\ w.gate = asked.gate
    /\ w.image \in {asked.image, asked.a}
    /\ asked.type # "abtest" => w.image = asked.image
    /\ w.sched.costAware = asked.sched.costAware
    /\ w.sched.maxCost = asked.sched.maxCost

Deployed(call) ==
    /\ runtime[call.part] # NotDeployed
    /\ runtime[call.part].image = call.image
    /\ runtime[call.part].replicas = call.replicas

CountersOK ==
    /\ live \in BOOLEAN
    /\ cleared \in BOOLEAN
    /\ count \in 0 .. MaxDisturbances

StoreOK ==
    \/ phase = "none" /\ asked = NoSpec /\ stored = NoSpec
    \/ phase \in {"Pending", "Running"} /\ asked \in Submissions /\ Kept(stored)

AttemptOK ==
    \/ Idle
    \/ /\ phase = "Pending"
       /\ cleared
       /\ attempt = [next |-> attempt.next, w |-> attempt.w]
       /\ attempt.next \in 1 .. Len(Plan(asked)) + 1
       /\ Kept(attempt.w)
       /\ \A i \in 1 .. attempt.next - 1 : Deployed(Plan(asked)[i])

RuntimeOK == runtime \in [Parts -> Deployment \cup {NotDeployed}]

IInv ==
    /\ CountersOK
    /\ StoreOK
    /\ AttemptOK
    /\ RuntimeOK
    /\ RunningIsComplete
    /\ BlockedKeepsOld
    /\ PlacedWithinBudget

(***************************************************************************)
(* The operators.                                                          *)
(***************************************************************************)

(* A share of the replicas is a number, whatever the share.                *)
LEMMA PercentTyped ==
    ASSUME NEW n \in Int, NEW share \in Int
    PROVE  Percent(n, share) \in Int
  <1> DEFINE x == n * share
  <1>1. x \in Int /\ -x \in Int
    OBVIOUS
  <1>2. Percent(n, share) = IF x >= 0 THEN x \div 100 ELSE -((-x) \div 100)
    BY DEF Percent
  <1> HIDE DEF x
  <1>3. x \div 100 \in Int /\ -((-x) \div 100) \in Int
    BY <1>1
  <1> QED BY <1>2, <1>3

(* A list with one more element at its end.                                *)
LEMMA ListLonger ==
    ASSUME NEW S, NEW s \in Seq(S), NEW z \in S
    PROVE  LET t == s \o <<z>> IN
           /\ t \in Seq(S) /\ Len(t) = Len(s) + 1
           /\ t[Len(s) + 1] = z /\ \A i \in 1 .. Len(s) : t[i] = s[i]
  OBVIOUS

(* What a plan is: up to three calls for different parts, with images of   *)
(* the spec.                                                               *)
CallOf(w) == [part : Parts, image : {w.image, w.a, w.b}, replicas : Int]

LEMMA PlanShape ==
    ASSUME NEW w \in SpecType
    PROVE  /\ Plan(w) \in Seq(CallOf(w))
           /\ Len(Plan(w)) \in 1 .. 3
           /\ DOMAIN Plan(w) = 1 .. Len(Plan(w))
           /\ \A i, j \in 1 .. Len(Plan(w)) : Plan(w)[i].part = Plan(w)[j].part => i = j
  <1> DEFINE c == CanaryReplicas(w)
             b == VariantBReplicas(w)
             a == w.replicas - b
             canary == Call("canary", w.image, c)
             main == Call("main", w.image, w.replicas)
             va == Call("variant-a", w.a, a)
             vb == Call("variant-b", w.b, b)
             winner == Call("main", w.a, w.replicas)
  <1>1. w.replicas \in Int /\ w.count \in Int /\ w.share \in Int /\ w.auto \in BOOLEAN
    BY DEF SpecType
  <1>2. c \in Int
    BY <1>1, PercentTyped DEF CanaryReplicas
  <1>3. b \in Int
    BY <1>1, PercentTyped DEF VariantBReplicas
  <1> HIDE DEF b
  <1>4. a \in Int
    BY <1>1, <1>3
  <1> HIDE DEF c, a
  <1>5. /\ canary \in CallOf(w) /\ canary.part = "canary"
        /\ main \in CallOf(w) /\ main.part = "main"
        /\ va \in CallOf(w) /\ va.part = "variant-a"
        /\ vb \in CallOf(w) /\ vb.part = "variant-b"
        /\ winner \in CallOf(w) /\ winner.part = "main"
    BY <1>1, <1>2, <1>3, <1>4 DEF Call, CallOf, Parts
  <1>6. /\ w.type = "canary" => Plan(w) = <<canary>> \o IF w.auto THEN <<main>> ELSE <<>>
        /\ w.type = "abtest" => Plan(w) = <<va, vb>> \o IF w.auto THEN <<winner>> ELSE <<>>
        /\ w.type \notin {"canary", "abtest"} => Plan(w) = <<main>>
    BY Zenon DEF Plan, a, b, c
  <1> HIDE DEF canary, main, va, vb, winner
  <1>7. /\ <<canary>> \in Seq(CallOf(w)) /\ Len(<<canary>>) = 1 /\ <<canary>>[1] = canary
        /\ <<main>> \in Seq(CallOf(w)) /\ Len(<<main>>) = 1 /\ <<main>>[1] = main
        /\ <<va, vb>> \in Seq(CallOf(w)) /\ Len(<<va, vb>>) = 2
        /\ <<va, vb>>[1] = va /\ <<va, vb>>[2] = vb
    BY <1>5
  <1>8. CASE w.type = "canary" /\ w.auto
    <2>1. Plan(w) = <<canary>> \o <<main>>
      BY <1>6, <1>8
    <2>2. /\ Plan(w) \in Seq(CallOf(w)) /\ Len(Plan(w)) = 2
          /\ Plan(w)[1] = canary /\ Plan(w)[2] = main
      BY <1>5, <1>7, <2>1, ListLonger
    <2> QED BY <1>5, <2>2
  <1>9. CASE w.type = "canary" /\ ~w.auto
    <2>1. Plan(w) = <<canary>>
      BY <1>6, <1>7, <1>9
    <2> QED BY <1>7, <2>1
  <1>10. CASE w.type = "abtest" /\ w.auto
    <2>1. Plan(w) = <<va, vb>> \o <<winner>>
      BY <1>6, <1>10
    <2>2. /\ Plan(w) \in Seq(CallOf(w)) /\ Len(Plan(w)) = 3
          /\ Plan(w)[1] = va /\ Plan(w)[2] = vb /\ Plan(w)[3] = winner
      BY <1>5, <1>7, <2>1, ListLonger
    <2> QED BY <1>5, <2>2
  <1>11. CASE w.type = "abtest" /\ ~w.auto
    <2>1. Plan(w) = <<va, vb>>
      BY <1>6, <1>7, <1>11
    <2> QED BY <1>5, <1>7, <2>1
  <1>12. CASE w.type \notin {"canary", "abtest"}
    <2>1. Plan(w) = <<main>>
      BY <1>6, <1>12
    <2> QED BY <1>7, <2>1
  <1> QED BY <1>1, <1>8, <1>9, <1>10, <1>11, <1>12

(* An attempt goes by the plan of the spec as it was submitted.            *)
LEMMA SamePlan ==
    ASSUME NEW w, Kept(w)
    PROVE  Plan(w) = Plan(asked)
  BY DEF Kept, Plan, CanaryReplicas, VariantBReplicas

(* A submitted spec is kept as it is.                                      *)
LEMMA SubmittedKept ==
    ASSUME asked \in Submissions
    PROVE  asked \in SpecType /\ Kept(asked)
  BY RolloutAssumption DEF Kept

(* Setting the winner's image keeps a spec, ...                            *)
LEMMA CurrentKept ==
    ASSUME NEW w, Kept(w), NEW i
    PROVE  Kept(Current(w, i))
  <1>1. CASE Current(w, i) = w
    BY <1>1
  <1>2. CASE Current(w, i) = [w EXCEPT !.image = w.a] /\ w.type = "abtest"
    <2> DEFINE v == [w EXCEPT !.image = w.a]
    <2>1. w \in SpecType
      BY DEF Kept
    <2>2. /\ v \in SpecType /\ v.image = w.a
          /\ v.type = w.type /\ v.config = w.config /\ v.auto = w.auto
          /\ v.replicas = w.replicas /\ v.count = w.count /\ v.share = w.share
          /\ v.a = w.a /\ v.b = w.b /\ v.gate = w.gate /\ v.sched = w.sched
      BY <2>1 DEF SpecType
    <2> HIDE DEF v
    <2>3. Kept(v)
      BY <1>2, <2>2 DEF Kept
    <2> QED BY <1>2, <2>3 DEF v
  <1> QED BY <1>1, <1>2 DEF Current

(* A cost-aware workload is placed on an affordable node of the registry.  *)
LEMMA PlacedNode ==
    ASSUME NEW w \in SpecType, NEW node \in Placed(w)
    PROVE  /\ w.sched.costAware =>
                 \E i \in DOMAIN Nodes : node = Nodes[i] /\ Affordable(Nodes[i], w.sched)
           /\ ~w.sched.costAware => node = [id |-> AnyNode]
           /\ node.id \in NodeIDs \cup {AnyNode}
  <1>1. CandidateNodes(w.sched) \subseteq DOMAIN Nodes
    BY DEF CandidateNodes, filterNodes
  <1>2. cheapest(CandidateNodes(w.sched), w.sched)
          \subseteq {i \in DOMAIN Nodes : Affordable(Nodes[i], w.sched)}
    BY <1>1, Zenon DEF cheapest
  <1>3. CASE w.sched.costAware
    <2>1. node \in selectCheapestNode(w.sched)
      BY <1>3 DEF Placed
    <2>2. PICK i \in cheapest(CandidateNodes(w.sched), w.sched) : node = Nodes[i]
      BY <2>1 DEF selectCheapestNode
    <2> QED BY <1>2, <1>3, <2>2 DEF NodeIDs
  <1>4. CASE ~w.sched.costAware
    BY <1>4 DEF Placed
  <1> QED BY <1>3, <1>4

(* Writing the node into the selectors keeps the rest of the scheduling    *)
(* record.                                                                 *)
LEMMA PinnedKeeps ==
    ASSUME NEW sched \in SchedulingType(SelectorKeys, SelectorValues),
           NEW node, node.id \in NodeIDs
    PROVE  /\ Pinned(sched, node) \in SchedulingType(SelectorKeys, SelectorValues)
           /\ Pinned(sched, node).costAware = sched.costAware
           /\ Pinned(sched, node).maxCost = sched.maxCost
  <1> DEFINE m == [k \in {Hostname} \cup DOMAIN sched.selectors |->
                     IF k = Hostname THEN node.id ELSE sched.selectors[k]]
             maps == UNION {[ks -> SelectorValues] : ks \in SUBSET SelectorKeys}
  <1>1. PICK ks \in SUBSET SelectorKeys : sched.selectors \in [ks -> SelectorValues]
    BY DEF SchedulingType
  <1>2. ks \cup {Hostname} \in SUBSET SelectorKeys /\ node.id \in SelectorValues
    BY DEF SelectorKeys, SelectorValues
  <1>3. m \in [ks \cup {Hostname} -> SelectorValues]
    BY <1>1, <1>2
  <1>4. m \in maps
    BY <1>2, <1>3
  <1>5. Pinned(sched, node) = [sched EXCEPT !.selectors = m]
    BY DEF Pinned
  <1> HIDE DEF m, maps
  <1>6. sched \in [costAware : BOOLEAN, regions : SUBSET STRING, zones : SUBSET STRING,
                   selectors : maps, avoidDraining : BOOLEAN, arch : STRING, maxCost : Int]
    BY DEF SchedulingType, maps
  <1> QED BY <1>4, <1>5, <1>6 DEF SchedulingType, maps

(* ... and so does pinning it to a node.                                   *)
LEMMA PinKept ==
    ASSUME NEW w, Kept(w), NEW node \in Placed(w)
    PROVE  Kept(Pin(w, node))
  <1>1. w \in SpecType
    BY DEF Kept
  <1>2. CASE ~w.sched.costAware
    BY <1>2 DEF Pin
  <1>3. CASE w.sched.costAware
    <2>1. node.id \in NodeIDs
      BY <1>1, <1>3, PlacedNode DEF NodeIDs
    <2> DEFINE sc == Pinned(w.sched, node)
               v == [w EXCEPT !.sched = sc]
    <2>2. w.sched \in SchedulingType(SelectorKeys, SelectorValues)
      BY <1>1 DEF SpecType
    <2>3. /\ sc \in SchedulingType(SelectorKeys, SelectorValues)
          /\ sc.costAware = w.sched.costAware /\ sc.maxCost = w.sched.maxCost
      BY <2>1, <2>2, PinnedKeeps
    <2>4. Pin(w, node) = v
      BY <1>3 DEF Pin
    <2> HIDE DEF sc
    <2>5. /\ v \in SpecType /\ v.sched = sc
          /\ v.type = w.type /\ v.config = w.config /\ v.auto = w.auto
          /\ v.replicas = w.replicas /\ v.count = w.count /\ v.share = w.share
          /\ v.a = w.a /\ v.b = w.b /\ v.gate = w.gate /\ v.image = w.image
      BY <1>1, <2>3 DEF SpecType
    <2> HIDE DEF v
    <2> QED BY <2>3, <2>4, <2>5 DEF Kept
  <1> QED BY <1>2, <1>3

(***************************************************************************)
(* The steps.                                                              *)
(***************************************************************************)

(* The first states.                                                       *)
LEMMA InitIInv == Init => IInv
  <1> SUFFICES ASSUME Init PROVE IInv
    OBVIOUS
  <1> USE DEF Init
  <1>1. CountersOK
    <2>1. count \in 0 .. MaxDisturbances
      BY RolloutAssumption
    <2> QED BY <2>1, Zenon DEF CountersOK
  <1>2. StoreOK /\ AttemptOK
    BY DEF StoreOK, AttemptOK, Idle
  <1>3. RuntimeOK /\ PlacedWithinBudget
    BY DEF RuntimeOK, PlacedWithinBudget
  <1>4. RunningIsComplete /\ BlockedKeepsOld
    BY DEF RunningIsComplete, BlockedKeepsOld
  <1> QED BY <1>1, <1>2, <1>3, <1>4 DEF IInv

(* A step that deploys nothing keeps what is said of the runtime.          *)
LEMMA RuntimeKept ==
    ASSUME IInv, runtime' = runtime
    PROVE  RuntimeOK' /\ PlacedWithinBudget'
  BY DEF IInv, RuntimeOK, PlacedWithinBudget

(* A deploy request or a crash.                                            *)
LEMMA DisturbanceStep ==
    ASSUME IInv, Crash \/ \E s \in Submissions : Deploy(s)
    PROVE  IInv'
  <1>1. CountersOK'
    <2>1. count \in 0 .. MaxDisturbances /\ Disturbance
      BY Zenon DEF IInv, CountersOK, Crash, Deploy
    <2>2. count' \in 0 .. MaxDisturbances
      BY <2>1, RolloutAssumption DEF Disturbance
    <2>3. live' \in BOOLEAN /\ cleared' \in BOOLEAN
      BY Zenon DEF IInv, CountersOK, Crash, Deploy
    <2> QED BY <2>2, <2>3, Zenon DEF CountersOK
  <1>2. runtime' = runtime
    BY DEF Crash, Deploy
  <1>3. ASSUME NEW s \in Submissions, Deploy(s)
        PROVE  StoreOK' /\ AttemptOK' /\ RunningIsComplete' /\ BlockedKeepsOld'
    <2>1. /\ attempt' = NoAttempt /\ stored' = s /\ asked' = s /\ phase' = "Pending"
          /\ before' = runtime /\ cleared' = FALSE
      BY <1>3 DEF Deploy, Idle
    <2>2. s \in SpecType
      BY RolloutAssumption
    <2>3. Kept(stored)'
      BY <2>1, <2>2 DEF Kept
    <2> QED BY <1>2, <2>1, <2>3 DEF StoreOK, AttemptOK, Idle, RunningIsComplete, BlockedKeepsOld
  <1>4. ASSUME Crash
        PROVE  StoreOK' /\ AttemptOK' /\ RunningIsComplete' /\ BlockedKeepsOld'
    <2>1. attempt' = NoAttempt
      BY <1>4 DEF Crash
    <2>2. CASE live
      <3>1. stored' = NoSpec /\ asked' = NoSpec /\ phase' = "none" /\ before' = runtime
        BY <1>4, <2>2 DEF Crash
      <3> QED BY <1>2, <2>1, <3>1
              DEF StoreOK, AttemptOK, Idle, RunningIsComplete, BlockedKeepsOld
    <2>3. CASE ~live
      <3>1. UNCHANGED <<stored, asked, phase, before, cleared>>
        BY <1>4, <2>3 DEF Crash
      <3>2. StoreOK' /\ AttemptOK'
        BY <2>1, <3>1 DEF IInv, StoreOK, AttemptOK, Idle, Kept
      <3>3. RunningIsComplete' /\ BlockedKeepsOld'
        BY <1>2, <3>1 DEF IInv, RunningIsComplete, BlockedKeepsOld
      <3> QED BY <3>2, <3>3
    <2> QED BY <2>2, <2>3
  <1> QED BY <1>1, <1>2, <1>3, <1>4, RuntimeKept DEF IInv

(* ExecuteRollout starts an attempt only when no blocking check failed.    *)
LEMMA ExecuteRolloutStep ==
    ASSUME IInv, NEW failed, ExecuteRollout(failed)
    PROVE  IInv'
  <1> DEFINE clear == \/ ~stored.gate.on
                      \/ stored.gate.mode # "block"
                      \/ \A i \in DOMAIN stored.gate.checks :
                            stored.gate.checks[i] = "http" => i \notin failed
  <1>1. /\ Idle /\ phase = "Pending"
        /\ UNCHANGED <<stored, phase, runtime, live, asked, before, count>>
    BY DEF ExecuteRollout, history
  <1>2. cleared' = (cleared \/ clear)
    BY Zenon DEF ExecuteRollout
  <1>3. ~Blocked(stored.gate, failed) => clear
    BY Zenon DEF Blocked, executeCheck
  <1>4. asked \in Submissions /\ Kept(stored)
    BY <1>1 DEF IInv, StoreOK
  <1>5. \/ attempt' = attempt
        \/ attempt' = [next |-> 1, w |-> stored] /\ clear
    BY <1>3 DEF ExecuteRollout
  <1> HIDE DEF clear
  <1>6. CountersOK' /\ BlockedKeepsOld'
    <2>1. cleared' \in BOOLEAN /\ (cleared => cleared')
      BY <1>2, Zenon
    <2> QED BY <1>1, <2>1, Zenon DEF IInv, CountersOK, BlockedKeepsOld
  <1>7. StoreOK' /\ RunningIsComplete'
    BY <1>1 DEF IInv, StoreOK, RunningIsComplete, Kept
  <1>8. AttemptOK'
    <2>1. CASE attempt' = attempt
      BY <1>1, <2>1 DEF AttemptOK, Idle
    <2>2. CASE attempt' = [next |-> 1, w |-> stored] /\ clear
      <3>1. cleared'
        BY <1>2, <2>2, Zenon
      <3>2. Kept(attempt.w)' /\ attempt'.next = 1 /\ attempt'.w = stored
        BY <1>1, <1>4, <2>2 DEF Kept
      <3>3. Len(Plan(asked)) \in 1 .. 3
        BY <1>4, SubmittedKept, PlanShape
      <3>4. attempt'.next \in 1 .. Len(Plan(asked)) + 1 /\ 1 .. attempt'.next - 1 = {}
        BY <3>2, <3>3
      <3>5. Plan(asked)' = Plan(asked)
        BY <1>1 DEF Plan, CanaryReplicas, VariantBReplicas
      <3> QED BY <1>1, <2>2, <3>1, <3>2, <3>4, <3>5 DEF AttemptOK
    <2> QED BY <1>5, <2>1, <2>2
  <1> QED BY <1>1, <1>6, <1>7, <1>8, RuntimeKept DEF IInv

(* What is known while a call of the plan is made.                         *)
LEMMA UnderWay ==
    ASSUME IInv, ~Idle
    PROVE  /\ phase = "Pending" /\ cleared
           /\ asked \in Submissions /\ asked \in SpecType
           /\ attempt = [next |-> attempt.next, w |-> attempt.w]
           /\ attempt.next \in 1 .. Len(Plan(asked)) + 1
           /\ Kept(attempt.w) /\ Plan(attempt.w) = Plan(asked)
           /\ \A i \in 1 .. attempt.next - 1 : Deployed(Plan(asked)[i])
  <1>1. /\ phase = "Pending" /\ cleared
        /\ attempt = [next |-> attempt.next, w |-> attempt.w]
        /\ attempt.next \in 1 .. Len(Plan(asked)) + 1
        /\ Kept(attempt.w)
        /\ \A i \in 1 .. attempt.next - 1 : Deployed(Plan(asked)[i])
    BY DEF IInv, AttemptOK
  <1>2. asked \in Submissions
    BY <1>1 DEF IInv, StoreOK
  <1> QED BY <1>1, <1>2, SubmittedKept, SamePlan

(* A failed call gives the attempt up; what it changed stays in a live     *)
(* object.                                                                 *)
LEMMA AbandonStep ==
    ASSUME IInv, ~Idle, NEW w, Kept(w), Abandon(w),
           UNCHANGED <<phase, runtime, cleared, history>>
    PROVE  IInv'
  <1>1. /\ attempt' = NoAttempt /\ stored' \in {w, stored}
        /\ UNCHANGED <<phase, runtime, cleared, live, asked, before, count>>
    BY DEF Abandon, history
  <1>2. phase = "Pending" /\ asked \in Submissions /\ Kept(stored)
    BY UnderWay DEF IInv, StoreOK
  <1>3. Kept(stored)'
    BY <1>1, <1>2 DEF Kept
  <1>4. StoreOK' /\ AttemptOK' /\ RunningIsComplete'
    BY <1>1, <1>2, <1>3 DEF StoreOK, AttemptOK, Idle, RunningIsComplete
  <1>5. CountersOK' /\ BlockedKeepsOld'
    BY <1>1 DEF IInv, CountersOK, BlockedKeepsOld
  <1> QED BY <1>1, <1>4, <1>5, RuntimeKept DEF IInv

(* postSchedule: the plan has been carried out to its end.                 *)
LEMMA PostScheduleStep ==
    ASSUME IInv, PostSchedule
    PROVE  IInv'
  <1>1. /\ ~Idle /\ attempt.next > Len(Plan(attempt.w))
        /\ stored' = attempt.w /\ phase' = "Running" /\ attempt' = NoAttempt
        /\ UNCHANGED <<runtime, cleared, live, asked, before, count>>
    <2>1. attempt.next \in Int /\ Len(Plan(attempt.w)) \in Int
      BY UnderWay, PlanShape DEF PostSchedule
    <2> QED BY <2>1 DEF PostSchedule, Calling, history
  <1>2. /\ asked \in SpecType /\ asked \in Submissions /\ Kept(attempt.w)
        /\ attempt.next = Len(Plan(asked)) + 1 /\ Len(Plan(asked)) \in 1 .. 3
        /\ DOMAIN Plan(asked) = 1 .. Len(Plan(asked))
    BY <1>1, UnderWay, PlanShape
  <1>3. \A i \in DOMAIN Plan(asked) : Deployed(Plan(asked)[i])
    BY <1>1, <1>2, UnderWay
  <1>4. Plan(asked)' = Plan(asked)
    BY <1>1 DEF Plan, CanaryReplicas, VariantBReplicas
  <1>5. RunningIsComplete'
    BY <1>1, <1>3, <1>4 DEF RunningIsComplete, Deployed
  <1>6. StoreOK' /\ AttemptOK'
    BY <1>1, <1>2 DEF StoreOK, AttemptOK, Idle, Kept
  <1>7. CountersOK' /\ BlockedKeepsOld'
    BY <1>1, Zenon DEF IInv, CountersOK, BlockedKeepsOld
  <1> QED BY <1>1, <1>5, <1>6, <1>7, RuntimeKept DEF IInv

(* A call that succeeds: the part is deployed as the plan says, on a node  *)
(* within the budget, and the calls before it stay deployed.               *)
LEMMA ScheduleOKStep ==
    ASSUME IInv, NEW part \in Parts, ScheduleOK(part)
    PROVE  IInv'
  <1> DEFINE i == attempt.next
             w == Current(attempt.w, i)
             call == Plan(w)[i]
             plan == Plan(asked)
  <1>1. PICK node \in Placed(w) :
           /\ attempt' = [next |-> i + 1, w |-> Pin(w, node)]
           /\ runtime' = [runtime EXCEPT ![part] =
                [node |-> node.id, image |-> call.image, replicas |-> call.replicas,
                 wants |-> asked.sched]]
    BY Zenon DEF ScheduleOK, Advance
  <1>2. /\ ~Idle /\ i <= Len(Plan(attempt.w)) /\ call.part = part
        /\ UNCHANGED <<stored, phase, cleared, live, asked, before, count>>
    BY DEF ScheduleOK, Calling, Advance, history
  <1>3. /\ phase = "Pending" /\ cleared
        /\ asked \in Submissions /\ asked \in SpecType
        /\ Kept(attempt.w) /\ Plan(attempt.w) = plan
        /\ i \in 1 .. Len(plan) + 1
        /\ \A j \in 1 .. i - 1 : Deployed(plan[j])
    BY <1>2, UnderWay
  <1>4. Kept(w) /\ w \in SpecType /\ Plan(w) = plan
    <2>1. Kept(w)
      BY <1>3, CurrentKept
    <2> QED BY <2>1, SamePlan DEF Kept
  <1> DEFINE new == [node |-> node.id, image |-> call.image, replicas |-> call.replicas,
                     wants |-> asked.sched]
  <1>5. /\ plan \in Seq(CallOf(asked)) /\ Len(plan) \in 1 .. 3
        /\ \A j, k \in 1 .. Len(plan) : plan[j].part = plan[k].part => j = k
    BY <1>3, PlanShape
  <1>6. i \in 1 .. Len(plan) /\ call = plan[i] /\ call \in CallOf(asked)
    BY <1>2, <1>3, <1>4, <1>5
  <1> HIDE DEF plan, w, i, call
  <1>7. node.id \in NodeIDs \cup {AnyNode}
    BY <1>4, PlacedNode
  <1>8. new \in Deployment /\ new # NotDeployed
    <2>1. call.image \in {asked.image, asked.a, asked.b} /\ call.replicas \in Int
      BY <1>6 DEF CallOf
    <2>2. call.image \in Images /\ asked.sched \in {s.sched : s \in Submissions}
      BY <1>3, <2>1 DEF Images
    <2>3. new \in Deployment
      BY <1>7, <2>1, <2>2 DEF Deployment
    <2>4. new # NotDeployed
      BY DEF NotDeployed
    <2> QED BY <2>3, <2>4
  <1>9. /\ runtime' = [runtime EXCEPT ![part] = new]
        /\ runtime \in [Parts -> Deployment \cup {NotDeployed}]
    BY <1>1 DEF IInv, RuntimeOK
  <1>10. /\ runtime'[part] = new
         /\ \A p \in Parts : p # part => runtime'[p] = runtime[p]
    BY <1>9
  <1>11. new.node = node.id /\ new.image = call.image /\ new.replicas = call.replicas
         /\ new.wants = asked.sched
    OBVIOUS
  <1> HIDE DEF new
  <1>12. RuntimeOK'
    BY <1>8, <1>9 DEF RuntimeOK
  <1>13. PlacedWithinBudget'
    <2> SUFFICES ASSUME NEW p \in Parts, NEW k \in DOMAIN Nodes, runtime'[p] # NotDeployed,
                        runtime'[p].node = Nodes[k].id
                 PROVE  Affordable(Nodes[k], runtime'[p].wants)
      BY DEF PlacedWithinBudget, Affordable
    <2>1. CASE p # part
      BY <1>10, <2>1 DEF IInv, PlacedWithinBudget
    <2>2. CASE p = part
      <3>1. node.id = Nodes[k].id /\ runtime'[p].wants = asked.sched
        BY <1>10, <1>11, <2>2
      <3>2. w.sched.costAware
        BY <1>4, <3>1, PlacedNode, PlacementAssumption
      <3>3. PICK j \in DOMAIN Nodes : node = Nodes[j] /\ Affordable(Nodes[j], w.sched)
        BY <1>4, <3>2, PlacedNode
      <3>4. Nodes[k].cost = Nodes[j].cost
        BY <3>1, <3>3, PlacementAssumption
      <3>5. w.sched.maxCost = asked.sched.maxCost
        BY <1>4 DEF Kept
      <3> QED BY <3>1, <3>3, <3>4, <3>5 DEF Affordable
    <2> QED BY <2>1, <2>2
  <1>14. AttemptOK'
    <2>1. Kept(Pin(w, node))
      BY <1>4, PinKept
    <2>2. /\ attempt'.next = i + 1 /\ attempt'.w = Pin(w, node)
          /\ attempt' = [next |-> attempt'.next, w |-> attempt'.w]
      BY <1>1
    <2>3. Kept(attempt.w)'
      BY <1>2, <2>1, <2>2 DEF Kept
    <2>4. Plan(asked)' = plan
      BY <1>2 DEF Plan, CanaryReplicas, VariantBReplicas, plan
    <2>5. i \in Nat /\ Len(plan) \in Nat /\ i + 1 \in 1 .. Len(plan) + 1
      BY <1>5, <1>6
    <2>6. \A j \in 1 .. i : Deployed(plan[j])'
      <3> SUFFICES ASSUME NEW j \in 1 .. i PROVE Deployed(plan[j])'
        OBVIOUS
      <3>1. j \in 1 .. Len(plan) /\ plan' = plan
        BY <1>6, <2>4, <2>5 DEF plan
      <3>2. CASE j = i
        BY <1>2, <1>6, <1>8, <1>10, <1>11, <3>1, <3>2 DEF Deployed
      <3>3. CASE j # i
        <4>1. j \in 1 .. i - 1
          BY <2>5, <3>3
        <4>2. Deployed(plan[j]) /\ plan[j] \in CallOf(asked)
          BY <1>3, <1>5, <3>1, <4>1
        <4>3. plan[j].part # part /\ plan[j].part \in Parts
          BY <1>2, <1>5, <1>6, <3>1, <3>3, <4>2 DEF CallOf
        <4> QED BY <1>10, <3>1, <4>2, <4>3 DEF Deployed
      <3> QED BY <3>2, <3>3
    <2>7. attempt'.next \in 1 .. Len(plan) + 1 /\ 1 .. attempt'.next - 1 = 1 .. i
      BY <2>2, <2>5
    <2>8. plan' = plan
      BY <2>4 DEF plan
    <2> QED BY <1>2, <1>3, <2>2, <2>3, <2>4, <2>6, <2>7, <2>8 DEF AttemptOK, plan
  <1>15. StoreOK' /\ RunningIsComplete'
    BY <1>2, <1>3 DEF IInv, StoreOK, RunningIsComplete, Kept
  <1>16. CountersOK' /\ BlockedKeepsOld'
    BY <1>2, <1>3 DEF IInv, CountersOK, BlockedKeepsOld
  <1> QED BY <1>12, <1>13, <1>14, <1>15, <1>16 DEF IInv

(* Every step keeps the invariant.                                         *)
LEMMA NextIInv == IInv /\ [Next]_vars => IInv'
  <1> SUFFICES ASSUME IInv, [Next]_vars PROVE IInv'
    OBVIOUS
  <1>1. CASE Crash \/ \E s \in Submissions : Deploy(s)
    BY <1>1, DisturbanceStep
  <1>2. ASSUME NEW failed, ExecuteRollout(failed)
        PROVE  IInv'
    BY <1>2, ExecuteRolloutStep
  <1>3. ASSUME NEW p \in Parts, ScheduleOK(p)
        PROVE  IInv'
    BY <1>3, ScheduleOKStep
  <1>4. CASE DeployFails
    <2> DEFINE w == Current(attempt.w, attempt.next)
    <2>1. ~Idle /\ Kept(w)
      BY <1>4, UnderWay, CurrentKept DEF DeployFails, Calling
    <2>2. PICK node \in Placed(w) : Abandon(Pin(w, node))
      BY <1>4 DEF DeployFails
    <2>3. Kept(Pin(w, node))
      BY <2>1, PinKept
    <2>4. UNCHANGED <<phase, runtime, cleared, history>>
      BY <1>4 DEF DeployFails
    <2> HIDE DEF w
    <2> QED BY <2>1, <2>2, <2>3, <2>4, AbandonStep
  <1>5. CASE ScheduleFails
    <2>1. ~Idle /\ Kept(Current(attempt.w, attempt.next))
      BY <1>5, UnderWay, CurrentKept DEF ScheduleFails, Calling
    <2> QED BY <1>5, <2>1, AbandonStep DEF ScheduleFails
  <1>6. CASE PostSchedule
    BY <1>6, PostScheduleStep
  <1>7. CASE NothingToDo \/ UNCHANGED vars
    <2>1. UNCHANGED <<live, stored, asked, phase, attempt, runtime, before, cleared, count>>
      BY <1>7 DEF NothingToDo, vars
    <2>2. CountersOK' /\ StoreOK' /\ RuntimeOK'
      BY <2>1 DEF IInv, CountersOK, StoreOK, RuntimeOK, Kept
    <2>3. RunningIsComplete' /\ BlockedKeepsOld' /\ PlacedWithinBudget'
      BY <2>1 DEF IInv, RunningIsComplete, BlockedKeepsOld, PlacedWithinBudget
    <2>4. AttemptOK'
      BY <2>1 DEF IInv, AttemptOK, Idle, Kept, Deployed
    <2> QED BY <2>2, <2>3, <2>4 DEF IInv
  <1> QED BY <1>1, <1>2, <1>3, <1>4, <1>5, <1>6, <1>7 DEF Next, Step

(* IInv holds in every reachable state.                                    *)
THEOREM Invariance == Spec => []IInv
  BY InitIInv, NextIInv, PTL DEF Spec

(* Every variable keeps its type; in particular the stored spec and the    *)
(* one an attempt works on stay the submitted one, up to the image an A/B  *)
(* test selected and the pinned node, and no part is deployed with more    *)
(* replicas than some spec says.                                           *)
THEOREM TypeCorrect == Spec => []TypeOK
  <1>1. IInv => TypeOK
    <2> SUFFICES ASSUME IInv PROVE TypeOK
      OBVIOUS
    <2>1. ASSUME NEW w, Kept(w), asked \in Submissions
          PROVE  StoredSpec(w)
      <3>1. w \in SpecType /\ asked \in SpecType
        BY <2>1, SubmittedKept DEF Kept
      <3> QED BY <2>1, <3>1 DEF StoredSpec, Kept, SpecType
    <2>2. asked \in Submissions \cup {NoSpec} /\ phase \in {"none", "Pending", "Running"}
      BY DEF IInv, StoreOK
    <2>3. stored = NoSpec \/ StoredSpec(stored)
      BY <2>1 DEF IInv, StoreOK
    <2>4. attempt.next \in 0 .. 4 /\ (attempt.w = NoSpec \/ StoredSpec(attempt.w))
      <3>1. CASE Idle
        BY <3>1 DEF Idle, NoAttempt
      <3>2. CASE ~Idle
        <4>1. Len(Plan(asked)) \in 1 .. 3 /\ attempt.next \in 1 .. Len(Plan(asked)) + 1
          BY <3>2, UnderWay, PlanShape
        <4>2. StoredSpec(attempt.w)
          BY <2>1, <3>2, UnderWay
        <4>3. attempt.next \in 0 .. 4
          <5>1. ASSUME NEW n \in 1 .. 3, NEW k \in 1 .. n + 1
                PROVE  k \in 0 .. 4
            OBVIOUS
          <5> QED BY <4>1, <5>1, Zenon
        <4> QED BY <4>2, <4>3, Zenon
      <3> QED BY <3>1, <3>2
    <2> QED BY <2>2, <2>3, <2>4 DEF IInv, CountersOK, RuntimeOK, TypeOK
  <1> QED BY <1>1, Invariance, PTL

(* Running means rolled out, for every strategy and through every failed,  *)
(* crashed and repeated attempt.                                           *)
THEOREM RunningMeansRolledOut == Spec => []RunningIsComplete
  <1>1. IInv => RunningIsComplete
    BY DEF IInv
  <1> QED BY <1>1, Invariance, PTL

(* A blocking gate whose checks fail keeps what runs as it was.            *)
THEOREM GateKeepsOld == Spec => []BlockedKeepsOld
  <1>1. IInv => BlockedKeepsOld
    BY DEF IInv
  <1> QED BY <1>1, Invariance, PTL

(* No part of a cost-aware workload ever runs on a node dearer than its    *)
(* max_cost_per_hour, for every registry of nodes.                         *)
THEOREM BudgetHolds == Spec => []PlacedWithinBudget
  <1>1. IInv => PlacedWithinBudget
    BY DEF IInv
  <1> QED BY <1>1, Invariance, PTL
==============================================================================
