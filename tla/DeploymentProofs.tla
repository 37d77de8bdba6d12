--------------------------- MODULE DeploymentProofs ---------------------------
(***************************************************************************)
(* What holds of every deployment: any configurations, requests, rollout   *)
(* controls and capability catalog.  The plan of an invocation is judged   *)
(* when it is made; after that only rollout controls change it, and they   *)
(* can only narrow its pool (module PlannerProofs).                        *)
(***************************************************************************)
EXTENDS Deployment, PlannerProofs

\* Every step keeps the state's types and the inductive invariant.
LEMMA StepKeepsInv ==
  TypeOK /\ DeploymentInv /\ [Next]_vars => TypeOK' /\ DeploymentInv'
<1> SUFFICES ASSUME TypeOK, DeploymentInv, [Next]_vars
             PROVE  TypeOK' /\ DeploymentInv'
  OBVIOUS
<1>1. ASSUME NEW config \in Loaded, Replace(config)
      PROVE  TypeOK' /\ DeploymentInv'
  <2>1. config \in Configs
    BY ConfigsAssumption
  <2>2. TypeOK'
    BY <1>1, <2>1 DEF TypeOK, Replace, invocation, IsOptional, PlanType
  <2>3. ActiveIsRestorable'
    BY <1>1 DEF DeploymentInv, ActiveIsRestorable, Replace
  <2> QED
    BY <1>1, <2>2, <2>3 DEF DeploymentInv, Replace, invocation, PolicyIsBinding, Handed
<1>2. ASSUME NEW config \in Loaded, Rollback(config)
      PROVE  TypeOK' /\ DeploymentInv'
  <2>1. TypeOK'
    BY <1>2 DEF TypeOK, Rollback, invocation, IsOptional, PlanType
  <2>2. ActiveIsRestorable'
    BY <1>2 DEF DeploymentInv, ActiveIsRestorable, Rollback
  <2> QED
    BY <1>2, <2>1, <2>2 DEF DeploymentInv, Rollback, invocation, PolicyIsBinding, Handed
<1>3. ASSUME NEW config \in Configs, NEW request \in Requests, Plan(config, request)
      PROVE  TypeOK' /\ DeploymentInv'
  <2>1. PICK families : ValidConfig(config, families)
    BY <1>3 DEF Plan, DeploymentInv, ActiveIsRestorable
  <2>2. PlanType(plan') /\ SoundPlan(plan')
    <3>1. WrittenConfig(config) /\ WrittenRequest(request)
      BY ConfigsAssumption, RequestsAssumption
    <3>2. WrittenPlan(plan') /\ SoundPlan(plan')
      BY <1>3, <2>1, <3>1, PlansAreSound DEF Plan
    <3>3. plan'.config = config
      BY <1>3 DEF Plan, PlanFor
    <3> QED
      BY <3>2, <3>3 DEF PlanType
  <2>3. TypeOK'
    BY <1>3, <2>2 DEF TypeOK, Plan, lifecycle
  <2>4. ActiveIsRestorable'
    BY <1>3 DEF DeploymentInv, ActiveIsRestorable, Plan, lifecycle
  <2>5. PolicyIsBinding'
    <3>1. plan'.config = config /\ plan'.operation = request.operation
      BY <1>3 DEF Plan, PlanFor
    <3>2. Handed'.deadline = plan'.deadline
      BY DEF Handed, RouterPlan
    <3> QED
      BY <1>3, <3>1, <3>2, BindingPolicyIsPlanned, RequestsAssumption
         DEF PolicyIsBinding, Plan
  <2>6. stage' = "planned" /\ suppressed' = {}
    BY <1>3 DEF Plan, TypeOK, DeploymentInv
  <2> QED
    BY <2>2, <2>3, <2>4, <2>5, <2>6 DEF DeploymentInv
<1>4. ASSUME NEW controls \in Controls, RollOut(controls)
      PROVE  TypeOK' /\ DeploymentInv'
  <2>1. PlanType(plan) /\ SoundPlan(plan)
    BY <1>4 DEF RollOut, TypeOK, DeploymentInv
  <2>2. /\ PlanType(plan') /\ SoundPlan(plan')
        /\ plan'.config = plan.config /\ plan'.operation = plan.operation
        /\ plan'.deadline = plan.deadline /\ plan'.effective = plan.effective
    BY <1>4, <2>1, RolloutNarrows DEF RollOut, PlanType
  <2>3. suppressed' \subseteq Uid
    BY <1>4, ControlsAssumption DEF RollOut, SuppressedIn, RolloutControls
  <2>4. ~(Range(plan'.pool) \subseteq suppressed')
    BY <1>4 DEF RollOut, CandidateLeft, SuppressedIn
  <2>5. TypeOK'
    BY <1>4, <2>2, <2>3 DEF TypeOK, RollOut, lifecycle
  <2>6. ActiveIsRestorable'
    BY <1>4 DEF DeploymentInv, ActiveIsRestorable, RollOut, lifecycle
  <2>7. PolicyIsBinding'
    <3>1. Handed'.deadline = plan'.deadline /\ Handed.deadline = plan.deadline
      BY DEF Handed, RouterPlan
    <3> QED
      BY <1>4, <2>2, <3>1 DEF PolicyIsBinding, RollOut, DeploymentInv
  <2>8. stage' = "rolled_out"
    BY <1>4 DEF RollOut
  <2> QED
    BY <2>2, <2>4, <2>5, <2>6, <2>7, <2>8 DEF DeploymentInv
<1>5. ASSUME EndInvocation
      PROVE  TypeOK' /\ DeploymentInv'
  BY <1>5 DEF EndInvocation, TypeOK, DeploymentInv, ActiveIsRestorable,
     PolicyIsBinding, lifecycle
<1>6. CASE UNCHANGED vars
  BY <1>6 DEF vars, lifecycle, invocation, TypeOK, DeploymentInv,
     ActiveIsRestorable, PolicyIsBinding, Handed
<1> QED
  BY <1>1, <1>2, <1>3, <1>4, <1>5, <1>6 DEF Next, RefuseRollOut, Routed

\* The state is typed and sound whatever the host, the callers and the
\* operator do.
THEOREM Invariance == Spec => [](TypeOK /\ DeploymentInv)
<1>1. Init => TypeOK /\ DeploymentInv
  BY DEF Init, TypeOK, DeploymentInv, ActiveIsRestorable, PolicyIsBinding, IsOptional
<1> QED
  BY <1>1, StepKeepsInv, PTL DEF Spec

\* Type correctness of the deployment.
THEOREM TypeCorrect == Spec => []TypeOK
BY Invariance, PTL

\* Only validated configurations are ever active, and rollback can return to
\* every one that was (RegistryLifecycle).
THEOREM LifecycleIsSafe == Spec => []ActiveIsRestorable
<1>1. DeploymentInv => ActiveIsRestorable
  BY DEF DeploymentInv
<1> QED
  BY <1>1, Invariance, PTL

\* A policy that permits no overrides is followed to the letter
\* (resolve_policy, _request_overrides).
THEOREM PolicyIsFollowed == Spec => []PolicyIsBinding
<1>1. DeploymentInv => PolicyIsBinding
  BY DEF DeploymentInv
<1> QED
  BY <1>1, Invariance, PTL

------------------------------------------------------------------------------
\* The router is only handed plans that meet what it takes for granted: this
\* discharges the assumption on plans of module Router.
THEOREM HandoverIsSound == Spec => []HandoverIsWellFormed
<1>1. TypeOK /\ DeploymentInv => HandoverIsWellFormed
  BY SoundIsWellFormed DEF TypeOK, PlanType, DeploymentInv, HandoverIsWellFormed, Handed, SoundPlan
<1> QED
  BY <1>1, Invariance, PTL

\* No candidate is ever allotted more than its provider's hard limits
\* (_validate_effective_config), whichever source its budget has.
THEOREM LimitsAreKept == Spec => []CandidatesWithinLimits
<1>1. TypeOK /\ DeploymentInv => CandidatesWithinLimits
  BY SoundKeepsLimits
     DEF TypeOK, PlanType, DeploymentInv, CandidatesWithinLimits, Handed
<1> QED
  BY <1>1, Invariance, PTL

\* Rollout controls never leave the router without a candidate that is enabled
\* (apply_rollout_controls).
THEOREM RolloutIsSafe == Spec => []RolloutLeavesACandidate
<1>1. ASSUME TypeOK, DeploymentInv, stage # "idle"
      PROVE  Handed.suppressed # 1 .. Handed.size
  <2>1. ~(Range(plan.pool) \subseteq suppressed)
    <3>1. CASE stage = "rolled_out"
      BY <1>1, <3>1 DEF DeploymentInv
    <3>2. CASE stage = "planned"
      <4>1. suppressed = {} /\ plan.pool \in Seq(Uid) /\ plan.pool # <<>>
        BY <1>1, <3>2 DEF DeploymentInv, TypeOK, PlanType, WrittenPlan, SoundPlan
      <4>2. 1 \in DOMAIN plan.pool
        BY <4>1
      <4> QED
        BY <4>1, <4>2 DEF Range
    <3> QED
      BY <1>1, <3>1, <3>2 DEF TypeOK
  <2>2. PICK c \in DOMAIN plan.pool : plan.pool[c] \notin suppressed
    BY <2>1 DEF Range
  <2>3. c \notin Handed.suppressed
    BY <2>2 DEF Handed, RouterPlan
  <2>4. c \in 1 .. Handed.size
    BY <1>1, <2>2 DEF TypeOK, PlanType, WrittenPlan, Handed, RouterPlan
  <2> QED
    BY <2>3, <2>4
<1>2. TypeOK /\ DeploymentInv => RolloutLeavesACandidate
  BY <1>1 DEF RolloutLeavesACandidate
<1> QED
  BY <1>2, Invariance, PTL
==============================================================================
