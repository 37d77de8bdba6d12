------------------------------ MODULE Deployment ------------------------------
(***************************************************************************)
(* A host that loads configurations into a RegistryLifecycle (config.py)   *)
(* and takes invocations from the request to the point where the router is *)
(* called.  Configurations may be replaced and rolled back at any time,    *)
(* also while an invocation that was planned before is on its way.         *)
(*                                                                         *)
(* A registry is determined by its configuration, and its identity, a hash *)
(* of all of the configuration, by its content: a registry and its         *)
(* identity are represented by the configuration.  A call that returns a   *)
(* failure changes nothing, except that a refused rollout ends its         *)
(* invocation.                                                             *)
(***************************************************************************)
EXTENDS Planner

CONSTANTS
  Configs,     \* the host's configurations
  Loaded,      \* those it passes to the lifecycle
  Requests,    \* invocation requests
  Controls,    \* rollout controls
  Activatable  \* families in the catalog that the lifecycle validates with

ASSUME ConfigsAssumption ==
  Loaded \subseteq Configs /\ \A config \in Configs : WrittenConfig(config)

ASSUME RequestsAssumption ==
  \A request \in Requests : WrittenRequest(request)

ASSUME ControlsAssumption ==
  \A controls \in Controls : RolloutControls(controls)

ASSUME ActivatableAssumption == Activatable \subseteq Family

VARIABLES
  active,      \* the configuration of active_registry, as an option
  history,     \* the configurations of registry_history
  stage,       \* where the invocation is
  plan,        \* its plan, or NoPlan
  suppressed   \* suppressed_endpoint_reasons

lifecycle  == <<active, history>>
invocation == <<stage, plan, suppressed>>
vars       == <<lifecycle, invocation>>

NoPlan == [pool |-> <<>>]

Init ==
  /\ active = {}
  /\ history = {}
  /\ stage = "idle"
  /\ plan = NoPlan
  /\ suppressed = {}

------------------------------------------------------------------------------
Unvalidated(config) ==  \* slip: activation without validation
  /\ active' = {config}
  /\ history' = history \cup {config}
  /\ UNCHANGED invocation

\* replace_active, and activate.
Replace(config) ==
  /\ ValidConfig(config, Activatable)
  /\ active' = {config}
  /\ history' = history \cup {config}
  /\ UNCHANGED invocation

\* rollback_to_identity: no second validation.
Rollback(config) ==
  /\ config \in history
  /\ active' = {config}
  /\ UNCHANGED <<history, invocation>>

\* invoke_plan with a registry that the lifecycle has handed out, active still
\* or not any more, or with a configuration that it validates itself.
Plan(config, request) ==
  /\ stage = "idle"
  /\ config \in history \/ ValidConfig(config, DOMAIN Catalog)
  /\ Plannable(config, request)
  /\ stage' = "planned"
  /\ plan' = PlanFor(config, request)
  /\ UNCHANGED <<lifecycle, suppressed>>

RollOut(controls) ==
  /\ stage = "planned"
  /\ ForcingAllowed(plan, controls)
  /\ CandidateLeft(plan, controls)
  /\ stage' = "rolled_out"
  /\ plan' = EffectivePlan(plan, controls)
  /\ suppressed' = SuppressedIn(plan', controls)
  /\ UNCHANGED lifecycle

PlanKept ==  \* slip: what the invocation was given outlives it
  /\ stage' = "idle"
  /\ suppressed' = {}
  /\ UNCHANGED <<lifecycle, plan>>

EndInvocation ==
  /\ stage' = "idle"
  /\ plan' = NoPlan
  /\ suppressed' = {}
  /\ UNCHANGED lifecycle

RefuseRollOut(controls) ==
  /\ stage = "planned"
  /\ ~(ForcingAllowed(plan, controls) /\ CandidateLeft(plan, controls))
  /\ EndInvocation

\* route_invocation returns; rollout controls are the host's to apply or not.
Routed ==
  /\ stage \in {"planned", "rolled_out"}
  /\ EndInvocation

Next ==
  \/ \E config \in Loaded : Replace(config) \/ Rollback(config)
  \/ \E config \in Configs, request \in Requests : Plan(config, request)
  \/ \E controls \in Controls : RollOut(controls) \/ RefuseRollOut(controls)
  \/ Routed

Spec == Init /\ [][Next]_vars

------------------------------------------------------------------------------
\* What the router is handed.
Handed == RouterPlan(plan, suppressed)

PlanType(p) == p.config \in Configs /\ WrittenPlan(p)

\* Type invariant of the deployment's state.
TypeOK ==
  /\ IsOptional(active, Configs)
  /\ history \subseteq Configs
  /\ stage \in {"idle", "planned", "rolled_out"}
  /\ IF stage = "idle" THEN plan = NoPlan ELSE PlanType(plan)
  /\ suppressed \subseteq Uid

\* The active configuration passed validation and can be returned to: so can
\* every one that was active before.
ActiveIsRestorable ==
  /\ active \subseteq history
  /\ \A config \in history : ValidConfig(config, Activatable)

\* Whatever the lifecycle, the caller and the operator do, the router is only
\* handed plans that meet what it takes for granted, for endpoints of the
\* configuration that the plan was made from.
HandoverIsWellFormed ==
  stage # "idle" =>
    /\ WellFormedPlan(Handed)
    /\ Range(plan.pool) \subseteq Uids(plan.config)

\* No candidate is allotted more than its provider's hard limits, by whichever
\* budget it comes to: its own, the policy's, the caller's or the deadline.
CandidatesWithinLimits ==
  stage # "idle" =>
    \A c \in 1 .. Handed.size :
      LET profile == Catalog[FamilyOf(plan.config, plan.pool[c])]
      IN /\ \A limit \in profile.maxDeadline :
              Handed.deadline <= limit /\ BudgetFor(Handed, c) <= limit
         /\ plan.effective.maxOutput <= profile.maxOutput
         /\ Handed.mode \in profile.modes

\* Where the policy permits no overrides, the caller has no way to change what
\* is planned: it is the policy's own, the deadline included.
PolicyIsBinding ==
  stage # "idle" =>
    LET policy == PolicyOf(plan.config, plan.operation)
    IN ~policy.allowOverrides =>
         /\ plan.effective = EffectiveConfig(policy, NoOverrides)
         /\ Handed.deadline = policy.deadline

\* Rollout controls never leave the router with disabled endpoints alone.
RolloutLeavesACandidate ==
  stage # "idle" => Handed.suppressed # 1 .. Handed.size

\* The conjunction of these is inductive with TypeOK.
DeploymentInv ==
  /\ ActiveIsRestorable
  /\ stage # "idle" => SoundPlan(plan)
  /\ PolicyIsBinding
  /\ IF stage = "rolled_out" THEN ~(Range(plan.pool) \subseteq suppressed)
                           ELSE suppressed = {}

\* "Policy cannot allocate fallback reserve under deadline": planning fails.
\* The planner never looks at the reserve, and a protected plan may have a
\* fallback whose budget is the whole deadline.
FallbackReserveFits ==
  stage # "idle" /\ Handed.protect =>
    \A c \in 2 .. Handed.size : BudgetFor(Handed, c) < Handed.deadline
==============================================================================
