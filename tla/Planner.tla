------------------------------- MODULE Planner -------------------------------
(***************************************************************************)
(* The offline half of an invocation: invoke_plan (invocation.py) with     *)
(* resolve_policy (policy.py), and apply_rollout_controls (rollout.py).    *)
(* All of it is computed in one call, without callbacks.  Which of its     *)
(* checks failed shows only in the code of the TypedFailure; here a        *)
(* request is plannable or it is not.                                      *)
(*                                                                         *)
(* A definition marked "slip" is a plausible mistake in the definition     *)
(* after it, for a property to catch.                                      *)
(***************************************************************************)
EXTENDS Config

\* CallerPolicyOverrides.
NoOverrides == [deadline |-> {}, maxOutput |-> {}, reasoning |-> {}, base |-> {}]

WrittenOverrides(overrides) ==
  /\ IsOptional(overrides.deadline, Int)
  /\ IsOptional(overrides.maxOutput, Int)
  /\ IsOptional(overrides.reasoning, Reasoning)
  /\ IsOptional(overrides.base, Int)

\* InvocationRequest: "wellFormed" stands for a role, an operation and
\* messages of the right shape, "schema" for a schema contract ref.
WrittenRequest(request) ==
  /\ request.role \in Role
  /\ request.operation \in Operation
  /\ request.deadline \in Int
  /\ request.wellFormed \in BOOLEAN
  /\ request.schema \in BOOLEAN
  /\ WrittenOverrides(request.overrides)

KnobsOnly(request, policy) ==  \* slip: the request's own deadline not counted
  request.overrides

\* _request_overrides: a deadline that differs from the policy's is an
\* override, whether or not the caller says so.
RequestOverrides(request, policy) ==
  LET base == request.overrides
  IN [deadline  |-> IF base.deadline = {} /\ request.deadline # policy.deadline
                    THEN {request.deadline} ELSE base.deadline,
      maxOutput |-> base.maxOutput,
      reasoning |-> base.reasoning,
      base      |-> base.base]

\* _effective_config: with no budget of its own, a candidate may use up the
\* whole deadline.
EffectiveConfig(policy, overrides) ==
  LET deadline == Or(overrides.deadline, policy.deadline)
      base     == Or(overrides.base, Or(policy.base, deadline))
  IN [deadline    |-> deadline,
      maxOutput   |-> Or(overrides.maxOutput, policy.maxOutput),
      reasoning   |-> Or(overrides.reasoning, policy.reasoning),
      base        |-> base,
      overrides   |-> policy.overrides,
      protect     |-> policy.protect,
      mode        |-> policy.mode,
      failover    |-> policy.failover,
      maxAttempts |-> policy.maxAttempts]

AllowanceOf(e, uid) ==
  IF uid \in DOMAIN e.overrides THEN e.overrides[uid] ELSE e.base

BaseWithinLimits(e, profile, uid) ==  \* slip: the budgets by UID forgotten
  /\ e.maxOutput <= profile.maxOutput
  /\ \A limit \in profile.maxDeadline : e.base <= limit
  /\ e.reasoning \in profile.reasoning
  /\ e.mode \in profile.modes

\* The part of _validate_effective_config about one endpoint.
WithinLimits(e, profile, uid) ==
  /\ e.maxOutput <= profile.maxOutput
  /\ \A limit \in profile.maxDeadline :
       e.deadline <= limit /\ AllowanceOf(e, uid) <= limit
  /\ e.reasoning \in profile.reasoning
  /\ e.mode \in profile.modes

PositiveBudgets(e, pool) ==  \* slip: overrides trusted to the policy's own check
  /\ e.deadline > 0 /\ e.maxOutput > 0 /\ e.base > 0
  /\ DOMAIN e.overrides \subseteq Range(pool)

\* Its part about the budgets: the policy's budgets by UID are checked once
\* more, against the pool and the deadline of this request.
ValidBudgets(e, pool) ==
  /\ e.deadline > 0 /\ e.maxOutput > 0 /\ e.base > 0
  /\ DOMAIN e.overrides \subseteq Range(pool)
  /\ \A uid \in DOMAIN e.overrides : e.overrides[uid] \in 1 .. e.deadline

Served(e, config, pool) ==
  \A uid \in Range(pool) :
    /\ FamilyOf(config, uid) \in DOMAIN Catalog
    /\ WithinLimits(e, Catalog[FamilyOf(config, uid)], uid)

EffectiveFor(config, request) ==
  LET policy == PolicyOf(config, request.operation)
  IN  EffectiveConfig(policy, RequestOverrides(request, policy))

\* Overrides need the policy's permission.
OverridesPermitted(request, policy) ==
  RequestOverrides(request, policy) # NoOverrides => policy.allowOverrides

\* invoke_plan's checks, in their order.
Plannable(config, request) ==
  /\ request.wellFormed /\ request.deadline > 0
  /\ request.operation \in DOMAIN config.operations
  /\ request.overrides.deadline \subseteq {request.deadline}
  /\ request.role \in DOMAIN config.roles
  /\ OverridesPermitted(request, PolicyOf(config, request.operation))
  /\ LET e    == EffectiveFor(config, request)
         pool == config.roles[request.role]
     IN /\ ValidBudgets(e, pool)
        /\ Served(e, config, pool)
        /\ e.mode # "none" => request.schema \/ config.operations[request.operation].schema

\* The InvocationPlan; the configuration stands for its identity.
PlanFor(config, request) ==
  [config    |-> config,
   operation |-> request.operation,
   pool      |-> config.roles[request.role],
   deadline  |-> request.deadline,
   effective |-> EffectiveFor(config, request)]

\* The fields of a plan.
WrittenPlan(p) ==
  /\ DOMAIN p = {"config", "operation", "pool", "deadline", "effective"}
  /\ p.operation \in DOMAIN p.config.operations
  /\ p.pool \in Seq(Uid)
  /\ p.deadline \in Nat

\* Usable by the router, for the endpoints of its configuration, and within
\* their limits.
SoundPlan(p) ==
  LET e == p.effective IN
  /\ p.pool # <<>> /\ Range(p.pool) \subseteq Uids(p.config)
  /\ e.deadline = p.deadline
  /\ e.base \in Nat \ {0} /\ e.deadline \in Nat \ {0} /\ e.maxAttempts \in Nat \ {0}
  /\ \A uid \in DOMAIN e.overrides : e.overrides[uid] \in 1 .. e.deadline
  /\ e.protect \in BOOLEAN /\ e.failover \in BOOLEAN /\ e.mode \in Mode
  /\ Served(e, p.config, p.pool)

------------------------------------------------------------------------------
\* RolloutControls.
RolloutControls(controls) ==
  /\ controls.disabled \subseteq Uid
  /\ IsOptional(controls.forced, Uid)
  /\ controls.testMode \in BOOLEAN

AnyForced(plan, controls) ==  \* slip: the forced endpoint not looked for in the pool
  controls.forced # {} => controls.testMode

\* _validate_forced_endpoint.
ForcingAllowed(plan, controls) ==
  controls.forced # {} => controls.testMode /\ controls.forced \subseteq Range(plan.pool)

ForcedUnprotected(plan, controls) ==  \* slip: alone, an endpoint needs no protection
  IF controls.forced = {} THEN plan
  ELSE [plan EXCEPT !.pool = << CHOOSE uid \in controls.forced : TRUE >>,
                    !.effective.protect = FALSE]

\* A forced endpoint is the whole pool.
EffectivePlan(plan, controls) ==
  IF controls.forced = {} THEN plan
  ELSE [plan EXCEPT !.pool = << CHOOSE uid \in controls.forced : TRUE >>]

SuppressedIn(plan, controls) == Range(plan.pool) \cap controls.disabled

PoolLeft(plan, controls) ==  \* slip: the pool counted before it is forced
  SuppressedIn(plan, controls) # Range(plan.pool)

\* At least one candidate is not disabled.
CandidateLeft(plan, controls) ==
  LET effective == EffectivePlan(plan, controls)
  IN  SuppressedIn(effective, controls) # Range(effective.pool)

\* What the router is handed: candidates by position.
RouterPlan(plan, suppressed) ==
  LET positions(uids) == { c \in DOMAIN plan.pool : plan.pool[c] \in uids }
      e == plan.effective
  IN [size        |-> Len(plan.pool),
      deadline    |-> plan.deadline,
      base        |-> e.base,
      overrides   |-> [c \in positions(DOMAIN e.overrides) |-> e.overrides[plan.pool[c]]],
      protect     |-> e.protect,
      maxAttempts |-> e.maxAttempts,
      failover    |-> e.failover,
      mode        |-> e.mode,
      suppressed  |-> positions(suppressed)]
==============================================================================
