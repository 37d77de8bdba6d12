----------------------------- MODULE PlannerProofs -----------------------------
(***************************************************************************)
(* What holds of every plan: it is judged when it is made, and after that  *)
(* only rollout controls change it, which can only narrow its pool.        *)
(***************************************************************************)
EXTENDS Planner, TLAPS

\* An option that has a value, or a default, of a type is of that type.
LEMMA OrType ==
  ASSUME NEW S, NEW option, IsOptional(option, S), NEW default \in S
  PROVE  Or(option, default) \in S
BY DEF IsOptional, Or

\* The policy of an operation of a valid configuration is a valid policy.
LEMMA PolicyIsValid ==
  ASSUME NEW config, WrittenConfig(config), NEW families,
         ValidConfig(config, families), NEW op \in DOMAIN config.operations
  PROVE  /\ WrittenPolicy(PolicyOf(config, op))
         /\ PolicyOf(config, op).maxAttempts \in Nat \ {0}
<1>1. config.operations[op].policy \in DOMAIN config.policies
  BY DEF ValidConfig
<1>2. /\ WrittenPolicy(PolicyOf(config, op))
      /\ ValidPolicy(PolicyOf(config, op))
  BY <1>1 DEF ValidConfig, WrittenConfig, PolicyOf
<1> QED
  BY <1>2 DEF WrittenPolicy, ValidPolicy

\* Every role of a valid configuration is a pool of its endpoints.
LEMMA RoleIsPool ==
  ASSUME NEW config, WrittenConfig(config), NEW families,
         ValidConfig(config, families), NEW role \in DOMAIN config.roles
  PROVE  /\ config.roles[role] \in Seq(Uid)
         /\ config.roles[role] # <<>>
         /\ Range(config.roles[role]) \subseteq Uids(config)
BY DEF WrittenConfig, ValidConfig, ValidPool

\* The deadline an invocation is planned with is the request's own; without
\* overrides it is the policy's, and so is all the rest.
LEMMA RequestedDeadline ==
  ASSUME NEW request, NEW policy, WrittenRequest(request),
         request.overrides.deadline \subseteq {request.deadline}
  PROVE  /\ EffectiveConfig(policy, RequestOverrides(request, policy)).deadline
              = request.deadline
         /\ RequestOverrides(request, policy) = NoOverrides
              => request.deadline = policy.deadline
<1> DEFINE o == RequestOverrides(request, policy)
<1>1. o.deadline = IF request.deadline # policy.deadline THEN {request.deadline}
                   ELSE request.overrides.deadline
  BY DEF RequestOverrides
<1>2. Or(o.deadline, policy.deadline) = request.deadline
  BY <1>1 DEF Or
<1>3. o = NoOverrides => o.deadline = {}
  BY DEF NoOverrides
<1>4. EffectiveConfig(policy, o).deadline = Or(o.deadline, policy.deadline)
  BY DEF EffectiveConfig
<1> QED
  BY <1>1, <1>2, <1>3, <1>4

------------------------------------------------------------------------------
\* A request that passes invoke_plan's checks gets a plan that the router can
\* work with, for the configuration's endpoints and within their limits.
LEMMA PlansAreSound ==
  ASSUME NEW config, WrittenConfig(config), NEW families,
         ValidConfig(config, families),
         NEW request, WrittenRequest(request), Plannable(config, request)
  PROVE  /\ WrittenPlan(PlanFor(config, request))
         /\ SoundPlan(PlanFor(config, request))
<1> DEFINE policy == PolicyOf(config, request.operation)
           o      == RequestOverrides(request, policy)
           pool   == config.roles[request.role]
           e      == EffectiveConfig(policy, o)
           p      == PlanFor(config, request)
<1>2. /\ request.operation \in DOMAIN config.operations
      /\ request.role \in DOMAIN config.roles
      /\ request.overrides.deadline \subseteq {request.deadline}
      /\ request.deadline > 0
      /\ ValidBudgets(e, pool)
      /\ Served(e, config, pool)
  BY DEF Plannable, EffectiveFor
<1>3. WrittenPolicy(policy) /\ policy.maxAttempts \in Nat \ {0}
  BY <1>2, PolicyIsValid
<1>4. pool \in Seq(Uid) /\ pool # <<>> /\ Range(pool) \subseteq Uids(config)
  BY <1>2, RoleIsPool
<1>5. /\ p.config = config /\ p.operation = request.operation /\ p.pool = pool
      /\ p.deadline = request.deadline /\ p.effective = e
      /\ DOMAIN p = {"config", "operation", "pool", "deadline", "effective"}
  BY DEF PlanFor, EffectiveFor
<1>6. request.deadline \in Nat \ {0} /\ e.deadline = request.deadline
  BY <1>2, RequestedDeadline DEF WrittenRequest
<1>7. e.base \in Nat \ {0}
  <2>1. Or(policy.base, request.deadline) \in Int
    BY <1>3, <1>6, OrType DEF WrittenPolicy
  <2>2. IsOptional(o.base, Int)
    BY DEF RequestOverrides, WrittenRequest, WrittenOverrides
  <2>3. e.base = Or(o.base, Or(policy.base, Or(o.deadline, policy.deadline)))
    BY DEF EffectiveConfig
  <2>4. Or(o.deadline, policy.deadline) = request.deadline
    BY <1>6 DEF EffectiveConfig
  <2>5. e.base \in Int
    BY <2>1, <2>2, <2>3, <2>4, OrType
  <2> QED
    BY <2>5, <1>2 DEF ValidBudgets
<1>8. /\ e.overrides = policy.overrides /\ e.protect = policy.protect
      /\ e.mode = policy.mode /\ e.failover = policy.failover
      /\ e.maxAttempts = policy.maxAttempts
  BY DEF EffectiveConfig
<1>9. WrittenPlan(p)
  BY <1>2, <1>4, <1>5, <1>6 DEF WrittenPlan
<1>10. SoundPlan(p)
  <2>1. \A uid \in DOMAIN e.overrides : e.overrides[uid] \in 1 .. e.deadline
    BY <1>2 DEF ValidBudgets
  <2>2. e.protect \in BOOLEAN /\ e.failover \in BOOLEAN /\ e.mode \in Mode
    BY <1>3, <1>8 DEF WrittenPolicy
  <2> QED
    BY <2>1, <2>2, <1>2, <1>3, <1>4, <1>5, <1>6, <1>7, <1>8 DEF SoundPlan
<1> QED
  BY <1>9, <1>10

\* A plan made without the policy's permission to override is the policy's.
LEMMA BindingPolicyIsPlanned ==
  ASSUME NEW config, NEW request, WrittenRequest(request),
         Plannable(config, request),
         ~PolicyOf(config, request.operation).allowOverrides
  PROVE  LET policy == PolicyOf(config, request.operation)
             p      == PlanFor(config, request)
         IN /\ p.effective = EffectiveConfig(policy, NoOverrides)
            /\ p.deadline = policy.deadline
<1> DEFINE policy == PolicyOf(config, request.operation)
<1>1. RequestOverrides(request, policy) = NoOverrides
  BY DEF Plannable, OverridesPermitted
<1>2. request.deadline = policy.deadline
  BY <1>1, RequestedDeadline DEF Plannable
<1> QED
  BY <1>1, <1>2 DEF PlanFor, EffectiveFor

\* Forcing an endpoint narrows the pool and changes nothing else, so that a
\* sound plan stays sound.
LEMMA RolloutNarrows ==
  ASSUME NEW p, WrittenPlan(p), SoundPlan(p),
         NEW controls, ForcingAllowed(p, controls)
  PROVE  LET q == EffectivePlan(p, controls)
         IN /\ WrittenPlan(q) /\ SoundPlan(q)
            /\ q.config = p.config /\ q.operation = p.operation
            /\ q.deadline = p.deadline /\ q.effective = p.effective
<1> DEFINE q == EffectivePlan(p, controls)
<1>1. CASE controls.forced = {}
  BY <1>1 DEF EffectivePlan
<1>2. CASE controls.forced # {}
  <2> DEFINE uid == CHOOSE u \in controls.forced : TRUE
  <2>1. uid \in Range(p.pool)
    BY <1>2 DEF ForcingAllowed
  <2>2. uid \in Uid
    <3>1. \A c \in DOMAIN p.pool : p.pool[c] \in Uid
      BY DEF WrittenPlan
    <3> QED
      BY <2>1, <3>1 DEF Range
  <2>3. /\ q.pool = <<uid>> /\ DOMAIN q = DOMAIN p
        /\ q.config = p.config /\ q.operation = p.operation
        /\ q.deadline = p.deadline /\ q.effective = p.effective
    BY <1>2 DEF EffectivePlan, WrittenPlan
  <2>4. q.pool \in Seq(Uid) /\ q.pool # <<>> /\ Range(q.pool) = {uid}
    <3>1. /\ <<uid>> \in Seq(Uid) /\ <<uid>> # <<>>
          /\ DOMAIN <<uid>> = {1} /\ <<uid>>[1] = uid
      BY <2>2
    <3>2. Range(<<uid>>) = {uid}
      BY <3>1 DEF Range
    <3> QED
      BY <2>3, <3>1, <3>2
  <2>5. Served(p.effective, p.config, q.pool)
    BY <2>1, <2>4 DEF SoundPlan, Served
  <2> QED
    BY <2>1, <2>3, <2>4, <2>5 DEF WrittenPlan, SoundPlan
<1> QED
  BY <1>1, <1>2

------------------------------------------------------------------------------
\* A candidate's budget by position is its allowance by UID.
LEMMA BudgetByPosition ==
  ASSUME NEW p, NEW uids, NEW c \in DOMAIN p.pool
  PROVE  BudgetFor(RouterPlan(p, uids), c) = AllowanceOf(p.effective, p.pool[c])
BY DEF BudgetFor, RouterPlan, AllowanceOf

\* What a sound plan hands over is well-formed.
LEMMA SoundIsWellFormed ==
  ASSUME NEW p, WrittenPlan(p), SoundPlan(p), NEW uids
  PROVE  WellFormedPlan(RouterPlan(p, uids))
<1> DEFINE h == RouterPlan(p, uids)
           e == p.effective
<1>1. DOMAIN p.pool = 1 .. Len(p.pool) /\ Len(p.pool) \in Nat \ {0}
  BY DEF WrittenPlan, SoundPlan
<1>2. /\ h.size = Len(p.pool) /\ h.deadline = p.deadline /\ h.base = e.base
      /\ h.protect = e.protect /\ h.maxAttempts = e.maxAttempts
      /\ h.failover = e.failover /\ h.mode = e.mode
      /\ h.suppressed \subseteq DOMAIN p.pool
  BY DEF RouterPlan
<1>3. /\ DOMAIN h.overrides = { c \in DOMAIN p.pool : p.pool[c] \in DOMAIN e.overrides }
      /\ \A c \in DOMAIN h.overrides : h.overrides[c] = e.overrides[p.pool[c]]
  BY DEF RouterPlan
<1>4. \A c \in DOMAIN h.overrides : h.overrides[c] \in 1 .. h.deadline
  BY <1>2, <1>3 DEF SoundPlan
<1> QED
  BY <1>1, <1>2, <1>3, <1>4 DEF WellFormedPlan, SoundPlan

\* The budgets of a sound plan keep the limits of its endpoints.
LEMMA SoundKeepsLimits ==
  ASSUME NEW p, WrittenPlan(p), SoundPlan(p), NEW uids,
         NEW c \in 1 .. RouterPlan(p, uids).size
  PROVE  LET profile == Catalog[FamilyOf(p.config, p.pool[c])]
             h       == RouterPlan(p, uids)
         IN /\ \A limit \in profile.maxDeadline :
                 h.deadline <= limit /\ BudgetFor(h, c) <= limit
            /\ p.effective.maxOutput <= profile.maxOutput
            /\ h.mode \in profile.modes
<1> DEFINE h == RouterPlan(p, uids)
<1>1. c \in DOMAIN p.pool
  BY DEF WrittenPlan, RouterPlan
<1>2. BudgetFor(h, c) = AllowanceOf(p.effective, p.pool[c])
  BY <1>1, BudgetByPosition
<1>3. p.pool[c] \in Range(p.pool)
  BY <1>1 DEF Range
<1>4. /\ WithinLimits(p.effective, Catalog[FamilyOf(p.config, p.pool[c])], p.pool[c])
      /\ p.effective.deadline = p.deadline
  BY <1>3 DEF SoundPlan, Served
<1>5. h.deadline = p.deadline /\ h.mode = p.effective.mode
  BY DEF RouterPlan
<1> QED
  BY <1>2, <1>4, <1>5 DEF WithinLimits
==============================================================================
