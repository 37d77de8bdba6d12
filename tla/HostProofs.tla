------------------------------ MODULE HostProofs -------------------------------
(***************************************************************************)
(* What holds of every host: any configurations, requests, rollout         *)
(* controls and catalog, whatever registry and emitter it routes with.     *)
(* Plans are sound when they are made and stay so (module PlannerProofs),  *)
(* whatever is loaded afterwards; the router keeps the plan that it was    *)
(* given, and budgets within its candidates'.                              *)
(***************************************************************************)
EXTENDS Host, PlannerProofs, BudgetProofs, FiniteSetTheorems

\* The operators of planning that the host uses through its instances are its own.
LEMMA SamePlanning ==
  /\ \A p, uids : D!RouterPlan(p, uids) = RouterPlan(p, uids)
  /\ \A p : D!WrittenPlan(p) <=> WrittenPlan(p)
  /\ \A p, c : R!BudgetFor(p, c) = BudgetFor(p, c)
  /\ \A config, families : D!ValidConfig(config, families) <=> ValidConfig(config, families)
  /\ \A config, request : D!PlanFor(config, request) = PlanFor(config, request)
  /\ \A config, request : D!Plannable(config, request) <=> Plannable(config, request)
  /\ \A p, controls : D!ForcingAllowed(p, controls) <=> ForcingAllowed(p, controls)
  /\ \A p, controls : D!EffectivePlan(p, controls) = EffectivePlan(p, controls)
  /\ \A S, option : D!IsOptional(option, S) <=> IsOptional(option, S)
<1>1. \A p, uids : D!RouterPlan(p, uids) = RouterPlan(p, uids)
  BY DEF D!RouterPlan, RouterPlan
<1>2. \A p : D!WrittenPlan(p) <=> WrittenPlan(p)
  BY DEF D!WrittenPlan, WrittenPlan
<1>3. \A p, c : R!BudgetFor(p, c) = BudgetFor(p, c)
  BY DEF R!BudgetFor, BudgetFor
<1>4. \A config, families : D!ValidConfig(config, families) <=> ValidConfig(config, families)
  <2>1. \A config : D!Uids(config) = Uids(config)
    BY DEF D!Uids, Uids
  <2>2. \A p : D!ValidPolicy(p) <=> ValidPolicy(p)
    BY DEF D!ValidPolicy, ValidPolicy
  <2>3. \A f : /\ D!IsInjective(f) <=> IsInjective(f)
               /\ D!Range(f) = Range(f)
    BY DEF D!IsInjective, IsInjective, D!Range, Range
  <2>4. \A pool, uids : D!ValidPool(pool, uids) <=> ValidPool(pool, uids)
    BY <2>3 DEF D!ValidPool, ValidPool
  <2> QED
    BY <2>1, <2>2, <2>3, <2>4 DEF D!ValidConfig, ValidConfig
<1>5. \A config, request : D!EffectiveFor(config, request) = EffectiveFor(config, request)
  BY DEF D!EffectiveFor, EffectiveFor, D!EffectiveConfig, EffectiveConfig,
     D!RequestOverrides, RequestOverrides, D!PolicyOf, PolicyOf, D!Or, Or
<1>6. \A config, request : D!PlanFor(config, request) = PlanFor(config, request)
  BY <1>5 DEF D!PlanFor, PlanFor
<1>7. \A config, request : D!Plannable(config, request) <=> Plannable(config, request)
  <2>1. \A config, op : D!PolicyOf(config, op) = PolicyOf(config, op)
    BY DEF D!PolicyOf, PolicyOf
  <2>2. \A request, policy :
          D!OverridesPermitted(request, policy) <=> OverridesPermitted(request, policy)
    BY DEF D!OverridesPermitted, OverridesPermitted, D!RequestOverrides,
       RequestOverrides, D!NoOverrides, NoOverrides
  <2>3. \A e, pool : D!ValidBudgets(e, pool) <=> ValidBudgets(e, pool)
    BY DEF D!ValidBudgets, ValidBudgets, D!Range, Range
  <2>4. \A e, config, pool : D!Served(e, config, pool) <=> Served(e, config, pool)
    BY DEF D!Served, Served, D!FamilyOf, FamilyOf, D!WithinLimits, WithinLimits,
       D!AllowanceOf, AllowanceOf, D!Range, Range
  <2> QED
    BY <1>5, <2>1, <2>2, <2>3, <2>4 DEF D!Plannable, Plannable
<1>8. \A p, controls : D!ForcingAllowed(p, controls) <=> ForcingAllowed(p, controls)
  BY DEF D!ForcingAllowed, ForcingAllowed, D!Range, Range
<1>9. \A p, controls : D!EffectivePlan(p, controls) = EffectivePlan(p, controls)
  BY DEF D!EffectivePlan, EffectivePlan
<1>10. \A S, option : D!IsOptional(option, S) <=> IsOptional(option, S)
  BY DEF D!IsOptional, IsOptional
<1> QED
  BY <1>1, <1>2, <1>3, <1>4, <1>6, <1>7, <1>8, <1>9, <1>10

\* What a step of the router does to the state that the host depends on: the plan
\* stays, time is counted up, and an attempt has the budget it was started with.
LEMMA RouterStepEffect ==
  ASSUME R!RouterStep, elapsed \in Nat
  PROVE  /\ plan' = plan
         /\ cancelled' = cancelled
         /\ pc # "done"
         /\ elapsed' \in Nat
         /\ pc' \in {"credential", "adapter"} =>
              \/ R!StartAttempt
              \/ pc = "credential" /\ index' = index /\ budget' = budget
<1>1. CASE R!AttemptEnds
  <2>1. PICK out \in R!Output : R!AttemptCancelled(out) \/ R!AttemptAnswered(out)
    BY <1>1 DEF R!AttemptEnds
  <2>2. /\ plan' = plan /\ cancelled' = cancelled
        /\ elapsed' = elapsed + out.elapsed
        /\ pc' \in {"done", "answered"}
    BY <2>1 DEF R!AttemptCancelled, R!AttemptAnswered, R!Settle, R!Return
  <2>3. pc \in {"credential", "adapter"} /\ out.elapsed \in Nat
    BY ReportedAssumption DEF R!Output, R!Typed, R!InvokeOutput, R!Reported,
       R!ProviderOutcome
  <2> QED
    BY <2>2, <2>3
<1>2. CASE R!AnswerHandled
  BY <1>2 DEF R!AnswerHandled, R!LateResponse, R!Success, R!FailOver, R!GiveUp,
     R!FailFast, R!InTime, R!Return, R!loop
<1>3. CASE R!StartAttempt
  BY <1>3 DEF R!StartAttempt, R!NextCandidate
<1>4. CASE R!CallAdapter
  BY <1>4 DEF R!CallAdapter, R!loop
<1>5. CASE R!PoolExhausted
  BY <1>5 DEF R!PoolExhausted, R!LoopOver, R!loop
<1>6. CASE R!SchemaReady \/ R!SchemaUnavailable
  BY <1>6 DEF R!SchemaReady, R!SchemaUnavailable, R!Return, R!loop
<1>7. CASE \/ R!CancelledAtHead \/ R!SkipCandidate \/ R!DeadlineElapsed
           \/ R!AdapterMissing
  BY <1>7 DEF R!CancelledAtHead, R!SkipCandidate, R!DeadlineElapsed,
     R!AdapterMissing, R!NextCandidate, R!Return, R!loop
<1> QED
  BY <1>1, <1>2, <1>3, <1>4, <1>5, <1>6, <1>7 DEF R!RouterStep

\* The budget an attempt is started with is within its candidate's.
LEMMA StartedWithin ==
  ASSUME R!StartAttempt, WellFormedPlan(plan), elapsed \in Nat
  PROVE  /\ index' \in 1 .. plan'.size
         /\ budget' \in Nat /\ budget' <= BudgetFor(plan', index')
<1> DEFINE own       == BudgetFor(plan, index)
           available == R!AtLeastOne(R!Remaining - R!Reserve(plan, index))
<1>1. /\ plan' = plan /\ index' = index /\ index \in 1 .. plan.size
      /\ budget' = R!CandidateBudget(plan, index, R!Remaining)
  BY DEF R!StartAttempt, R!NextCandidate, R!Candidate
<1>2. plan.deadline \in Nat /\ plan.base \in Nat /\ plan.size \in Nat
  BY DEF WellFormedPlan
<1>3. \A c \in 1 .. plan.size : BudgetFor(plan, c) \in Nat
  BY DEF WellFormedPlan, BudgetFor
<1>4. R!Reserve(plan, index) \in Int
  BY <1>1, <1>2, <1>3, SamePlanning DEF R!Reserve
<1>5. own \in Nat /\ R!Remaining \in Int
  BY <1>1, <1>2, <1>3 DEF R!Remaining
<1>6. available \in Nat
  BY <1>4, <1>5 DEF R!AtLeastOne
<1>7. budget' = IF own <= available THEN own ELSE available
  BY <1>1, SamePlanning DEF R!CandidateBudget
<1>8. budget' \in Nat /\ budget' <= own
  BY <1>5, <1>6, <1>7
<1> QED
  BY <1>1, <1>8

\* In a well-typed state a plan is what the planner makes of what was written.
LEMMA PlannedIsWritten ==
  TypeOK /\ stage # "idle" => /\ planned.config \in Configs
                              /\ WrittenConfig(planned.config)
                              /\ WrittenPlan(planned)
BY WrittenAssumption, SamePlanning DEF TypeOK, D!TypeOK, D!PlanType

\* While a call is routed, the router holds a well-formed plan.
LEMMA RoutedIsWellFormed ==
  ASSUME TypeOK, HostInv, call # "none"
  PROVE  WellFormedPlan(plan)
<1>1. plan = D!Handed /\ stage # "idle"
  BY DEF TypeOK
<1>2. WrittenPlan(planned) /\ SoundPlan(planned)
  BY <1>1, PlannedIsWritten DEF HostInv
<1> QED
  BY <1>1, <1>2, SoundIsWellFormed, SamePlanning DEF D!Handed

\* With the registry that its plan was made from, the router finds every candidate.
LEMMA OwnRegistryKnows ==
  ASSUME TypeOK, HostInv, call = "routing", OwnRegistry, R!NextCandidate
  PROVE  Known(planned.pool[index])
<1>1. plan = D!Handed /\ stage # "idle"
  BY DEF TypeOK
<1>2. WrittenPlan(planned) /\ SoundPlan(planned)
  BY <1>1, PlannedIsWritten DEF HostInv
<1>3. index \in 1 .. plan.size
  BY DEF R!NextCandidate, R!Candidate
<1>4. index \in DOMAIN planned.pool
  <2>1. D!Handed = RouterPlan(planned, suppressed)
    BY SamePlanning DEF D!Handed
  <2>2. plan.size = Len(planned.pool)
    BY <1>1, <2>1 DEF RouterPlan
  <2>3. planned.pool \in Seq(Uid)
    BY <1>2 DEF WrittenPlan
  <2> QED
    BY <1>3, <2>2, <2>3
<1>5. planned.pool[index] \in Range(planned.pool)
  BY <1>4 DEF Range
<1>6. planned.pool[index] \in Uids(planned.config)
  BY <1>2, <1>5 DEF SoundPlan
<1> QED
  BY <1>6 DEF Known, OwnRegistry

------------------------------------------------------------------------------
\* Loading a configuration touches nothing that is planned or routed.
LEMMA LoadKeepsInv ==
  ASSUME TypeOK, HostInv, Load
  PROVE  TypeOK' /\ HostInv'
<1>1. PICK config \in Loaded : D!Replace(config) \/ D!Rollback(config)
  BY DEF Load
<1>2. config \in Configs
  BY WrittenAssumption
<1>3. UNCHANGED <<invocation, routerVars, surroundings>>
  BY <1>1 DEF Load, D!Replace, D!Rollback, D!invocation, invocation
<1>4. /\ active' = {config} /\ registries' \subseteq registries \cup {config}
      /\ registries \subseteq registries' /\ config \in registries'
      /\ config \in registries \/ ValidConfig(config, Activatable)
  BY <1>1, SamePlanning DEF D!Replace, D!Rollback
<1>5. TypeOK'
  BY <1>2, <1>3, <1>4 DEF TypeOK, D!TypeOK, D!IsOptional, IsOptional, D!Handed,
     invocation, routerVars, surroundings
<1>6. HostInv'
  BY <1>3, <1>4 DEF HostInv, FingerprintNamesThePlan, OwnRegistry, invocation,
     routerVars, surroundings
<1> QED
  BY <1>5, <1>6

\* A plan is sound when it is made, and is fingerprinted as it is.
LEMMA PlanKeepsInv ==
  ASSUME TypeOK, HostInv, Plan
  PROVE  TypeOK' /\ HostInv'
<1>1. PICK config \in Configs, request \in Requests : D!Plan(config, request)
  BY DEF Plan
<1>2. /\ stage = "idle" /\ stage' = "planned" /\ suppressed' = suppressed
      /\ active' = active /\ registries' = registries
      /\ config \in registries \/ ValidConfig(config, DOMAIN Catalog)
      /\ Plannable(config, request)
      /\ planned' = PlanFor(config, request)
  BY <1>1, SamePlanning DEF D!Plan, D!lifecycle
<1>3. fingerprint' = Fingerprint(planned)' /\ UNCHANGED <<routerVars, surroundings>>
  BY DEF Plan
<1>4. call = "none"
  BY <1>2 DEF TypeOK
<1>5. WrittenPlan(planned') /\ SoundPlan(planned') /\ planned'.config = config
  <2>1. WrittenConfig(config) /\ WrittenRequest(request)
    BY WrittenAssumption
  <2>2. PICK families : ValidConfig(config, families)
    BY <1>2 DEF HostInv
  <2>3. planned'.config = config
    BY <1>2 DEF PlanFor
  <2> QED
    BY <1>2, <2>1, <2>2, <2>3, PlansAreSound
<1>6. TypeOK'
  <2>1. D!TypeOK'
    BY <1>1, <1>2, <1>5, SamePlanning DEF TypeOK, D!TypeOK, D!PlanType
  <2> QED
    BY <1>3, <1>4, <2>1 DEF TypeOK, routerVars, surroundings
<1>7. HostInv'
  BY <1>2, <1>3, <1>4, <1>5 DEF HostInv, FingerprintNamesThePlan, routerVars,
     surroundings
<1> QED
  BY <1>6, <1>7

\* Rollout narrows the pool and changes nothing else of the plan.
LEMMA RollOutKeepsInv ==
  ASSUME TypeOK, HostInv, RollOut
  PROVE  TypeOK' /\ HostInv'
<1>1. PICK controls \in Controls : D!RollOut(controls)
  BY DEF RollOut
<1>2. /\ stage = "planned" /\ stage' = "rolled_out"
      /\ ForcingAllowed(planned, controls)
      /\ planned' = EffectivePlan(planned, controls)
      /\ suppressed' = D!SuppressedIn(planned', controls)
      /\ active' = active /\ registries' = registries
  BY <1>1, SamePlanning DEF D!RollOut, D!lifecycle
<1>3. /\ call = "none" /\ fingerprint' = fingerprint
      /\ UNCHANGED <<routerVars, surroundings>>
  BY DEF RollOut
<1>4. WrittenPlan(planned) /\ SoundPlan(planned) /\ planned.config \in Configs
  BY <1>2, PlannedIsWritten DEF HostInv
<1>5. /\ WrittenPlan(planned') /\ SoundPlan(planned')
      /\ planned'.config = planned.config /\ planned'.operation = planned.operation
      /\ planned'.effective = planned.effective
  BY <1>2, <1>4, RolloutNarrows
<1>6. suppressed' \subseteq Uid
  BY <1>2, WrittenAssumption DEF D!SuppressedIn, RolloutControls
<1>7. TypeOK'
  <2>1. D!TypeOK'
    BY <1>2, <1>4, <1>5, <1>6, SamePlanning DEF TypeOK, D!TypeOK, D!PlanType
  <2> QED
    BY <1>3, <2>1 DEF TypeOK, routerVars, surroundings
<1>8. FingerprintNamesThePlan'
  <2>1. fingerprint = Fingerprint(planned)
    BY <1>2 DEF HostInv
  <2>2. CASE controls.forced = {}
    BY <1>2, <1>3, <2>1, <2>2 DEF EffectivePlan, FingerprintNamesThePlan
  <2>3. CASE controls.forced # {}
    <3> DEFINE uid == CHOOSE u \in controls.forced : TRUE
    <3>1. planned'.pool = <<uid>> /\ uid \in Range(planned.pool)
      BY <1>2, <1>4, <2>3 DEF EffectivePlan, ForcingAllowed, WrittenPlan
    <3>2. Len(planned'.pool) = 1 /\ Range(planned'.pool) = {uid}
      <4>1. Len(<<uid>>) = 1 /\ DOMAIN <<uid>> = {1} /\ <<uid>>[1] = uid
        OBVIOUS
      <4>2. Range(<<uid>>) = {uid}
        BY <4>1 DEF Range
      <4> QED
        BY <3>1, <4>1, <4>2
    <3>3. fingerprint.pool = planned.pool
      BY <2>1 DEF Fingerprint
    <3>4. [fingerprint EXCEPT !.pool = planned'.pool] = Fingerprint(planned')
      BY <1>5, <2>1 DEF Fingerprint
    <3> QED
      BY <1>2, <1>3, <3>1, <3>2, <3>3, <3>4 DEF FingerprintNamesThePlan
  <2> QED
    BY <2>2, <2>3
<1>9. ~(Range(planned'.pool) \subseteq suppressed')
  BY <1>1, <1>2, SamePlanning DEF D!RollOut, D!CandidateLeft, D!SuppressedIn,
     D!Range, Range
<1>10. HostInv'
  BY <1>2, <1>3, <1>5, <1>8, <1>9 DEF HostInv, routerVars, surroundings
<1> QED
  BY <1>7, <1>10

\* The end of an invocation, refused or routed.
LEMMA EndKeepsInv ==
  ASSUME TypeOK, HostInv, Refuse \/ Finish
  PROVE  TypeOK' /\ HostInv'
<1>1. /\ D!EndInvocation
      /\ call' = "none" /\ registry' = {} /\ shared' \in BOOLEAN
      /\ pc' = "schema" /\ elapsed' \in Nat
  <2>1. CASE Refuse
    <3>1. D!EndInvocation /\ call = "none" /\ UNCHANGED <<routerVars, surroundings>>
      BY <2>1 DEF Refuse, D!RefuseRollOut
    <3>2. pc' = pc /\ elapsed' = elapsed /\ call' = call /\ registry' = registry
          /\ shared' = shared
      BY <3>1 DEF routerVars, surroundings
    <3>3. pc = "schema"
      BY <3>1 DEF HostInv
    <3> QED
      BY <3>1, <3>2, <3>3 DEF TypeOK, HostInv
  <2>2. CASE Finish
    BY <2>2 DEF Finish, D!Routed, Enter
  <2> QED
    BY <2>1, <2>2
<1>2. /\ stage' = "idle" /\ planned' = D!NoPlan /\ suppressed' = {}
      /\ active' = active /\ registries' = registries
  BY <1>1 DEF D!EndInvocation, D!lifecycle
<1>3. TypeOK'
  BY <1>1, <1>2 DEF TypeOK, D!TypeOK, D!IsOptional, IsOptional
<1>4. HostInv'
  BY <1>1, <1>2 DEF HostInv, FingerprintNamesThePlan
<1> QED
  BY <1>3, <1>4

\* The router is handed the plan as it stands.
LEMMA RouteKeepsInv ==
  ASSUME TypeOK, HostInv, Route
  PROVE  TypeOK' /\ HostInv'
<1>1. /\ stage # "idle" /\ UNCHANGED <<lifecycle, invocation>>
      /\ plan' = D!Handed /\ pc' = "schema" /\ elapsed' = 0
      /\ call' = "routing" /\ shared' \in BOOLEAN
  BY DEF Route, Enter
<1>2. PICK config \in active \cup {planned.config} : registry' = {config}
  BY DEF Route
<1>3. config \in Configs
  BY <1>1, PlannedIsWritten DEF TypeOK, D!TypeOK, D!IsOptional
<1>4. D!Handed' = D!Handed
  BY <1>1 DEF D!Handed, invocation
<1>5. TypeOK'
  BY <1>1, <1>2, <1>3, <1>4 DEF TypeOK, D!TypeOK, D!IsOptional, IsOptional,
     D!PlanType, lifecycle, invocation
<1>6. HostInv'
  BY <1>1 DEF HostInv, FingerprintNamesThePlan, lifecycle, invocation
<1> QED
  BY <1>5, <1>6

\* A step while a call is routed changes nothing of what was planned.
RoutingStep ==
  /\ call = "routing"
  /\ UNCHANGED <<lifecycle, invocation, registry, shared, plan>>
  /\ elapsed' \in Nat
  /\ pc' \in {"credential", "adapter"} =>
       /\ index' \in 1 .. plan'.size
       /\ budget' \in Nat /\ budget' <= BudgetFor(plan', index')

LEMMA RoutingKeepsInv ==
  ASSUME TypeOK, HostInv, RoutingStep,
         \/ call' = "returned" /\ pc' = "done"
         \/ call' = "routing" /\ pc' # "done"
         \/ call' = "raised" /\ pc' # "done" /\ ~OwnRegistry
  PROVE  TypeOK' /\ HostInv'
<1>1. /\ stage # "idle" /\ plan = D!Handed /\ registry # {}
      /\ UNCHANGED <<active, registries, stage, planned, suppressed, fingerprint>>
      /\ UNCHANGED <<registry, shared, plan>>
  BY DEF TypeOK, RoutingStep, lifecycle, invocation
<1>2. D!Handed' = D!Handed
  BY <1>1 DEF D!Handed
<1>3. TypeOK'
  BY <1>1, <1>2 DEF TypeOK, D!TypeOK, D!IsOptional, IsOptional, D!PlanType
<1>4. HostInv'
  BY <1>1 DEF HostInv, RoutingStep, FingerprintNamesThePlan, OwnRegistry
<1> QED
  BY <1>3, <1>4

\* A step of the router keeps its plan and its budget.
LEMMA RouterMovesKeepsInv ==
  ASSUME TypeOK, HostInv, RouterMoves
  PROVE  TypeOK' /\ HostInv'
<1>1. R!RouterStep /\ call = "routing" /\ elapsed \in Nat
  BY DEF RouterMoves, HostInv
<1>2. WellFormedPlan(plan)
  BY <1>1, RoutedIsWellFormed
<1>3. /\ plan' = plan /\ elapsed' \in Nat
      /\ UNCHANGED <<lifecycle, invocation, registry, shared>>
  BY <1>1, RouterStepEffect DEF RouterMoves
<1>4. ASSUME pc' \in {"credential", "adapter"}
      PROVE  /\ index' \in 1 .. plan'.size
         /\ budget' \in Nat /\ budget' <= BudgetFor(plan', index')
  <2>1. CASE R!StartAttempt
    BY <1>1, <1>2, <2>1, StartedWithin
  <2>2. CASE pc = "credential" /\ index' = index /\ budget' = budget
    BY <1>3, <2>2 DEF HostInv
  <2> QED
    BY <1>1, <1>4, <2>1, <2>2, RouterStepEffect
<1>5. RoutingStep
  BY <1>1, <1>3, <1>4 DEF RoutingStep
<1>6. IF pc' = "done" THEN call' = "returned" ELSE call' = call
  BY DEF RouterMoves
<1> QED
  BY <1>1, <1>5, <1>6, RoutingKeepsInv

\* The look-up fails, the caller cancels, or another user of the emitter emits.
LEMMA OthersKeepInv ==
  ASSUME TypeOK, HostInv, RaiseKeyError \/ CallerCancels \/ OtherEmits
  PROVE  TypeOK' /\ HostInv'
<1>1. /\ call = "routing"
      /\ UNCHANGED <<lifecycle, invocation, registry, shared, plan>>
      /\ UNCHANGED <<pc, index, elapsed, budget>>
      /\ call' = call \/ (RaiseKeyError /\ call' = "raised")
  BY DEF RaiseKeyError, CallerCancels, OtherEmits, routerVars, surroundings,
     R!Cancel, R!loop
<1>2. pc # "done" /\ elapsed \in Nat
  BY <1>1 DEF TypeOK, HostInv
<1>3. RoutingStep
  BY <1>1, <1>2 DEF RoutingStep, HostInv
<1>4. RaiseKeyError => ~OwnRegistry
  BY <1>1, OwnRegistryKnows DEF RaiseKeyError, LooksUp
<1> QED
  BY <1>1, <1>2, <1>3, <1>4, RoutingKeepsInv

\* Every step keeps the state's types and the inductive invariant.
LEMMA StepKeepsInv ==
  TypeOK /\ HostInv /\ [Next]_vars => TypeOK' /\ HostInv'
<1> SUFFICES ASSUME TypeOK, HostInv, [Next]_vars
             PROVE  TypeOK' /\ HostInv'
  OBVIOUS
<1>1. CASE UNCHANGED vars
  BY <1>1 DEF vars, lifecycle, invocation, routerVars, surroundings, TypeOK,
     D!TypeOK, D!IsOptional, IsOptional, D!PlanType, D!Handed, HostInv,
     FingerprintNamesThePlan, OwnRegistry
<1>2. CASE Next
  BY <1>2, LoadKeepsInv, PlanKeepsInv, RollOutKeepsInv, EndKeepsInv, RouteKeepsInv,
     RouterMovesKeepsInv, OthersKeepInv DEF Next, HostStep
<1> QED
  BY <1>1, <1>2

\* Nothing is planned, loaded or routed at first.
LEMMA InitHolds == Init => TypeOK /\ HostInv
<1> SUFFICES ASSUME Init
             PROVE  TypeOK /\ HostInv
  OBVIOUS
<1>1. /\ active = {} /\ registries = {} /\ stage = "idle" /\ planned = D!NoPlan
      /\ suppressed = {} /\ call = "none" /\ registry = {} /\ shared = FALSE
  BY DEF Init, D!Init
<1>2. pc = "schema" /\ elapsed = 0
  BY DEF Init, R!Init
<1>3. TypeOK
  BY <1>1, <1>2 DEF TypeOK, D!TypeOK, D!IsOptional, IsOptional
<1>4. HostInv
  BY <1>1, <1>2 DEF HostInv, FingerprintNamesThePlan
<1> QED
  BY <1>3, <1>4

------------------------------------------------------------------------------
\* The host's state is typed and its plans are sound, whatever it loads, plans,
\* rolls out and routes.
THEOREM HostInvariance == Spec => [](TypeOK /\ HostInv)
BY InitHolds, StepKeepsInv, PTL DEF Spec

\* Type correctness of the host.
THEOREM HostTypeCorrect == Spec => []TypeOK
BY HostInvariance, PTL

\* A look-up of the router raises only in a registry other than the one that the
\* plan was made from (endpoints_by_uid in route_invocation).
THEOREM RaisesOnlyElsewhere == Spec => []RaisesOnlyWithAnotherRegistry
<1>1. TypeOK /\ HostInv => RaisesOnlyWithAnotherRegistry
  BY DEF TypeOK, HostInv, SoundPlan, RaisesOnlyWithAnotherRegistry
<1> QED
  BY <1>1, HostInvariance, PTL

\* The fingerprint is that of what is routed, but for the pool of a forced plan
\* (apply_rollout_controls keeps policy_fingerprint).
THEOREM FingerprintIsThePlans == Spec => []FingerprintNamesThePlan
<1>1. HostInv => FingerprintNamesThePlan
  BY DEF HostInv
<1> QED
  BY <1>1, HostInvariance, PTL

\* From the configuration to the call of the adapter: no provider is given more
\* time than its hard limit, or asked for an output mode it does not have.
THEOREM LimitsReachProviders == Spec => []ProviderLimitsHold
<1>1. ASSUME TypeOK, HostInv, call = "routing", pc = "adapter"
      PROVE  LET profile == Catalog[FamilyOf(planned.config, planned.pool[index])]
             IN /\ \A limit \in profile.maxDeadline : budget <= limit
                /\ plan.mode \in profile.modes
  <2> DEFINE profile == Catalog[FamilyOf(planned.config, planned.pool[index])]
  <2>1. stage # "idle" /\ plan = RouterPlan(planned, suppressed)
    BY <1>1, SamePlanning DEF TypeOK, D!Handed
  <2>2. WrittenPlan(planned) /\ SoundPlan(planned)
    BY <1>1, <2>1, PlannedIsWritten DEF HostInv
  <2>3. /\ index \in 1 .. plan.size
        /\ budget \in Nat /\ budget <= BudgetFor(plan, index)
    BY <1>1 DEF HostInv
  <2>4. /\ \A limit \in profile.maxDeadline : BudgetFor(plan, index) <= limit
        /\ plan.mode \in profile.modes
    BY <2>1, <2>2, <2>3, SoundKeepsLimits
  <2>5. BudgetFor(plan, index) \in Nat
    BY <1>1, <2>3, RoutedIsWellFormed DEF WellFormedPlan, BudgetFor
  <2>6. profile.maxDeadline \subseteq Nat
    <3>1. index \in DOMAIN planned.pool
      BY <2>1, <2>2, <2>3 DEF RouterPlan, WrittenPlan
    <3>2. planned.pool[index] \in Range(planned.pool)
      BY <3>1 DEF Range
    <3> QED
      BY <2>2, <3>2, CatalogAssumption
         DEF SoundPlan, Served, CapabilityProfile, IsOptional
  <2> QED
    BY <2>3, <2>4, <2>5, <2>6
<1>2. TypeOK /\ HostInv => ProviderLimitsHold
  BY <1>1 DEF ProviderLimitsHold
<1> QED
  BY <1>2, HostInvariance, PTL

------------------------------------------------------------------------------
(***************************************************************************)
(* What was disabled is called last, if at all: from the rollout controls, *)
(* which leave a candidate, through the router's skips and failovers.      *)
(***************************************************************************)
\* A sequence one longer is a sequence of its elements.
LEMMA OneMore ==
  ASSUME NEW s, s \in Seq(Range(s)), NEW x
  PROVE  /\ Append(s, x) \in Seq(Range(Append(s, x)))
         /\ Len(Append(s, x)) = Len(s) + 1
         /\ DOMAIN Append(s, x) = DOMAIN s \cup {Len(s) + 1}
         /\ \A k \in DOMAIN s : Append(s, x)[k] = s[k]
         /\ Append(s, x)[Len(s) + 1] = x
<1> DEFINE S == Range(s) \cup {x}
           t == Append(s, x)
<1>1. s \in Seq(S)
  OBVIOUS
<1>2. /\ t \in Seq(S) /\ Len(t) = Len(s) + 1
      /\ DOMAIN t = DOMAIN s \cup {Len(s) + 1}
      /\ \A k \in DOMAIN s : t[k] = s[k]
      /\ t[Len(s) + 1] = x
  BY <1>1
<1>3. \A k \in 1 .. Len(t) : t[k] \in Range(t)
  BY <1>2 DEF Range
<1>4. t \in Seq(Range(t))
  BY <1>2, <1>3
<1> QED
  BY <1>2, <1>4

\* Positions and UIDs agree on what is disabled, and something is not.
LEMMA DisabledByPosition ==
  ASSUME TypeOK, HostInv, call # "none"
  PROVE  /\ \A c \in 1 .. plan.size : c \in plan.suppressed <=> Disabled(c)
         /\ \E c \in 1 .. plan.size : ~Disabled(c)
<1>1. stage # "idle" /\ plan = RouterPlan(planned, suppressed)
  BY SamePlanning DEF TypeOK, D!Handed
<1>2. WrittenPlan(planned) /\ SoundPlan(planned)
  BY <1>1, PlannedIsWritten DEF HostInv
<1>3. /\ plan.size = Len(planned.pool)
      /\ plan.suppressed = { c \in DOMAIN planned.pool : planned.pool[c] \in suppressed }
  BY <1>1 DEF RouterPlan
<1>4. planned.pool \in Seq(Uid) /\ planned.pool # <<>>
  BY <1>2 DEF WrittenPlan, SoundPlan
<1>5. DOMAIN planned.pool = 1 .. plan.size /\ 1 \in DOMAIN planned.pool
  BY <1>3, <1>4
<1>6. \E c \in DOMAIN planned.pool : planned.pool[c] \notin suppressed
  BY <1>5 DEF HostInv, Range
<1> QED
  BY <1>3, <1>5, <1>6 DEF Disabled

\* What a step of the router adds to its traces and calls, and where it goes.
LEMMA RouterStepTells ==
  ASSUME R!RouterStep
  PROVE  \/ /\ UNCHANGED <<index, traces, calls>>
            /\ \/ pc' \in {"done", "exhausted"}
               \/ pc = "schema" /\ pc' = "candidate"
               \/ pc = "adapter" /\ pc' = "answered"
               \/ pc = "credential" /\ pc' = "answered"
               \/ R!StartAttempt
         \/ /\ UNCHANGED <<index, calls>> /\ pc' \in {"done", "exhausted"}
            /\ \E t : traces' = Append(traces, t)
         \/ /\ UNCHANGED calls /\ index' = index + 1 /\ pc' = "candidate"
            /\ pc \in {"candidate", "answered"}
            /\ \E t : /\ traces' = Append(traces, t)
                      /\ t.candidate = index
                      /\ R!SkipSuppressed \/ t.code \in RetryableCode
         \/ /\ UNCHANGED <<index, traces>> /\ pc = "credential" /\ pc' = "adapter"
            /\ \E b : calls' = Append(calls, [candidate |-> index, cancelled |-> b])
<1>1. R!RetryableCode = RetryableCode
  BY DEF R!RetryableCode, RetryableCode
<1>2. CASE R!AttemptEnds
  <2>1. PICK out \in R!Output : R!AttemptCancelled(out) \/ R!AttemptAnswered(out)
    BY <1>2 DEF R!AttemptEnds
  <2>2. pc \in {"credential", "adapter"}
    BY <2>1 DEF R!Output
  <2> QED
    BY <2>1, <2>2 DEF R!AttemptCancelled, R!AttemptAnswered, R!Settle, R!Return,
       R!Record
<1>3. CASE R!FailOver
  BY <1>1, <1>3 DEF R!FailOver, R!InTime, R!Record, R!AttemptTrace,
     R!FailoverRetryable
<1>4. CASE R!LateResponse \/ R!Success \/ R!GiveUp \/ R!FailFast
  BY <1>4 DEF R!LateResponse, R!Success, R!GiveUp, R!FailFast, R!InTime, R!Record,
     R!Return
<1>5. CASE R!SkipCandidate
  BY <1>5 DEF R!SkipCandidate, R!NextCandidate, R!SkipTrace
<1>6. CASE R!CallAdapter
  BY <1>6 DEF R!CallAdapter
<1>7. CASE R!StartAttempt
  BY <1>7 DEF R!StartAttempt, R!history
<1>8. CASE R!SchemaReady \/ R!PoolExhausted
  BY <1>8 DEF R!SchemaReady, R!PoolExhausted, R!history
<1>9. CASE \/ R!SchemaUnavailable \/ R!CancelledAtHead \/ R!DeadlineElapsed
           \/ R!AdapterMissing
  BY <1>9 DEF R!SchemaUnavailable, R!CancelledAtHead, R!DeadlineElapsed,
     R!AdapterMissing, R!Return
<1> QED
  BY <1>2, <1>3, <1>4, <1>5, <1>6, <1>7, <1>8, <1>9 DEF R!RouterStep, R!AnswerHandled

\* A call about to be routed has nothing behind it.
LEMMA NothingBehind ==
  /\ pc = "schema" /\ index = 1 /\ traces = <<>> /\ calls = <<>> => BehindInv
  /\ pc' = "schema" /\ index' = 1 /\ traces' = <<>> /\ calls' = <<>> => BehindInv'
<1>1. Range(<<>>) = {} /\ <<>> \in Seq({}) /\ Len(<<>>) = 0 /\ DOMAIN <<>> = {}
  BY DEF Range
<1>2. <<>> \in Seq(Range(<<>>))
  BY <1>1
<1>3. ASSUME pc = "schema", index = 1, traces = <<>>, calls = <<>>
      PROVE  BehindInv
  <2>1. traces \in Seq(Range(traces)) /\ calls \in Seq(Range(calls))
    BY <1>2, <1>3, Zenon
  <2> QED
    BY <1>1, <1>3, <2>1 DEF BehindInv, DisabledIsLastResort
<1>4. ASSUME pc' = "schema", index' = 1, traces' = <<>>, calls' = <<>>
      PROVE  BehindInv'
  <2>1. traces' \in Seq(Range(traces)') /\ calls' \in Seq(Range(calls)')
    <3>1. Range(traces)' = {} /\ Range(calls)' = {}
      BY <1>1, <1>4 DEF Range
    <3> QED
      BY <1>1, <1>4, <3>1
  <2> QED
    BY <1>1, <1>4, <2>1 DEF BehindInv, DisabledIsLastResort
<1> QED
  BY <1>3, <1>4

\* With traces that only grow and the same calls, the last resort stays one.
LEMMA LastResortKept ==
  ASSUME DisabledIsLastResort, UNCHANGED <<planned, suppressed, calls>>,
         DOMAIN traces \subseteq DOMAIN traces',
         \A k \in DOMAIN traces : traces'[k] = traces[k]
  PROVE  DisabledIsLastResort'
BY DEF DisabledIsLastResort, Disabled

\* A step of the router keeps what it left behind.
LEMMA RouterMovesBehind ==
  ASSUME TypeOK, HostInv, BehindInv, RouterMoves
  PROVE  BehindInv'
<1>1. /\ R!RouterStep /\ call = "routing" /\ elapsed \in Nat /\ call' # "none"
      /\ UNCHANGED <<planned, suppressed>>
  BY DEF RouterMoves, HostInv, invocation
<1>2. plan' = plan
  BY <1>1, RouterStepEffect
<1>3. \A c : Disabled(c)' <=> Disabled(c)
  BY <1>1 DEF Disabled
<1>4. /\ \A c \in 1 .. plan.size : c \in plan.suppressed <=> Disabled(c)
      /\ \E c \in 1 .. plan.size : ~Disabled(c)
  BY <1>1, DisabledByPosition
<1>5. plan.size \in Nat
  BY <1>1, RoutedIsWellFormed DEF WellFormedPlan
<1>6. CASE /\ UNCHANGED <<index, traces, calls>>
           /\ \/ pc' \in {"done", "exhausted"}
              \/ pc = "schema" /\ pc' = "candidate"
              \/ pc = "adapter" /\ pc' = "answered"
              \/ pc = "credential" /\ pc' = "answered"
              \/ R!StartAttempt
  <2>1. DisabledIsLastResort'
    BY <1>1, <1>6, LastResortKept DEF BehindInv
  <2>2. CASE R!StartAttempt
    <3>1. /\ pc = "candidate" /\ pc' = "credential"
          /\ index \in 1 .. plan.size /\ ~R!SkipSuppressed
      BY <2>2 DEF R!StartAttempt, R!NextCandidate, R!Candidate
    <3>2. Disabled(index) => index = plan.size
      BY <1>4, <1>5, <3>1 DEF R!SkipSuppressed
    <3> QED
      BY <1>1, <1>2, <1>3, <1>6, <2>1, <3>1, <3>2 DEF BehindInv
  <2>3. CASE ~R!StartAttempt
    BY <1>1, <1>2, <1>3, <1>6, <2>1, <2>3 DEF BehindInv
  <2> QED
    BY <2>2, <2>3
<1>7. CASE /\ UNCHANGED <<index, calls>> /\ pc' \in {"done", "exhausted"}
           /\ \E t : traces' = Append(traces, t)
  <2>1. /\ traces' \in Seq(Range(traces)')
        /\ DOMAIN traces \subseteq DOMAIN traces'
        /\ \A k \in DOMAIN traces : traces'[k] = traces[k]
    BY <1>7, OneMore DEF BehindInv
  <2>2. DisabledIsLastResort'
    BY <1>1, <1>7, <2>1, LastResortKept DEF BehindInv
  <2> QED
    BY <1>1, <1>7, <2>1, <2>2 DEF BehindInv
<1>8. CASE /\ UNCHANGED calls /\ index' = index + 1 /\ pc' = "candidate"
           /\ pc \in {"candidate", "answered"}
           /\ \E t : /\ traces' = Append(traces, t)
                     /\ t.candidate = index
                     /\ R!SkipSuppressed \/ t.code \in RetryableCode
  <2>1. PICK t : /\ traces' = Append(traces, t) /\ t.candidate = index
                 /\ R!SkipSuppressed \/ t.code \in RetryableCode
    BY <1>8
  <2>2. index \in Nat /\ Len(traces) = index - 1
    BY <1>8 DEF BehindInv
  <2>3. /\ traces' \in Seq(Range(traces)') /\ Len(traces') = Len(traces) + 1
        /\ DOMAIN traces' = DOMAIN traces \cup {Len(traces) + 1}
        /\ \A k \in DOMAIN traces : traces'[k] = traces[k]
        /\ traces'[Len(traces) + 1] = t
    BY <2>1, OneMore DEF BehindInv
  <2>4. DisabledIsLastResort'
    BY <1>1, <1>8, <2>3, LastResortKept DEF BehindInv
  <2>5. R!SkipSuppressed => Disabled(index)
    <3>1. R!SkipSuppressed => index \in plan.suppressed /\ plan.suppressed \subseteq 1 .. plan.size
      BY <1>1, RoutedIsWellFormed DEF R!SkipSuppressed, WellFormedPlan
    <3> QED
      BY <1>4, <3>1
  <2>6. \A k \in DOMAIN traces' :
          /\ traces'[k].candidate = k
          /\ Disabled(k)' \/ traces'[k].code \in RetryableCode
    BY <1>3, <1>8, <2>1, <2>2, <2>3, <2>5 DEF BehindInv
  <2>7. index' \in Nat /\ Len(traces') = index' - 1
    BY <1>8, <2>2, <2>3
  <2> QED
    BY <1>1, <1>8, <2>3, <2>4, <2>6, <2>7 DEF BehindInv
<1>9. CASE /\ UNCHANGED <<index, traces>> /\ pc = "credential" /\ pc' = "adapter"
           /\ \E b : calls' = Append(calls, [candidate |-> index, cancelled |-> b])
  <2>1. PICK b : calls' = Append(calls, [candidate |-> index, cancelled |-> b])
    BY <1>9
  <2>2. /\ calls' \in Seq(Range(calls)')
        /\ DOMAIN calls' = DOMAIN calls \cup {Len(calls) + 1}
        /\ \A k \in DOMAIN calls : calls'[k] = calls[k]
        /\ calls'[Len(calls) + 1] = [candidate |-> index, cancelled |-> b]
    BY <2>1, OneMore DEF BehindInv
  <2>3. /\ index \in Nat /\ Len(traces) = index - 1
        /\ Disabled(index) => index = plan.size
        /\ \A k \in DOMAIN traces :
             traces[k].candidate = k /\ (Disabled(k) \/ traces[k].code \in RetryableCode)
    BY <1>9 DEF BehindInv
  <2>4. ASSUME Disabled(index)
        PROVE  \E j \in DOMAIN traces : /\ traces[j].candidate < index
                                        /\ ~Disabled(traces[j].candidate)
                                        /\ traces[j].code \in RetryableCode
    <3>1. PICK c \in 1 .. plan.size : ~Disabled(c)
      BY <1>4
    <3>2. c < index
      BY <1>5, <2>3, <2>4, <3>1
    <3>3. DOMAIN traces = 1 .. Len(traces)
      BY DEF BehindInv
    <3>4. c \in DOMAIN traces
      BY <1>5, <2>3, <3>1, <3>2, <3>3
    <3> QED
      BY <2>3, <3>1, <3>2, <3>4
  <2>5. DisabledIsLastResort'
    <3> SUFFICES ASSUME NEW k \in DOMAIN calls', Disabled(calls'[k].candidate)
                 PROVE  \E j \in DOMAIN traces :
                          /\ traces[j].candidate < calls'[k].candidate
                          /\ ~Disabled(traces[j].candidate)
                          /\ traces[j].code \in RetryableCode
      BY <1>1, <1>9 DEF DisabledIsLastResort, Disabled
    <3>1. CASE k \in DOMAIN calls
      <4>1. calls'[k] = calls[k]
        BY <2>2, <3>1
      <4> QED
        BY <3>1, <4>1 DEF BehindInv, DisabledIsLastResort
    <3>2. CASE k = Len(calls) + 1
      <4>1. calls'[k].candidate = index
        BY <2>2, <3>2
      <4> QED
        BY <2>4, <4>1
    <3> QED
      BY <2>2, <3>1, <3>2
  <2> QED
    BY <1>1, <1>2, <1>3, <1>9, <2>2, <2>5 DEF BehindInv
<1> QED
  BY <1>1, <1>6, <1>7, <1>8, <1>9, RouterStepTells

\* Every step keeps what the router left behind.
LEMMA StepKeepsBehind ==
  TypeOK /\ HostInv /\ BehindInv /\ [Next]_vars => BehindInv'
<1> SUFFICES ASSUME TypeOK, HostInv, BehindInv, [Next]_vars
             PROVE  BehindInv'
  OBVIOUS
<1>1. CASE /\ UNCHANGED <<planned, suppressed, plan, pc, index, traces, calls>>
           /\ call' = call \/ call' # "none"
  BY <1>1 DEF BehindInv, DisabledIsLastResort, Disabled
<1>2. CASE Load \/ RaiseKeyError \/ CallerCancels \/ OtherEmits \/ UNCHANGED vars
  <2>1. CASE Load
    <3>1. UNCHANGED <<invocation, routerVars, surroundings>>
      BY <2>1 DEF Load, D!Replace, D!Rollback, D!invocation, invocation
    <3> QED
      BY <1>1, <3>1 DEF invocation, routerVars, surroundings
  <2>2. CASE RaiseKeyError \/ CallerCancels \/ OtherEmits \/ UNCHANGED vars
    BY <1>1, <2>2 DEF RaiseKeyError, CallerCancels, OtherEmits, R!Cancel, R!loop,
       R!history, vars, invocation, routerVars, surroundings
  <2> QED
    BY <1>2, <2>1, <2>2
<1>3. CASE Plan \/ RollOut \/ Refuse
  <2>1. call = "none" /\ UNCHANGED routerVars
    BY <1>3 DEF Plan, D!Plan, RollOut, Refuse, TypeOK
  <2> QED
    BY <2>1, NothingBehind DEF BehindInv, HostInv, routerVars
<1>4. CASE Route \/ Finish
  BY <1>4, NothingBehind DEF Route, Finish, Enter
<1>5. CASE RouterMoves
  BY <1>5, RouterMovesBehind
<1> QED
  BY <1>2, <1>3, <1>4, <1>5 DEF Next, HostStep

------------------------------------------------------------------------------
(***************************************************************************)
(* Telemetry: the emitter's log tells the call's events, whoever else      *)
(* writes to it.                                                           *)
(***************************************************************************)
\* Two finite sets with nothing in common are counted together.
LEMMA CountBoth ==
  ASSUME NEW A, NEW B, IsFiniteSet(A), IsFiniteSet(B), A \cap B = {}
  PROVE  Cardinality(A \cup B) = Cardinality(A) + Cardinality(B)
<1>1. Cardinality(A) \in Nat /\ Cardinality(B) \in Nat
  BY FS_CardinalityType
<1>2. Cardinality(A \cup B) = Cardinality(A) + Cardinality(B) - Cardinality(A \cap B)
  BY FS_Union
<1>3. Cardinality(A \cap B) = 0
  BY FS_EmptySet
<1> QED
  BY <1>1, <1>2, <1>3

\* An interval is counted by its length.
LEMMA CountInterval ==
  ASSUME NEW n \in Nat, NEW k \in Nat
  PROVE  IsFiniteSet(n + 1 .. n + k) /\ Cardinality(n + 1 .. n + k) = k
<1> DEFINE a == n + 1
           b == n + k
<1>1. a \in Int /\ b \in Int /\ (IF a > b THEN 0 ELSE b - a + 1) = k
  OBVIOUS
<1>2. IsFiniteSet(a .. b) /\ Cardinality(a .. b) = IF a > b THEN 0 ELSE b - a + 1
  <2> HIDE DEF a, b
  <2> QED
    BY <1>1, FS_Interval
<1> QED
  BY <1>1, <1>2

\* There is a count of own events up to any event.
LEMMA CountIsFinite ==
  ASSUME NEW log, NEW j \in Nat
  PROVE  IsFiniteSet({i \in 1 .. j : IsOwn(log[i])}) /\ OwnUpTo(log, j) \in Nat
<1>1. IsFiniteSet(1 .. j)
  BY FS_Interval
<1>2. {i \in 1 .. j : IsOwn(log[i])} \in SUBSET (1 .. j)
  OBVIOUS
<1>3. IsFiniteSet({i \in 1 .. j : IsOwn(log[i])})
  BY <1>1, <1>2, FS_Subset
<1> QED
  BY <1>3, FS_CardinalityType DEF OwnUpTo

\* What a log has more changes nothing of the count up to an earlier event.
LEMMA CountUpTo ==
  ASSUME NEW S, NEW log \in Seq(S), NEW more \in Seq(S), NEW j \in 0 .. Len(log)
  PROVE  OwnUpTo(log \o more, j) = OwnUpTo(log, j)
<1>1. \A i \in 1 .. j : (log \o more)[i] = log[i]
  OBVIOUS
<1>2. {i \in 1 .. j : IsOwn((log \o more)[i])} = {i \in 1 .. j : IsOwn(log[i])}
  BY <1>1
<1> QED
  BY <1>2 DEF OwnUpTo

\* Own events that follow a log are counted on from it.
LEMMA CountOn ==
  ASSUME NEW S, NEW log \in Seq(S), NEW more \in Seq(S),
         \A k \in 1 .. Len(more) : IsOwn(more[k]), NEW k \in 0 .. Len(more)
  PROVE  OwnUpTo(log \o more, Len(log) + k) = OwnUpTo(log, Len(log)) + k
<1> DEFINE all    == log \o more
           before == {i \in 1 .. Len(log) : IsOwn(log[i])}
           after  == Len(log) + 1 .. Len(log) + k
<1>1. /\ \A i \in 1 .. Len(log) : all[i] = log[i]
      /\ \A i \in after : i - Len(log) \in 1 .. Len(more) /\ all[i] = more[i - Len(log)]
  OBVIOUS
<1>2. {i \in 1 .. Len(log) + k : IsOwn(all[i])} = before \cup after
  BY <1>1
<1>3. before \cap after = {}
  OBVIOUS
<1>4. IsFiniteSet(before)
  <2>1. Len(log) \in Nat
    OBVIOUS
  <2> QED
    BY <2>1, CountIsFinite
<1>5. IsFiniteSet(after) /\ Cardinality(after) = k
  BY CountInterval
<1>6. Cardinality(before \cup after) = Cardinality(before) + k
  <2> HIDE DEF before, after
  <2> QED
    BY <1>3, <1>4, <1>5, CountBoth
<1> QED
  BY <1>2, <1>6 DEF OwnUpTo

\* An event of somebody else's takes nothing from the story.
LEMMA ForeignTellsNothing ==
  ASSUME NEW S, NEW log \in Seq(S), NEW T, NEW story \in Seq(T), Tells(log, story)
  PROVE  Tells(Append(log, ForeignEvent), story)
<1> DEFINE U   == S \cup {ForeignEvent}
           all == Append(log, ForeignEvent)
           n   == Len(log)
<1>1. ~IsOwn(ForeignEvent)
  BY DEF IsOwn, ForeignEvent
<1>2. log \in Seq(U) /\ <<ForeignEvent>> \in Seq(U)
  OBVIOUS
<1>3. /\ all = log \o <<ForeignEvent>>
      /\ Len(all) = n + 1 /\ n \in Nat
      /\ DOMAIN all = 1 .. n + 1 /\ DOMAIN log = 1 .. n
      /\ all[n + 1] = ForeignEvent
      /\ \A i \in 1 .. n : all[i] = log[i]
  <2> HIDE DEF U
  <2> QED
    BY <1>2
<1>4. ASSUME NEW j \in 0 .. n
      PROVE  OwnUpTo(all, j) = OwnUpTo(log, j)
  <2>1. OwnUpTo(log \o <<ForeignEvent>>, j) = OwnUpTo(log, j)
    <3> HIDE DEF U, all
    <3> QED
      BY <1>2, CountUpTo
  <2> QED
    BY <1>3, <2>1
<1>5. OwnUpTo(all, n + 1) = OwnUpTo(all, n)
  <2>1. {i \in 1 .. n + 1 : IsOwn(all[i])} = {i \in 1 .. n : IsOwn(all[i])}
    <3> HIDE DEF all, n
    <3> QED
      BY <1>1, <1>3
  <2> QED
    BY <2>1 DEF OwnUpTo
<1>6. /\ OwnUpTo(log, n) = Len(story)
      /\ \A j \in 1 .. n : IsOwn(log[j]) => log[j].event = story[OwnUpTo(log, j)]
  BY <1>3 DEF Tells
<1> HIDE DEF all, n
<1>7. OwnUpTo(all, Len(all)) = Len(story)
  BY <1>3, <1>4, <1>5, <1>6
<1>8. ASSUME NEW j \in DOMAIN all, IsOwn(all[j])
      PROVE  all[j].event = story[OwnUpTo(all, j)]
  <2>1. j \in 1 .. n
    BY <1>1, <1>3, <1>8
  <2> QED
    BY <1>3, <1>4, <1>6, <1>8, <2>1
<1> QED
  BY <1>7, <1>8 DEF Tells, all

\* A call's next events, emitted in order, tell its story on.
LEMMA OwnTellsOn ==
  ASSUME NEW S, NEW log \in Seq(S), NEW T, NEW story \in Seq(T), NEW next \in Seq(T),
         Tells(log, story)
  PROVE  Tells(log \o [k \in 1 .. Len(next) |-> Own(next[k])], story \o next)
<1> DEFINE more == [k \in 1 .. Len(next) |-> Own(next[k])]
           U    == S \cup { Own(t) : t \in T }
           all  == log \o more
           n    == Len(log)
<1>1. /\ more \in Seq(U) /\ Len(more) = Len(next) /\ log \in Seq(U)
      /\ \A k \in 1 .. Len(more) : more[k] = Own(next[k])
  OBVIOUS
<1>2. \A k \in 1 .. Len(more) : IsOwn(more[k]) /\ more[k].event = next[k]
  BY <1>1 DEF IsOwn, Own
<1>3. n \in Nat /\ Len(next) \in Nat /\ Len(story) \in Nat
  OBVIOUS
<1>4. /\ Len(all) = n + Len(next)
      /\ DOMAIN all = 1 .. n + Len(next) /\ DOMAIN log = 1 .. n
      /\ \A i \in 1 .. n : all[i] = log[i]
      /\ \A k \in 1 .. Len(next) : all[n + k] = more[k]
  <2> HIDE DEF U, more
  <2>1. Len(log \o more) = n + Len(more) /\ DOMAIN (log \o more) = 1 .. n + Len(more)
    <3>1. log \in Seq(U) /\ more \in Seq(U)
      BY <1>1
    <3> QED
      BY <3>1
  <2>2. \A i \in 1 .. n + Len(more) :
          (log \o more)[i] = IF i <= n THEN log[i] ELSE more[i - n]
    BY <1>1
  <2>3. \A k \in 1 .. Len(more) : (log \o more)[n + k] = more[k]
    <3> SUFFICES ASSUME NEW k \in 1 .. Len(more)
                 PROVE  (log \o more)[n + k] = more[k]
      OBVIOUS
    <3>1. n + k \in 1 .. n + Len(more) /\ ~(n + k <= n) /\ (n + k) - n = k
      BY <1>1, <1>3
    <3> QED
      BY <2>2, <3>1
  <2>4. DOMAIN log = 1 .. n /\ \A i \in 1 .. n : (log \o more)[i] = log[i]
    BY <1>1
  <2> QED
    BY <1>1, <2>1, <2>3, <2>4
<1>5. /\ \A j \in 0 .. n : OwnUpTo(all, j) = OwnUpTo(log, j) /\ OwnUpTo(log, j) \in Nat
      /\ \A k \in 0 .. Len(next) : OwnUpTo(all, n + k) = OwnUpTo(log, n) + k
  <2> HIDE DEF U, more
  <2>1. log \in Seq(U) /\ more \in Seq(U)
    BY <1>1
  <2>2. \A j \in 0 .. n : OwnUpTo(all, j) = OwnUpTo(log, j)
    BY <2>1, CountUpTo
  <2>3. \A j \in 0 .. n : OwnUpTo(log, j) \in Nat
    <3>1. \A j \in Nat : OwnUpTo(log, j) \in Nat
      BY CountIsFinite
    <3> QED
      BY <1>3, <3>1
  <2>4. \A k \in 0 .. Len(next) : OwnUpTo(all, n + k) = OwnUpTo(log, n) + k
    BY <1>1, <1>2, <2>1, CountOn
  <2> QED
    BY <2>2, <2>3, <2>4
<1>6. /\ OwnUpTo(log, n) = Len(story)
      /\ \A j \in 1 .. n : IsOwn(log[j]) => log[j].event = story[OwnUpTo(log, j)]
  BY <1>4 DEF Tells
<1> HIDE DEF all, n, more
<1>7. OwnUpTo(all, Len(all)) = Len(story \o next)
  <2>1. Len(story \o next) = Len(story) + Len(next)
    OBVIOUS
  <2> QED
    BY <1>3, <1>4, <1>5, <1>6, <2>1
<1>8. ASSUME NEW j \in 1 .. n, IsOwn(all[j])
      PROVE  all[j].event = (story \o next)[OwnUpTo(all, j)]
  <2>1. /\ all[j] = log[j] /\ OwnUpTo(all, j) = OwnUpTo(log, j)
        /\ all[j].event = story[OwnUpTo(log, j)]
    <3>1. all[j] = log[j]
      BY <1>4
    <3>2. j \in 0 .. n
      BY <1>3
    <3> QED
      BY <1>5, <1>6, <1>8, <3>1, <3>2
  <2>2. OwnUpTo(log, j) \in 1 .. Len(story)
    <3>1. OwnUpTo(log, j) <= OwnUpTo(log, n)
      <4> DEFINE early == {i \in 1 .. j : IsOwn(log[i])}
                 every == {i \in 1 .. n : IsOwn(log[i])}
      <4>1. IsFiniteSet(every)
        BY <1>3, CountIsFinite
      <4>2. early \in SUBSET every
        BY <1>3
      <4> QED
        BY <4>1, <4>2, FS_Subset DEF OwnUpTo
    <3>2. OwnUpTo(log, j) # 0
      <4> DEFINE early == {i \in 1 .. j : IsOwn(log[i])}
      <4>1. IsFiniteSet(early) /\ j \in early
        BY <1>3, <1>8, <2>1, CountIsFinite
      <4> QED
        BY <4>1, FS_EmptySet DEF OwnUpTo
    <3> QED
      BY <1>3, <1>5, <1>6, <3>1, <3>2
  <2>3. \A i \in 1 .. Len(story) : (story \o next)[i] = story[i]
    OBVIOUS
  <2> QED
    BY <2>1, <2>2, <2>3
<1>9. ASSUME NEW k \in 1 .. Len(next)
      PROVE  all[n + k].event = (story \o next)[OwnUpTo(all, n + k)]
  <2>1. OwnUpTo(all, n + k) = Len(story) + k
    BY <1>3, <1>5, <1>6
  <2>2. (story \o next)[Len(story) + k] = next[k]
    OBVIOUS
  <2>3. all[n + k].event = next[k]
    BY <1>1, <1>2, <1>4
  <2> QED
    BY <2>1, <2>2, <2>3
<1>10. \A j \in 1 .. n + Len(next) :
         j \in 1 .. n \/ \E k \in 1 .. Len(next) : j = n + k
  <2> SUFFICES ASSUME NEW j \in 1 .. n + Len(next), j \notin 1 .. n
               PROVE  j - n \in 1 .. Len(next) /\ j = n + (j - n)
    OBVIOUS
  <2> QED
    BY <1>3
<1>11. ASSUME NEW j \in DOMAIN all, IsOwn(all[j])
       PROVE  all[j].event = (story \o next)[OwnUpTo(all, j)]
  <2>1. CASE j \in 1 .. n
    BY <1>8, <1>11, <2>1
  <2>2. CASE \E k \in 1 .. Len(next) : j = n + k
    BY <1>9, <2>2
  <2> QED
    BY <1>4, <1>10, <2>1, <2>2
<1> QED
  BY <1>7, <1>11 DEF Tells, all, more

\* A sequence of anything is one of its own elements.
LEMMA OfItsElements ==
  ASSUME NEW S, NEW s \in Seq(S)
  PROVE  s \in Seq(Range(s))
<1>1. \A k \in 1 .. Len(s) : s[k] \in Range(s)
  BY DEF Range
<1> QED
  BY <1>1

\* No event of the deadline check.
Quiet(story) == \A k \in DOMAIN story : story[k].family # "deadline_exceeded"

\* A step of the router only ever adds to its events, at the end; only the deadline
\* check adds one of its own.
LEMMA RouterStepEmits ==
  ASSUME R!RouterStep, events \in Seq(Range(events))
  PROVE  \E T : \E next \in Seq(T) :
           /\ events \in Seq(T) /\ events' = events \o next
           /\ R!DeadlineElapsed \/ Quiet(next)
<1> DEFINE Grown == \E T : \E next \in Seq(T) :
                      /\ events \in Seq(T) /\ events' = events \o next
                      /\ R!DeadlineElapsed \/ Quiet(next)
           Other(e) == R!DeadlineElapsed \/ e.family # "deadline_exceeded"
<1> HIDE DEF Other
<1>1. ASSUME UNCHANGED events
      PROVE  Grown
  <2>1. <<>> \in Seq(Range(events)) /\ events' = events \o <<>> /\ Quiet(<<>>)
    BY <1>1 DEF Quiet
  <2> QED
    BY <2>1
<1>2. ASSUME NEW e, events' = Append(events, e), Other(e)
      PROVE  Grown
  <2> DEFINE T == Range(events) \cup {e}
  <2>1. events \in Seq(T) /\ <<e>> \in Seq(T) /\ Append(events, e) = events \o <<e>>
    OBVIOUS
  <2>2. DOMAIN <<e>> = {1} /\ <<e>>[1] = e
    OBVIOUS
  <2>3. R!DeadlineElapsed \/ Quiet(<<e>>)
    BY <1>2, <2>2 DEF Other, Quiet
  <2> QED
    BY <1>2, <2>1, <2>3
<1>3. ASSUME NEW e, NEW f, events' = events \o <<e, f>>, Other(e), Other(f)
      PROVE  Grown
  <2> DEFINE T == Range(events) \cup {e, f}
  <2>1. events \in Seq(T) /\ <<e, f>> \in Seq(T)
    OBVIOUS
  <2>2. \A k \in DOMAIN <<e, f>> : <<e, f>>[k] \in {e, f}
    OBVIOUS
  <2>3. R!DeadlineElapsed \/ Quiet(<<e, f>>)
    BY <1>3, <2>2 DEF Other, Quiet
  <2> QED
    BY <1>3, <2>1, <2>3
<1>4. ASSUME NEW e, NEW f, NEW g, events' = events \o <<e, f, g>>,
             Other(e), Other(f), Other(g)
      PROVE  Grown
  <2> DEFINE T == Range(events) \cup {e, f, g}
  <2>1. events \in Seq(T) /\ <<e, f, g>> \in Seq(T)
    OBVIOUS
  <2>2. \A k \in DOMAIN <<e, f, g>> : <<e, f, g>>[k] \in {e, f, g}
    OBVIOUS
  <2>3. R!DeadlineElapsed \/ Quiet(<<e, f, g>>)
    BY <1>4, <2>2 DEF Other, Quiet
  <2> QED
    BY <1>4, <2>1, <2>3
<1>5. ASSUME NEW e, NEW f, NEW g, NEW h, events' = events \o <<e, f, g, h>>,
             Other(e), Other(f), Other(g), Other(h)
      PROVE  Grown
  <2> DEFINE T == Range(events) \cup {e, f, g, h}
  <2>1. events \in Seq(T) /\ <<e, f, g, h>> \in Seq(T)
    OBVIOUS
  <2>2. \A k \in DOMAIN <<e, f, g, h>> : <<e, f, g, h>>[k] \in {e, f, g, h}
    OBVIOUS
  <2>3. R!DeadlineElapsed \/ Quiet(<<e, f, g, h>>)
    BY <1>5, <2>2 DEF Other, Quiet
  <2> QED
    BY <1>5, <2>1, <2>3
<1>6. \A c : /\ Other(R!Event("failure", c)) /\ Other(R!Event("cancellation", c))
             /\ Other(R!Event("endpoint_suppressed", c))
             /\ Other(R!Event("pool_attempt", c)) /\ Other(R!Event("success", c))
             /\ Other(R!Event("late_response_discarded", c))
             /\ Other(R!Event("pool_exhausted", c))
  BY DEF Other, R!Event
<1> SUFFICES Grown
  OBVIOUS
<1> HIDE DEF Grown
<1>7. CASE R!SchemaReady \/ R!StartAttempt \/ R!CallAdapter
  BY <1>1, <1>7 DEF R!SchemaReady, R!StartAttempt, R!CallAdapter, R!history
<1>8. CASE R!SchemaUnavailable \/ R!SkipCandidate \/ R!AdapterMissing \/ R!PoolExhausted
  BY <1>2, <1>6, <1>8 DEF R!SchemaUnavailable, R!SkipCandidate, R!AdapterMissing,
     R!PoolExhausted
<1>9. CASE R!CancelledAtHead
  BY <1>3, <1>6, <1>9 DEF R!CancelledAtHead
<1>10. CASE R!DeadlineElapsed
  BY <1>3, <1>10 DEF R!DeadlineElapsed, Other
<1>11. CASE R!AttemptEnds
  <2>1. CASE \E out \in R!Output : R!AttemptCancelled(out)
    BY <1>5, <1>6, <2>1 DEF R!AttemptCancelled
  <2>2. CASE \E out \in R!Output : R!AttemptAnswered(out)
    BY <1>1, <2>2 DEF R!AttemptAnswered
  <2> QED
    BY <1>11, <2>1, <2>2 DEF R!AttemptEnds
<1>12. CASE R!FailOver \/ R!GiveUp
  BY <1>2, <1>6, <1>12 DEF R!FailOver, R!GiveUp
<1>13. CASE R!LateResponse
  BY <1>4, <1>6, <1>13 DEF R!LateResponse
<1>14. CASE R!Success \/ R!FailFast
  BY <1>3, <1>6, <1>14 DEF R!Success, R!FailFast
<1> QED
  BY <1>7, <1>8, <1>9, <1>10, <1>11, <1>12, <1>13, <1>14
     DEF R!RouterStep, R!AnswerHandled

\* A call about to be routed has emitted nothing.
LEMMA NothingEmitted ==
  ASSUME NEW log, log \in {<<>>, <<ForeignEvent>>}
  PROVE  /\ log \in Seq(Range(log)) /\ <<>> \in Seq(Range(<<>>))
         /\ Tells(log, <<>>)
         /\ log = <<>> => Alone(log)
<1>1. Tells(<<>>, <<>>)
  <2>1. Len(<<>>) = 0 /\ DOMAIN <<>> = {} /\ 1 .. 0 = {}
    OBVIOUS
  <2>2. OwnUpTo(<<>>, 0) = 0
    <3>1. {i \in 1 .. 0 : IsOwn(<<>>[i])} = {}
      OBVIOUS
    <3> QED
      BY <3>1, FS_EmptySet DEF OwnUpTo
  <2> QED
    BY <2>1, <2>2 DEF Tells
<1>2. Tells(<<ForeignEvent>>, <<>>)
  <2>1. <<>> \in Seq({}) /\ <<ForeignEvent>> = Append(<<>>, ForeignEvent)
    OBVIOUS
  <2> QED
    BY <1>1, <2>1, ForeignTellsNothing
<1>3. log \in Seq({ForeignEvent}) /\ <<>> \in Seq({})
  <2>1. <<>> \in Seq({ForeignEvent}) /\ <<>> \in Seq({})
    OBVIOUS
  <2>2. <<ForeignEvent>> \in Seq({ForeignEvent})
    OBVIOUS
  <2>3. log = <<>> \/ log = <<ForeignEvent>>
    OBVIOUS
  <2> QED
    BY <2>1, <2>2, <2>3, Zenon
<1>4. Alone(<<>>)
  BY DEF Alone
<1> QED
  BY <1>1, <1>2, <1>3, <1>4, OfItsElements

\* A step of the router adds its events to the log, and returns it.
LEMMA RouterMovesEmits ==
  ASSUME TypeOK, EmissionInv, RouterMoves
  PROVE  EmissionInv'
<1>1. /\ R!RouterStep /\ call = "routing" /\ shared' = shared
      /\ captured' = captured \o Emitted
      /\ IF pc' = "done" THEN telemetry' = captured' ELSE call' = call
      /\ call' # "none"
  BY DEF RouterMoves
<1>2. PICK T : \E next \in Seq(T) : events \in Seq(T) /\ events' = events \o next
  BY <1>1, RouterStepEmits DEF EmissionInv
<1>3. PICK next \in Seq(T) : events \in Seq(T) /\ events' = events \o next
  BY <1>2
<1> DEFINE more == [k \in 1 .. Len(next) |-> Own(next[k])]
           S    == Range(captured) \cup { Own(t) : t \in T }
<1>4. Emitted = more
  <2>1. /\ Len(events') - Len(events) = Len(next)
        /\ \A k \in 1 .. Len(next) : events'[Len(events) + k] = next[k]
    BY <1>3
  <2> QED
    BY <2>1 DEF Emitted
<1>5. /\ captured \in Seq(S) /\ more \in Seq(S)
      /\ \A k \in 1 .. Len(more) : more[k] = Own(next[k])
  BY DEF EmissionInv
<1>6. captured' \in Seq(S) /\ events' \in Seq(T)
  <2> HIDE DEF S, more
  <2> QED
    BY <1>1, <1>2, <1>3, <1>4, <1>5
<1>7. captured' \in Seq(Range(captured')) /\ events' \in Seq(Range(events'))
  BY <1>6, OfItsElements
<1>8. Tells(captured', events')
  <2>1. Tells(captured, events) /\ captured \in Seq(Range(captured))
    BY DEF EmissionInv
  <2> QED
    BY <1>1, <1>2, <1>3, <1>4, <2>1, OwnTellsOn
<1>9. Alone(captured) => Alone(captured')
  <2>1. \A k \in 1 .. Len(more) : IsOwn(more[k])
    BY <1>5 DEF IsOwn, Own
  <2>2. \A j \in DOMAIN captured' :
          \/ j \in DOMAIN captured /\ captured'[j] = captured[j]
          \/ \E k \in 1 .. Len(more) : captured'[j] = more[k]
    <3> SUFFICES ASSUME NEW j \in DOMAIN captured', j \notin DOMAIN captured
                 PROVE  /\ j - Len(captured) \in 1 .. Len(more)
                        /\ captured'[j] = more[j - Len(captured)]
      BY <1>1, <1>4, <1>5
    <3> HIDE DEF more, S
    <3> QED
      BY <1>1, <1>4, <1>5
  <2> QED
    BY <2>1, <2>2 DEF Alone
<1> QED
  BY <1>1, <1>7, <1>8, <1>9 DEF EmissionInv, Range

\* So does an event of another user of the emitter.
LEMMA OtherEmitsToo ==
  ASSUME EmissionInv, OtherEmits
  PROVE  EmissionInv'
<1>1. /\ captured' = Append(captured, ForeignEvent) /\ shared /\ shared' = shared
      /\ call = "routing" /\ call' = call /\ events' = events
  BY DEF OtherEmits, routerVars
<1>2. Tells(captured', events)
  BY <1>1, ForeignTellsNothing DEF EmissionInv
<1>3. captured' \in Seq(Range(captured'))
  BY <1>1, OneMore DEF EmissionInv
<1> QED
  BY <1>1, <1>2, <1>3 DEF EmissionInv, Range

\* Every step keeps what the emitter has captured in step with the call.
LEMMA StepKeepsEmission ==
  TypeOK /\ EmissionInv /\ [Next]_vars => EmissionInv'
<1> SUFFICES ASSUME TypeOK, EmissionInv, [Next]_vars
             PROVE  EmissionInv'
  OBVIOUS
<1>1. CASE /\ UNCHANGED <<events, shared, captured, telemetry>>
           /\ call' = call \/ call' = "raised"
  BY <1>1 DEF EmissionInv
<1>2. CASE \/ Load \/ Plan \/ RollOut \/ Refuse \/ RaiseKeyError \/ CallerCancels
           \/ UNCHANGED vars
  BY <1>1, <1>2 DEF Load, Plan, RollOut, Refuse, RaiseKeyError, CallerCancels, R!Cancel,
     R!history, vars, routerVars, surroundings
<1>3. CASE Route \/ Finish
  <2>1. /\ events' = <<>> /\ call' # "returned"
        /\ captured' \in {<<>>, <<ForeignEvent>>}
        /\ shared' \/ captured' = <<>>
    BY <1>3 DEF Route, Finish, Enter
  <2> QED
    BY <2>1, NothingEmitted DEF EmissionInv, Range
<1>4. CASE RouterMoves \/ OtherEmits
  BY <1>4, RouterMovesEmits, OtherEmitsToo
<1> QED
  BY <1>2, <1>3, <1>4 DEF Next, HostStep

\* Nothing is captured at first.
LEMMA InitEmission == Init => EmissionInv
<1>1. Init => events = <<>> /\ captured = <<>> /\ call = "none"
  BY DEF Init, R!Init
<1> QED
  BY <1>1, NothingEmitted DEF EmissionInv

------------------------------------------------------------------------------
(***************************************************************************)
(* Time: what the offline smoke accepted, the router keeps ahead of.       *)
(***************************************************************************)
\* The router's budget for a candidate is the simulation's.
LEMMA SimulatedAsRouted ==
  \A p, c, r : R!CandidateBudget(p, c, r) = SimulatedBudget(p, c, r)
BY SamePlanning DEF R!CandidateBudget, R!AtLeastOne, R!Reserve, SimulatedBudget

\* A walk that the simulation accepts leaves the router time before a candidate, and
\* no event of the deadline check.
LEMMA NothingElapses ==
  ASSUME TypeOK, HostInv, EmissionInv, AheadInv, RouterMoves,
         NEW left \in AcceptedWalks(plan)
  PROVE  NoDeadlineEvent'
<1>1. R!RouterStep /\ WellFormedPlan(plan) /\ elapsed \in Nat
  <2>1. call # "none"
    BY DEF RouterMoves
  <2> QED
    BY <2>1, RoutedIsWellFormed DEF RouterMoves, HostInv
<1>2. ~R!DeadlineElapsed
  <2> SUFFICES ASSUME R!DeadlineElapsed
               PROVE  FALSE
    OBVIOUS
  <2>1. pc = "candidate" /\ index \in 1 .. plan.size /\ R!Remaining <= 0
    BY DEF R!DeadlineElapsed, R!NextCandidate, R!Candidate
  <2>2. left[index] \in Nat \ {0}
    BY <1>1, <2>1, WalkStep
  <2>3. R!Remaining >= left[index]
    BY <2>1 DEF AheadInv, R!InLoop, R!Left
  <2>4. R!Remaining \in Int
    BY <1>1 DEF R!Remaining, WellFormedPlan
  <2> QED
    BY <2>1, <2>2, <2>3, <2>4
<1>3. PICK T : \E next \in Seq(T) : /\ events \in Seq(T) /\ events' = events \o next
                                    /\ R!DeadlineElapsed \/ Quiet(next)
  BY <1>1, RouterStepEmits DEF EmissionInv
<1>4. PICK next \in Seq(T) : /\ events \in Seq(T) /\ events' = events \o next
                             /\ Quiet(next)
  BY <1>2, <1>3
<1>5. \A k \in DOMAIN events' :
        \/ k \in DOMAIN events /\ events'[k] = events[k]
        \/ k - Len(events) \in DOMAIN next /\ events'[k] = next[k - Len(events)]
  BY <1>4
<1>6. NoDeadlineEvent
  BY DEF AheadInv
<1> QED
  BY <1>4, <1>5, <1>6 DEF NoDeadlineEvent, Quiet

\* What AheadInv says of the candidate whose turn it is.
OnTime ==
  /\ pc = "schema" => index = 1 /\ elapsed = 0
  /\ R!InLoop => index \in 1 .. plan.size
  /\ pc = "answered" => output.elapsed \in Nat
  /\ pc \in {"credential", "adapter", "answered"} =>
       budget = SimulatedBudget(plan, index, R!Left)
  /\ \A left \in AcceptedWalks(plan) : R!InLoop => R!Left >= left[index]

\* The router keeps ahead, candidate by candidate.
LEMMA RouterKeepsOnTime ==
  ASSUME OnTime, R!RouterStep, WellFormedPlan(plan), elapsed \in Nat
  PROVE  OnTime'
<1>1. plan' = plan
  BY RouterStepEffect
<1>2. plan.size \in Nat /\ plan.deadline \in Nat /\ R!Remaining \in Int
  BY DEF WellFormedPlan, R!Remaining
<1>3. CASE pc' \in {"done", "exhausted"}
  BY <1>3 DEF OnTime, R!InLoop
<1>4. CASE R!SchemaReady
  <2>1. pc = "schema" /\ pc' = "candidate" /\ index' = index /\ elapsed' = elapsed
    BY <1>4 DEF R!SchemaReady, R!loop
  <2>2. index' = 1 /\ R!Left' = plan.deadline /\ 1 \in 1 .. plan'.size
    BY <1>1, <2>1 DEF OnTime, R!Left, R!Remaining, WellFormedPlan
  <2>3. \A left \in AcceptedWalks(plan) : left[1] = plan.deadline
    BY WalkStep
  <2> QED
    BY <1>1, <1>2, <2>1, <2>2, <2>3 DEF OnTime
<1>5. CASE R!SkipCandidate
  <2>1. /\ pc = "candidate" /\ pc' = pc /\ index' = index + 1 /\ elapsed' = elapsed
        /\ index \in 1 .. plan.size - 1
    BY <1>2, <1>5 DEF R!SkipCandidate, R!NextCandidate, R!Candidate, R!SkipSuppressed,
       R!loop
  <2>2. R!Left' = R!Remaining /\ R!Left = R!Remaining
    BY <1>1, <2>1 DEF R!Left, R!Remaining
  <2>3. \A left \in AcceptedWalks(plan) :
          R!Remaining >= left[index] /\ left[index + 1] < left[index]
          /\ left[index] \in Nat /\ left[index + 1] \in Nat
    <3>1. index \in 1 .. plan.size /\ index + 1 \in 1 .. plan.size
      BY <1>2, <2>1
    <3> QED
      BY <2>1, <2>2, <3>1, WalkStep DEF OnTime, R!InLoop
  <2>4. index' \in 1 .. plan'.size
    BY <1>1, <1>2, <2>1
  <2> QED
    BY <1>1, <1>2, <2>1, <2>2, <2>3, <2>4 DEF OnTime
<1>6. CASE R!StartAttempt
  <2>1. /\ pc = "candidate" /\ pc' = "credential" /\ index' = index /\ elapsed' = elapsed
        /\ budget' = SimulatedBudget(plan, index, R!Remaining)
    BY <1>6, SimulatedAsRouted DEF R!StartAttempt, R!NextCandidate
  <2>2. R!Left' = R!Remaining /\ R!Left = R!Remaining
    BY <1>1, <2>1 DEF R!Left, R!Remaining
  <2> QED
    BY <1>1, <2>1, <2>2 DEF OnTime, R!InLoop
<1>7. CASE R!CallAdapter
  <2>1. /\ pc = "credential" /\ pc' = "adapter"
        /\ index' = index /\ elapsed' = elapsed /\ budget' = budget
    BY <1>7 DEF R!CallAdapter, R!loop
  <2>2. R!Left' = R!Left
    BY <1>1, <2>1 DEF R!Left, R!Remaining
  <2> QED
    BY <1>1, <2>1, <2>2 DEF OnTime, R!InLoop
<1>8. CASE \E out \in R!Output : R!AttemptAnswered(out)
  <2>1. PICK out \in R!Output : R!AttemptAnswered(out)
    BY <1>8
  <2>2. /\ pc' = "answered" /\ index' = index /\ budget' = budget
        /\ output' = out /\ elapsed' = elapsed + out.elapsed
    BY <2>1 DEF R!AttemptAnswered, R!Settle
  <2>3. pc \in {"credential", "adapter"} /\ out.elapsed \in Nat
    BY <2>1, ReportedAssumption DEF R!Output, R!Typed, R!InvokeOutput, R!Reported,
       R!ProviderOutcome
  <2>4. R!Left' = R!Left
    BY <1>1, <1>2, <2>2, <2>3 DEF R!Left, R!Remaining
  <2> QED
    BY <1>1, <2>2, <2>3, <2>4 DEF OnTime, R!InLoop
<1>9. CASE R!FailOver
  <2>1. /\ pc = "answered" /\ pc' = "candidate" /\ index' = index + 1
        /\ elapsed' = elapsed /\ ~R!Late /\ index < plan.size
    BY <1>9 DEF R!FailOver, R!InTime, R!HasFailoverCandidate
  <2>2. /\ index \in 1 .. plan.size - 1 /\ output.elapsed \in Nat
        /\ budget = SimulatedBudget(plan, index, R!Left)
    BY <1>2, <2>1 DEF OnTime, R!InLoop
  <2>3. /\ R!Left = R!Remaining + output.elapsed /\ R!Left' = R!Remaining
        /\ R!Left - output.elapsed = R!Remaining /\ R!Left \in Int
    BY <1>1, <1>2, <2>1, <2>2 DEF R!Left, R!Remaining
  <2>4. ASSUME NEW left \in AcceptedWalks(plan)
        PROVE  R!Remaining >= left[index + 1]
    <3>1. R!Left >= left[index] /\ left[index] \in Nat \ {0}
      BY <1>2, <2>1, <2>2, WalkStep DEF OnTime, R!InLoop
    <3>2. R!Left \in Nat \ {0}
      BY <2>3, <3>1
    <3>3. output.elapsed <= SimulatedBudget(plan, index, R!Left)
      <4>1. ~(output.elapsed > budget)
        BY <2>1 DEF R!Late
      <4>2. SimulatedBudget(plan, index, R!Left) \in Nat
        BY <3>2, SimulatedBudgetBounds
      <4> QED
        BY <2>2, <4>1, <4>2
    <3> QED
      BY <2>2, <2>3, <3>1, <3>3, StaysAhead
  <2>5. index' \in 1 .. plan'.size
    BY <1>1, <1>2, <2>1, <2>2
  <2> QED
    BY <1>1, <2>1, <2>3, <2>4, <2>5 DEF OnTime
<1>10. \/ pc' \in {"done", "exhausted"} \/ R!SchemaReady \/ R!SkipCandidate
       \/ R!StartAttempt \/ R!CallAdapter \/ R!FailOver
       \/ \E out \in R!Output : R!AttemptAnswered(out)
  <2>1. CASE R!AttemptEnds
    BY <2>1 DEF R!AttemptEnds, R!AttemptCancelled, R!Return
  <2>2. CASE R!AnswerHandled
    BY <2>2 DEF R!AnswerHandled, R!LateResponse, R!Success, R!GiveUp, R!FailFast, R!Return
  <2>3. CASE \/ R!SchemaUnavailable \/ R!CancelledAtHead \/ R!DeadlineElapsed
             \/ R!AdapterMissing \/ R!PoolExhausted
    BY <2>3 DEF R!SchemaUnavailable, R!CancelledAtHead, R!DeadlineElapsed,
       R!AdapterMissing, R!PoolExhausted, R!Return
  <2> QED
    BY <2>1, <2>2, <2>3 DEF R!RouterStep
<1> QED
  BY <1>3, <1>4, <1>5, <1>6, <1>7, <1>8, <1>9, <1>10

\* So a step of the router within a call keeps ahead of every accepted walk.
LEMMA RouterMovesAhead ==
  ASSUME TypeOK, HostInv, EmissionInv, AheadInv, RouterMoves
  PROVE  AheadInv'
<1>1. R!RouterStep /\ WellFormedPlan(plan) /\ elapsed \in Nat
  <2>1. call # "none"
    BY DEF RouterMoves
  <2> QED
    BY <2>1, RoutedIsWellFormed DEF RouterMoves, HostInv
<1>2. plan' = plan
  BY <1>1, RouterStepEffect
<1>3. OnTime'
  BY <1>1, RouterKeepsOnTime DEF AheadInv, OnTime
<1>4. \A left \in AcceptedWalks(plan) : NoDeadlineEvent'
  BY NothingElapses
<1> QED
  BY <1>2, <1>3, <1>4 DEF AheadInv, OnTime

\* A call that begins is ahead of every walk.
LEMMA AheadAtFirst ==
  ASSUME pc = "schema", index = 1, elapsed = 0, events = <<>>
  PROVE  AheadInv
<1>1. NoDeadlineEvent
  BY DEF NoDeadlineEvent
<1> QED
  BY <1>1 DEF AheadInv, R!InLoop

\* Every step keeps ahead.
LEMMA StepKeepsAhead ==
  TypeOK /\ HostInv /\ EmissionInv /\ AheadInv /\ [Next]_vars => AheadInv'
<1> SUFFICES ASSUME TypeOK, HostInv, EmissionInv, AheadInv, [Next]_vars
             PROVE  AheadInv'
  OBVIOUS
<1>1. CASE UNCHANGED <<plan, pc, index, elapsed, budget, output, events>>
  BY <1>1 DEF AheadInv, NoDeadlineEvent, R!InLoop, R!Left, R!Remaining
<1>2. CASE \/ Load \/ Plan \/ RollOut \/ Refuse \/ RaiseKeyError \/ CallerCancels
           \/ OtherEmits \/ UNCHANGED vars
  BY <1>1, <1>2 DEF Load, Plan, RollOut, Refuse, RaiseKeyError, CallerCancels,
     OtherEmits, R!Cancel, R!loop, R!history, vars, routerVars
<1>3. CASE Route \/ Finish
  <2>1. /\ pc' = "schema" /\ index' = 1 /\ elapsed' = 0 /\ events' = <<>>
    BY <1>3 DEF Route, Finish, Enter
  <2>2. NoDeadlineEvent'
    BY <2>1 DEF NoDeadlineEvent
  <2> QED
    BY <2>1, <2>2 DEF AheadInv, R!InLoop
<1>4. CASE RouterMoves
  BY <1>4, RouterMovesAhead
<1> QED
  BY <1>2, <1>3, <1>4 DEF Next, HostStep

LEMMA InitAhead == Init => AheadInv
  BY AheadAtFirst DEF Init, R!Init

------------------------------------------------------------------------------
\* What the router has behind it, what it has told and the time it is ahead of: the
\* strengthening of the three properties below, inductive with HostInv.
THEOREM RoutingInvariance == Spec => []RoutingInv
<1>1. Init => RoutingInv
  BY InitEmission, InitAhead, NothingBehind DEF Init, R!Init, RoutingInv
<1>2. TypeOK /\ HostInv /\ RoutingInv /\ [Next]_vars => RoutingInv'
  BY StepKeepsBehind, StepKeepsEmission, StepKeepsAhead DEF RoutingInv
<1> QED
  BY <1>1, <1>2, HostInvariance, PTL DEF Spec

\* What rollout controls disabled is only ever called as the last resort
\* (apply_rollout_controls, _should_skip_suppressed).
THEOREM DisabledComesLast == Spec => []DisabledIsLastResort
<1>1. RoutingInv => DisabledIsLastResort
  BY DEF RoutingInv, BehindInv
<1> QED
  BY <1>1, RoutingInvariance, PTL

\* A result's telemetry has every event of its call, each once and in order, among
\* those of the emitter's other users (TelemetryEmitter.emit, _route_result).
THEOREM TelemetryIsWhole == Spec => []TelemetryIsComplete
<1>1. RoutingInv => TelemetryIsComplete
  BY DEF RoutingInv, EmissionInv, TelemetryIsComplete
<1> QED
  BY <1>1, RoutingInvariance, PTL

\* A role that passed the offline smoke never runs out of time before a candidate,
\* whatever rollout suppresses and however the attempts go, as long as its whole pool
\* is planned and the caller overrides nothing (run_offline_smoke, route_invocation).
THEOREM SmokeIsKept == Spec => []SmokedRoleKeepsItsDeadline
<1>1. ASSUME TypeOK, HostInv, RoutingInv,
             NEW role \in Role, stage # "idle", AsSmoked(role),
             OfflineSmoke(planned.config, role, planned.operation)
      PROVE  NoDeadlineEvent
  <2> DEFINE op      == planned.operation
             request == OfflineRequest(planned.config, role, op)
             smoked  == RouterPlan(PlanFor(planned.config, request), {})
  <2>1. CASE call = "none"
    BY <1>1, <2>1 DEF RoutingInv, EmissionInv, NoDeadlineEvent
  <2>2. CASE call # "none"
    <3>1. plan = RouterPlan(planned, suppressed)
      BY <1>1, <2>2, SamePlanning DEF TypeOK, D!Handed
    <3>2. op \in DOMAIN planned.config.operations /\ SoundPlan(planned)
      BY <1>1, PlannedIsWritten DEF WrittenPlan, HostInv
    <3>3. /\ request.operation = op /\ request.role = role
          /\ request.deadline = PolicyOf(planned.config, op).deadline
          /\ request.overrides = NoOverrides
      BY <3>2 DEF OfflineRequest, SmokeRequest, PolicyDeadline
    <3>4. EffectiveFor(planned.config, request) =
            EffectiveConfig(PolicyOf(planned.config, op), NoOverrides)
      BY <3>3 DEF EffectiveFor, RequestOverrides, NoOverrides
    <3>5. /\ PlanFor(planned.config, request).pool = planned.pool
          /\ PlanFor(planned.config, request).effective = planned.effective
          /\ PlanFor(planned.config, request).deadline = planned.deadline
      <4>1. planned.effective.deadline = PolicyOf(planned.config, op).deadline
        BY <1>1 DEF AsSmoked, EffectiveConfig, Or, NoOverrides
      <4> QED
        BY <1>1, <3>2, <3>3, <3>4, <4>1 DEF PlanFor, AsSmoked, SoundPlan
    <3>6. AcceptedWalks(smoked) = AcceptedWalks(plan)
      <4>1. /\ smoked.size = plan.size /\ smoked.deadline = plan.deadline
            /\ smoked.base = plan.base /\ smoked.overrides = plan.overrides
            /\ smoked.protect = plan.protect
        BY <3>1, <3>5 DEF RouterPlan
      <4> QED
        BY <4>1, SameBudgetsSameWalks
    <3>7. AcceptedWalks(smoked) # {}
      BY <1>1 DEF OfflineSmoke, SimulationPasses
    <3> QED
      BY <1>1, <3>6, <3>7 DEF RoutingInv, AheadInv
  <2> QED
    BY <2>1, <2>2
<1>2. TypeOK /\ HostInv /\ RoutingInv => SmokedRoleKeepsItsDeadline
  BY <1>1 DEF SmokedRoleKeepsItsDeadline
<1> QED
  BY <1>2, HostInvariance, RoutingInvariance, PTL

------------------------------------------------------------------------------
\* Of two requests that differ in the schema ref alone, one that the operation has
\* anyway, the planner takes both or neither.
LEMMA SchemaRefIsTheOperations ==
  ASSUME NEW config, NEW off, NEW live,
         off.role = live.role, off.operation = live.operation,
         off.deadline = live.deadline, off.overrides = live.overrides,
         off.wellFormed = live.wellFormed, ~live.schema,
         off.operation \in DOMAIN config.operations /\ off.schema
           => config.operations[off.operation].schema
  PROVE  Plannable(config, off) <=> Plannable(config, live)
<1>1. \A policy : RequestOverrides(off, policy) = RequestOverrides(live, policy)
  BY Zenon DEF RequestOverrides
<1>2. EffectiveFor(config, off) = EffectiveFor(config, live)
  BY <1>1, Zenon DEF EffectiveFor
<1>3. \A policy : OverridesPermitted(off, policy) <=> OverridesPermitted(live, policy)
  BY <1>1 DEF OverridesPermitted
<1>4. CASE off.operation \in DOMAIN config.operations
  <2>1. off.schema \/ config.operations[off.operation].schema
          <=> live.schema \/ config.operations[live.operation].schema
    BY <1>4
  <2> QED
    BY <1>2, <1>3, <2>1, Zenon DEF Plannable
<1>5. CASE off.operation \notin DOMAIN config.operations
  BY <1>5 DEF Plannable
<1> QED
  BY <1>4, <1>5

\* The two smokes differ in the schema ref of their requests, and the operation's
\* own makes up for it (run_offline_smoke, run_optional_live_smoke).
THEOREM SmokesDoAgree == Spec => []SmokesAgree
<1>1. ASSUME NEW config, NEW role, NEW op, ValidConfig(config, DOMAIN Catalog)
      PROVE  Plannable(config, OfflineRequest(config, role, op))
               <=> Plannable(config, LiveRequest(config, role, op))
  <2> DEFINE off  == OfflineRequest(config, role, op)
             live == LiveRequest(config, role, op)
  <2>1. /\ off.role = role /\ live.role = role
        /\ off.operation = op /\ live.operation = op
        /\ off.deadline = live.deadline /\ off.overrides = live.overrides
        /\ off.wellFormed = live.wellFormed
        /\ ~live.schema
        /\ op \in DOMAIN config.operations /\ off.schema => config.operations[op].schema
    BY <1>1 DEF OfflineRequest, LiveRequest, SmokeRequest
  <2>2. Plannable(config, off) <=> Plannable(config, live)
    <3> HIDE DEF off, live
    <3> QED
      BY <2>1, SchemaRefIsTheOperations
  <2> QED
    BY <2>2
<1>2. SmokesAgree
  <2> SUFFICES ASSUME NEW config \in registries, NEW role \in Role, NEW op \in Operation
               PROVE  LET live == LiveSmoke(config, role, op, TRUE, Ok)
                      IN /\ OfflineSmoke(config, role, op) => live = "passed"
                         /\ live = "passed"
                              => Plannable(config, OfflineRequest(config, role, op))
    BY DEF SmokesAgree
  <2>1. LiveSmoke(config, role, op, TRUE, Ok) = "passed"
          <=> /\ ValidConfig(config, DOMAIN Catalog)
              /\ Plannable(config, LiveRequest(config, role, op))
    BY DEF LiveSmoke, Ok, NoCode
  <2> QED
    BY <1>1, <2>1 DEF OfflineSmoke
<1> QED
  BY <1>2, PTL

------------------------------------------------------------------------------
\* To the lifecycle and the invocation, every step of the host is one of Deployment's,
\* or none.
LEMMA HostStepIsDeployments == [Next]_vars => [D!Next]_(D!vars)
<1> SUFFICES ASSUME [Next]_vars
             PROVE  [D!Next]_(D!vars)
  OBVIOUS
<1>1. CASE Load
  BY <1>1 DEF Load, D!Next
<1>2. CASE Plan
  BY <1>2 DEF Plan, D!Next
<1>3. CASE RollOut \/ Refuse
  BY <1>3 DEF RollOut, Refuse, D!Next
<1>4. CASE Finish
  BY <1>4 DEF Finish, D!Next
<1>5. CASE \/ Route \/ RouterMoves \/ RaiseKeyError \/ CallerCancels \/ OtherEmits
           \/ UNCHANGED vars
  <2>1. UNCHANGED <<lifecycle, invocation>>
    BY <1>5 DEF Route, RouterMoves, RaiseKeyError, CallerCancels, OtherEmits, vars
  <2> QED
    BY <2>1 DEF lifecycle, invocation, D!vars, D!lifecycle, D!invocation
<1> QED
  BY <1>1, <1>2, <1>3, <1>4, <1>5 DEF Next, HostStep

\* The host deploys as module Deployment says, whatever its calls of the router do
\* meanwhile.
THEOREM HostDeploys == Spec => D!Spec
<1>1. Init => D!Init
  BY DEF Init
<1> QED
  BY <1>1, HostStepIsDeployments, PTL DEF Spec, D!Spec
==============================================================================
