---------------------------------- MODULE Host ---------------------------------
(***************************************************************************)
(* A host that runs the whole of the program: it loads configurations into *)
(* the lifecycle, plans an invocation, applies rollout controls and routes *)
(* what it has (modules Deployment and Router), all of it with a telemetry *)
(* emitter that it may share with other users.                             *)
(*                                                                         *)
(* The host passes route_invocation a plan, a registry and an emitter, and *)
(* nothing ties them together: the registry may be the one that the plan   *)
(* was made from or the one active by now.                                 *)
(*                                                                         *)
(* A definition marked "slip" is a plausible mistake in the definition     *)
(* after it, for a property to catch.                                      *)
(***************************************************************************)
EXTENDS Smoke, FiniteSets

CONSTANTS
  Configs, Loaded, Requests, Controls, Activatable,  \* as in Deployment
  ProviderCode, Elapsed,                             \* as in Attempt
  MaxForeign  \* bound: events of other users while one call is routed

ASSUME MaxForeignAssumption == MaxForeign \in Nat

\* What the host writes, and what its adapters report: as the components assume.
ASSUME WrittenAssumption ==
  /\ Loaded \subseteq Configs /\ \A config \in Configs : WrittenConfig(config)
  /\ \A request \in Requests : WrittenRequest(request)
  /\ \A controls \in Controls : RolloutControls(controls)

ASSUME ReportedAssumption == Elapsed \subseteq Nat

VARIABLES
  active, registries, stage, planned, suppressed,    \* as in Deployment
  plan, pc, index, attempted, elapsed, budget,       \* as in Router
  lastRetryable, output, traces, events, terminal, cancelled, calls,
  fingerprint,  \* policy_fingerprint of the plan
  call,         \* where the call of route_invocation is
  registry,     \* the configuration whose registry it was given, as an option
  shared,       \* the emitter has other users, or was passed to invoke_plan too
  captured,     \* captured_events of the emitter
  telemetry     \* telemetry of the PoolRouteResult

lifecycle    == <<active, registries>>
invocation   == <<stage, planned, suppressed, fingerprint>>
routerVars   == <<plan, pc, index, attempted, elapsed, budget, lastRetryable,
                  output, traces, events, terminal, cancelled, calls>>
surroundings == <<call, registry, shared, captured, telemetry>>
vars         == <<lifecycle, invocation, routerVars, surroundings>>

\* Between two calls the router's variables stand as for one not yet begun.
IdlePlan ==
  [size |-> 1, deadline |-> 1, base |-> 1, overrides |-> <<>>, protect |-> FALSE,
   maxAttempts |-> 1, failover |-> FALSE, mode |-> "none", suppressed |-> {}]

D == INSTANCE Deployment WITH history <- registries, plan <- planned
R == INSTANCE RouterProperties WITH Plans <- {IdlePlan}

\* policy_fingerprint: a hash of what the policy comes to and whom it is for (the
\* role and where each value came from, hashed as well, are left out).
Fingerprint(p) ==
  [config |-> p.config, operation |-> p.operation, pool |-> p.pool,
   effective |-> p.effective]

NoFingerprint == [pool |-> <<>>]

\* Events by who emits them: this call, in the order of its own events, or
\* others, its planning among them.
Own(event) == [by |-> "call", event |-> event]
ForeignEvent == [by |-> "other", event |-> [family |-> "failure", candidate |-> 0]]

IsOwn(e)     == e.by = "call"
IsForeign(e) == e.by = "other"

Init ==
  /\ D!Init
  /\ R!Init
  /\ fingerprint = NoFingerprint
  /\ call = "none"
  /\ registry = {}
  /\ shared = FALSE
  /\ captured = <<>>
  /\ telemetry = <<>>

------------------------------------------------------------------------------
(***************************************************************************)
(* What happens to configurations and plans.                               *)
(***************************************************************************)
Load ==
  /\ \E config \in Loaded : D!Replace(config) \/ D!Rollback(config)
  /\ UNCHANGED <<fingerprint, routerVars, surroundings>>

Plan ==
  /\ \E config \in Configs, request \in Requests : D!Plan(config, request)
  /\ fingerprint' = Fingerprint(planned')
  /\ UNCHANGED <<routerVars, surroundings>>

RollOut ==
  /\ call = "none"
  /\ \E controls \in Controls : D!RollOut(controls)
  /\ UNCHANGED <<fingerprint, routerVars, surroundings>>

Refuse ==
  /\ call = "none"
  /\ \E controls \in Controls : D!RefuseRollOut(controls)
  /\ fingerprint' = NoFingerprint
  /\ UNCHANGED <<routerVars, surroundings>>

------------------------------------------------------------------------------
(***************************************************************************)
(* The call of route_invocation.                                           *)
(***************************************************************************)
Enter(p) ==
  /\ plan' = p
  /\ pc' = "schema"
  /\ index' = 1
  /\ attempted' = 0 /\ elapsed' = 0 /\ budget' = 0
  /\ lastRetryable' = NoCode
  /\ output' = R!NoOutput
  /\ traces' = <<>> /\ events' = <<>> /\ calls' = <<>>
  /\ terminal' = R!NoTerminal
  /\ cancelled' = FALSE

\* The emitter is a new one, or one that others use, and may have used before.
Route ==
  /\ stage \in {"planned", "rolled_out"} /\ call = "none"
  /\ Enter(D!Handed)
  /\ call' = "routing"
  /\ \E config \in active \cup {planned.config} : registry' = {config}
  /\ shared' \in BOOLEAN
  /\ captured' \in {<<>>} \cup (IF shared' THEN {<<ForeignEvent>>} ELSE {})
  /\ UNCHANGED <<lifecycle, invocation, telemetry>>

Known(uid) == \A config \in registry : uid \in Uids(config)

\* The router is about to look the candidate up in the registry.
LooksUp == R!NextCandidate /\ ~R!SkipSuppressed

\* registry.endpoints_by_uid[endpoint_uid] raises a KeyError, which nothing in
\* route_invocation catches.
RaiseKeyError ==
  /\ call = "routing"
  /\ LooksUp
  /\ ~Known(planned.pool[index])
  /\ call' = "raised"
  /\ UNCHANGED <<lifecycle, invocation, routerVars, registry, shared, captured, telemetry>>

\* emitter.emit, for each event of the step, in order.
Emitted ==
  [k \in 1 .. Len(events') - Len(events) |-> Own(events'[Len(events) + k])]

EarlyCopy ==  \* slip: the result is put together before its last event is emitted
  /\ call = "routing"
  /\ LooksUp => Known(planned.pool[index])
  /\ R!RouterStep
  /\ captured' = captured \o Emitted
  /\ IF pc' = "done" THEN call' = "returned" /\ telemetry' = captured
                     ELSE UNCHANGED <<call, telemetry>>
  /\ UNCHANGED <<lifecycle, invocation, registry, shared>>

\* A step of the router.  As it returns, _route_result copies all that the
\* emitter has captured.
RouterMoves ==
  /\ call = "routing"
  /\ LooksUp => Known(planned.pool[index])
  /\ R!RouterStep
  /\ captured' = captured \o Emitted
  /\ IF pc' = "done" THEN call' = "returned" /\ telemetry' = captured'
                     ELSE UNCHANGED <<call, telemetry>>
  /\ UNCHANGED <<lifecycle, invocation, registry, shared>>

CallerCancels ==
  /\ call = "routing"
  /\ R!Cancel
  /\ UNCHANGED <<lifecycle, invocation, surroundings>>

\* Another user of the emitter, in another thread or in a callback of this call.
OtherEmits ==
  /\ call = "routing" /\ shared
  /\ Len(SelectSeq(captured, IsForeign)) < MaxForeign
  /\ captured' = Append(captured, ForeignEvent)
  /\ UNCHANGED <<lifecycle, invocation, routerVars, call, registry, shared, telemetry>>

\* The host has the result, or the exception.
Finish ==
  /\ call \in {"returned", "raised"}
  /\ D!Routed
  /\ fingerprint' = NoFingerprint
  /\ Enter(IdlePlan)
  /\ call' = "none" /\ registry' = {} /\ shared' = FALSE
  /\ captured' = <<>> /\ telemetry' = <<>>

HostStep == Route \/ RouterMoves \/ RaiseKeyError \/ Finish

Next ==
  \/ Load
  \/ Plan
  \/ RollOut
  \/ Refuse
  \/ HostStep
  \/ CallerCancels
  \/ OtherEmits

Spec == Init /\ [][Next]_vars

\* A host that has a plan goes on to route it, and its callbacks return; it need
\* not load, plan or cancel anything.
FairSpec == Spec /\ WF_vars(HostStep)

------------------------------------------------------------------------------
\* Type invariant: the components' own, and the host's.
TypeOK ==
  /\ D!TypeOK
  /\ call \in {"none", "routing", "returned", "raised"}
  /\ call # "none" => plan = D!Handed /\ stage # "idle"
  /\ call = "returned" <=> pc = "done"
  /\ IsOptional(registry, Configs)
  /\ call = "none" <=> registry = {}
  /\ shared \in BOOLEAN

\* The router was given the registry that the plan was made from.
OwnRegistry == registry = {planned.config}

\* Only a registry other than the plan's own makes the router raise, whatever was
\* loaded or rolled back meanwhile: with its own registry, a plan that passed the
\* planner and the rollout controls always comes to a result.
RaisesOnlyWithAnotherRegistry ==
  call = "raised" =>
    /\ ~OwnRegistry
    /\ Range(planned.pool) \subseteq Uids(planned.config)

\* Rollout disabled the pool's c-th candidate.
Disabled(c) == planned.pool[c] \in suppressed

\* A provider that is called through the plan's own registry is never given more
\* time than its hard limit, whichever source its budget has: its own by UID,
\* the caller's, the policy's or the deadline; and only for a mode that it has.
ProviderLimitsHold ==
  call = "routing" /\ pc = "adapter" /\ OwnRegistry =>
    LET profile == Catalog[FamilyOf(planned.config, planned.pool[index])]
    IN /\ \A limit \in profile.maxDeadline : budget <= limit
       /\ plan.mode \in profile.modes

\* An endpoint that the rollout controls disabled is never the first to be called:
\* the call comes after an enabled one's, which failed with a retryable code.
DisabledIsLastResort ==
  \A k \in DOMAIN calls :
    Disabled(calls[k].candidate) =>
      \E j \in DOMAIN traces :
        /\ traces[j].candidate < calls[k].candidate
        /\ ~Disabled(traces[j].candidate)
        /\ traces[j].code \in RetryableCode

\* Planned as the smoke checks plan: the policy as it stands.
AsSmoked(role) ==
  /\ role \in DOMAIN planned.config.roles
  /\ planned.pool = planned.config.roles[role]
  /\ planned.effective =
       EffectiveConfig(PolicyOf(planned.config, planned.operation), NoOverrides)

\* No deadline check of the router has ended the call.
NoDeadlineEvent == \A k \in DOMAIN events : events[k].family # "deadline_exceeded"

\* A role and operation that passed the offline smoke never run out of time
\* before a candidate, as long as the caller overrides nothing: whatever the
\* rollout controls disable and however the attempts before it went.
SmokedRoleKeepsItsDeadline ==
  \A role \in Role :
    stage # "idle" /\ AsSmoked(role) /\ OfflineSmoke(planned.config, role, planned.operation)
      => NoDeadlineEvent

\* The two smokes agree on what can be planned: where the offline smoke passes, a
\* live one passes if the host's probe does, and a live one that passed has a
\* plan the offline one accepts up to its budgets.
SmokesAgree ==
  \A config \in registries, role \in Role, op \in Operation :
    LET live == LiveSmoke(config, role, op, TRUE, Ok)
    IN /\ OfflineSmoke(config, role, op) => live = "passed"
       /\ live = "passed" => Plannable(config, OfflineRequest(config, role, op))

\* How many of the first j events captured are the call's own.
OwnUpTo(log, j) == Cardinality({i \in 1 .. j : IsOwn(log[i])})

\* A log has every event of a story, each once and in order, among others.
Tells(log, story) ==
  /\ OwnUpTo(log, Len(log)) = Len(story)
  /\ \A j \in DOMAIN log : IsOwn(log[j]) => log[j].event = story[OwnUpTo(log, j)]

\* Without other users of the emitter, its log has nothing else.
Alone(log) == \A j \in DOMAIN log : IsOwn(log[j])

\* The result's telemetry has every event of its own call, each once and in
\* order, whoever else uses the emitter; with an emitter of its own it has nothing
\* else.
TelemetryIsComplete ==
  call = "returned" => Tells(telemetry, events) /\ (shared \/ Alone(telemetry))

\* The fingerprint by which an operator recognizes a plan is that of what is
\* routed; a plan with a forced endpoint keeps that of the whole pool, and differs
\* from it in nothing but that its pool is one of the members.
FingerprintNamesThePlan ==
  stage # "idle" =>
    \/ fingerprint = Fingerprint(planned)
    \/ /\ stage = "rolled_out" /\ Len(planned.pool) = 1
       /\ Range(planned.pool) \subseteq Range(fingerprint.pool)
       /\ [fingerprint EXCEPT !.pool = planned.pool] = Fingerprint(planned)

\* The conjunction of these is inductive with TypeOK: plans are sound whatever is
\* active by now, and what the router holds is the plan that was fingerprinted,
\* with a budget within its candidate's.
HostInv ==
  /\ active \subseteq registries
  /\ \A config \in registries : ValidConfig(config, Activatable)
  /\ stage # "idle" => SoundPlan(planned)
  /\ stage = "planned" => fingerprint = Fingerprint(planned)
  /\ FingerprintNamesThePlan
  /\ call = "none" => pc = "schema"
  /\ call = "raised" => ~OwnRegistry
  /\ elapsed \in Nat
  /\ pc \in {"credential", "adapter"} =>
       index \in 1 .. plan.size /\ budget \in Nat /\ budget <= BudgetFor(plan, index)
  /\ IF stage = "rolled_out" THEN ~(Range(planned.pool) \subseteq suppressed)
                             ELSE suppressed = {}

\* What the router left behind on its way to a candidate.
\* Each candidate before it is disabled or failed with a retryable code, and the one
\* in an attempt is not disabled unless it is the last.
BehindInv ==
  /\ pc \in {"schema", "candidate", "credential", "adapter", "answered"} =>
       /\ index \in Nat /\ Len(traces) = index - 1
       /\ \A k \in DOMAIN traces :
            /\ traces[k].candidate = k
            /\ Disabled(k) \/ traces[k].code \in RetryableCode
  /\ pc \in {"credential", "adapter", "answered"} =>
       (Disabled(index) => index = plan.size)
  /\ traces \in Seq(Range(traces)) /\ calls \in Seq(Range(calls))
  /\ call = "none" => traces = <<>> /\ calls = <<>> /\ index = 1
  /\ DisabledIsLastResort

\* What the emitter has captured tells the call's events at any time, and the
\* result has all of it.
EmissionInv ==
  /\ captured \in Seq(Range(captured)) /\ events \in Seq(Range(events))
  /\ Tells(captured, events)
  /\ shared \/ Alone(captured)
  /\ call = "returned" => telemetry = captured
  /\ call = "none" => events = <<>>

\* The router is ahead of every walk that the simulation accepts: it has at least
\* the time that the walk had at the same candidate, and the budget is the one
\* computed from it.
AheadInv ==
  /\ pc = "schema" => index = 1 /\ elapsed = 0
  /\ R!InLoop => index \in 1 .. plan.size
  /\ pc = "answered" => output.elapsed \in Nat
  /\ pc \in {"credential", "adapter", "answered"} =>
       budget = SimulatedBudget(plan, index, R!Left)
  /\ \A left \in AcceptedWalks(plan) :
       NoDeadlineEvent /\ (R!InLoop => R!Left >= left[index])

\* The conjunction of these is inductive with HostInv.
RoutingInv ==
  /\ BehindInv
  /\ EmissionInv
  /\ AheadInv

\* Every invocation that was planned comes to an end, whatever is loaded
\* meanwhile.
InvocationEnds == stage # "idle" ~> stage = "idle"
==============================================================================
