# Verification of llm-endpoint

`llm-endpoint` is a Python library that a host embeds to call language models
through an ordered pool of provider endpoints. It has no threads, no loop and no
storage of its own: the host's thread runs a planning call and then a routing
call, and the library calls back into the host for schemas, secrets and the
provider itself. What makes it hard is not volume but order. A caller may cancel
at any moment of a call that consists of waits; budgets of several candidates
are carved out of one deadline; a failure decides, through three layers of
normalization, whether anything else is tried; and a plan made from one
configuration meets overrides, provider limits and rollout controls that were
checked elsewhere.

This directory holds TLA+ models of that logic, translated from the code under
`src/src/llm_endpoint/`, TLC configurations that check them on small instances,
and proofs that TLAPS checks for every instance. `PROJECT.json` names, for every
definition, the lines that it stands for.

## Inventory

Paths are relative to `src/src/llm_endpoint/`.

| Component | State | Operations | Talks to | What makes it correct |
|---|---|---|---|---|
| Pool router, `router.py` | per call: candidate index, attempts, elapsed time, traces, events | `route_invocation` | adapters, secret and schema resolvers, telemetry, the caller's token | order, budgets within the deadline, cancellation, exhaustion only when earned, one story in traces and telemetry |
| Provider attempt, `adapters.py` | none | `execute_provider_attempt`, `_resolve_credential` | router, host adapter, host secrets | every misbehaviour of a callback comes to a typed output |
| Normalization, `normalization.py`, `structured.py` | none | outcome to public result | router, schema validator | the provider's verdict survives |
| Results, `results.py` | none | failure taxonomy, retryability | all | one retryability per code |
| Callbacks, `callbacks.py` | none | secret and schema resolutions | router | a failed resolution is never taken for a resolved one |
| Telemetry, `telemetry.py` | captured events of an emitter | `emit` | router, planner, host sink | never changes an outcome |
| Configuration, `config.py` | active registry, history of registries | `validate_config`, `activate`, `replace_active`, `rollback_to_identity` | planner | only validated registries are active; rollback always finds one |
| Capabilities, `capabilities.py` | immutable catalog | `get` | configuration, policy | unknown families are refused |
| Policy resolver, `policy.py` | none | `resolve_policy` | planner, catalog | overrides only by permission; limits of every candidate |
| Planner, `invocation.py` | none | `invoke_plan` | policy, configuration | the plan is one that the router can work with |
| Rollout controls, `rollout.py` | none | `apply_rollout_controls` | planner, router | never disables the whole pool |
| Role health, `role_health.py` | none | `evaluate_role_health` | registry | the report agrees with the router |
| Smoke, `smoke.py` | none | offline and live smoke | planner | simulated budgets agree with the router's, the two smokes with each other |
| Host (the caller of all of these) | the plan, registry and emitter it holds | load, plan, roll out, route | all | nothing stale reaches a provider unnoticed |
| Fake provider, `fake_provider.py` | call counters, token | scripted adapter | tests | one outcome per call |
| Debug, migration, release guard, fixtures, public surface, evaluation session | none | views, comparisons, linting, data | maintainers | no influence on invocations |

**Interactions.** `invoke_plan` reads a `Registry` and a `CapabilityCatalog` and
returns a frozen `InvocationPlan`. `apply_rollout_controls` may narrow its pool
and adds a set of suppressed endpoints. `route_invocation` takes both, and a
registry that it only looks endpoints up in. The registry may have been replaced
since; nothing compares identities. Within routing, the schema resolver is
called once, then, per candidate, the secret resolver and the adapter, all
synchronously. The token is polled at the head of the loop and after the
adapter returns, nowhere else. The emitter a host passes may have other users,
and a result's telemetry is a copy of all that it has captured. The health
report and the smokes say something of a role in advance, by code of their own
that shares nothing with the router's.

**Hard behaviours** are the hazards of `PROJECT.json`, each at the line where it
bites: cancellation between polls, late answers, the reserve for later
candidates, failure codes lost in normalization, the order of events on nine
return paths, configurations judged by one catalog and planned with another,
budgets valid under one deadline and planned under another, a registry replaced
under a plan, a report or a simulation that drifts from what the router does.

## Modules

| Module | Models | Depends on |
|---|---|---|
| `Results` | the failure codes and which are retryable | |
| `Attempt` | what an attempt can return, and the result made of it | `Results` |
| `Handover` | the part of a plan that routing depends on | |
| `Router` | `route_invocation` with its callers and callbacks | `Attempt`, `Handover` |
| `RoutePromise` | the abstract contract of an invocation | |
| `BudgetSimulation` | the offline smoke's walk through a pool's budgets | `Handover` |
| `RouterProperties` | properties, the inductive invariants, the refinement mapping | `Router`, `RoutePromise`, `BudgetSimulation` |
| `BudgetProofs` | lemmas on budgets and walks, used for the router and for the host | `BudgetSimulation` |
| `RouterProofs` | theorems | `RouterProperties`, `BudgetProofs` |
| `HistoryProofs`, `SimulationProofs` | theorems | `RouterProofs` |
| `MCRouter` | instances for TLC | `RouterProperties` |
| `RoleHealth` | the role-health report | |
| `ServedRole` | a report and an invocation in the same circumstances | `RouterProperties`, `RoleHealth` |
| `ServedRoleProofs` | theorems | `ServedRole`, `RouterProofs` |
| `MCServedRole` | instances for TLC | `ServedRole` |
| `Config` | configurations, validation, the catalog | `Handover` |
| `Planner` | `invoke_plan`, `resolve_policy`, `apply_rollout_controls` as operators | `Config` |
| `PlannerProofs` | lemmas on plans, their making and narrowing | `Planner` |
| `Deployment` | the lifecycle, and an invocation from request to router | `Planner` |
| `DeploymentProofs` | theorems | `Deployment`, `PlannerProofs` |
| `MCDeployment` | instances for TLC | `Deployment` |
| `Smoke` | the offline and the live smoke as operators | `Planner`, `BudgetSimulation` |
| `Host` | deployment, router, registry and emitter together | `Smoke`, instances of `Deployment` and `RouterProperties` |
| `HostProofs` | theorems | `Host`, `PlannerProofs`, `BudgetProofs` |
| `MCHost` | an instance for TLC | `Host` |

Definitions marked *slip* are not the code's. Each is a plausible mistake in the
definition after it, and shows that a property would notice it.

### The router

`pc` is where the call is: `schema` (waiting for the schema resolver),
`candidate` (the head of the loop), `credential` (waiting for the secret),
`adapter` (waiting for the provider), `answered` (the output passed the second
poll and is about to be judged), `exhausted` (left by `break`), `done`. Code
between two waits, or between a poll and the next point where a cancellation can
matter, is one action; `Cancel` may happen between any two.

A pool has no duplicates and everything about a candidate is keyed by its UID,
so candidates are positions from 1. `index`, `attempted`, `elapsed`, `budget`,
`lastRetryable`, `traces`, `events` and `terminal` are the variables of
`route_invocation`; `calls` is a history of the `adapter.invoke` calls and what
the token showed as each began. Payloads are four classes, as many as the
pipelines tell apart. Time is the `elapsed_ms` that adapters report, in abstract
units, because that is the only time the code knows: the router never reads a
clock.

| Code of `route_invocation` | Action |
|---|---|
| `_resolve_schema` | `SchemaReady`, `SchemaUnavailable` |
| poll at the head | `CancelledAtHead` |
| suppression, deadline, adapter lookup | `SkipCandidate`, `DeadlineElapsed`, `AdapterMissing` |
| budget, attempt counted, secret | `StartAttempt` |
| `adapter.invoke` begins | `CallAdapter` |
| output, elapsed time, second poll | `AttemptCancelled`, `AttemptAnswered` |
| late check, result | `LateResponse`, `Success`, `FailOver`, `GiveUp`, `FailFast` |
| after the loop | `PoolExhausted` |

Two ways out of the loop are in the model and never taken: the
`attempted >= max_attempts` break at its head and running out of candidates
there. `_has_failover_candidate` already broke out before either can happen,
and suppression never skips the last candidate. `ControlInv` states this and
the proof shows it.

`RoutePromise` is what a caller may rely on: endpoints are called one at a time
in pool order, no more than the policy's attempts; one verdict; success only
from the last call's answer, taken up before any cancellation; at most one call
begun after it. It is a state machine; `CallsAreOrdered` says in one predicate what
its steps come to. The one call that may begin after a cancellation is the code's:
the requirements have none (PRD line 466), which the run `cancelled` reports.
`CancellationIsFinal` says what a cancellation does come to: the verdict `CANCELLED`
if it finds the call before or in an attempt, and no new attempt if it finds none
out. A cancellation after an answer was taken up does not change that answer's
verdict.

A candidate without a registered adapter has a trace and a failure event and no
attempt event, since nothing was attempted. `TelemetryMirrorsTraces` allows it; the
README ("a candidate attempt starts or is recorded", line 358) and the design ("one
attempt event per candidate attempt/skip", line 360) can be read to want one.

### Planning and deployment

`Deployment` has the lifecycle's two fields and one invocation: idle, planned,
rolled out. A registry and its identity are determined by the configuration
(the identity is a hash of all of it), so both are represented by it. `Plan`
uses any registry that the lifecycle ever handed out, or a configuration that
`invoke_plan` validates itself, which may be judged by another catalog than the
lifecycle's. Failed calls change nothing and are not actions, except a refused
rollout, which ends its invocation. A
replacement assigns two fields, one after the other, with nothing in between that
could fail or be interrupted in the host's one thread: it is one action. Configurations are *written*: repeated
names, dangling references and budgets of zero are among them, and what is valid
is what `validate_config` lets through. Checks of single fields on which nothing
else depends (empty names, schema version) are one flag, `sound`.

`Handover` joins the two parts. `Router` assumes `WellFormedPlan` of its plans,
and `Deployment` is proved to hand over nothing else.

### A served role

`RoleHealth` is the report as a function of what the host says of a pool: which
endpoints have no adapter (`unregistered`), whose secrets are `missing`, which
are `failing`, `uncertified` and `suppressed`. `EndpointHealth` is the most
severe finding, `RoleHealth` the state of the role. The states follow the code; the
requirements describe some of them in other words (PRD lines 504 to 511: one eligible
candidate makes a role available there; here all of its endpoints have to be).

`ServedRole` sets it beside an invocation of the same role in the same
circumstances. It extends the router and resolves, by what the host said, the
choices that `Router` leaves open: a candidate has an adapter or not
(`NoAdapter`, `HasAdapter`), its secret or adapter refuses the attempt
(`AttemptRefused`), or its provider is called (`ProviderCalled`). What the
report cannot see is in the circumstances too: a `misfiled` adapter, registered
under a format that it does not speak. Every step is one of the router's, so
that everything proved of the router holds here.

The report is right where one would rely on it: an available role gets through
to its providers, an unavailable endpoint is never called, a role left with its
fallback is served by it. It is not to be read as more.
`BlockedCandidateIsFinal` says what it does not tell: an endpoint may be
available, its role *degraded*, and no invocation will reach it, because the
router does not pass over a candidate that it cannot get through to.

### Smoke and host

`BudgetSimulation` states the smoke's loop by the walks it accepts: `left[c]` is
what remains of the deadline at candidate `c`, if every one before it used up
its budget. The smoke's formula is a copy of the router's, and both are in the
model so that they can be compared.

`Host` composes the lifecycle, planning, the router and an emitter, through
instances of `Deployment` and `RouterProperties` over shared variables.

| Action | Host or library |
|---|---|
| `Load` | `activate`, `replace_active` or `rollback_to_identity`, at any time, also while a call is routed |
| `Plan`, `RollOut`, `Refuse` | `invoke_plan`, `apply_rollout_controls` |
| `Route` | `route_invocation` is called: with the plan's registry or the active one, with an emitter of its own or a shared one |
| `RouterMoves` | a step of the router, its events captured; as it returns, the copy for the result |
| `RaiseKeyError` | the look-up of a UID that the registry does not have, which nothing catches |
| `CallerCancels`, `OtherEmits` | the token, and another user of the emitter |
| `Finish` | the host has its result or exception |

One invocation is in flight at a time. Concurrent ones share nothing in the
library but the lifecycle, which `Load` moves freely, and the emitter, which
`OtherEmits` stands for.

## Runs

| Run | Instance | Shows |
|---|---|---|
| `plain` | pools of 3, deadline 4, base budgets 2 and 5, three sets of overrides, three of suppressions, 2 or 3 attempts, one retryable and one other failure, times 0 to 3 | all safety properties of the router |
| `promise` | a part of those plans and structured plans in two modes, under fairness | the contract, termination, and what a cancellation comes to |
| `handover` | two endpoints with different limits, 128 sound policies and the broken ones, requests with and without overrides, all rollout controls | all properties of the deployment |
| `health` | pools of 1 and 3, plain and structured; 128 circumstances (unregistered, missing, failing, uncertified, misfiled) for each set of suppressions; under fairness | the report against the invocation |
| `host` | two endpoints, three configurations, deadlines of 3, 4 and 5, four rollout controls, times 2 and 4, one event of other users (`MaxForeign`), under fairness | stale registries, shared emitters, smoke verdicts and fingerprints |

Three candidates are the least for which *next* and *last* differ; a deadline
of 4 with times up to 3 lets two slow answers exceed it, and base 5 is above it.
Overrides include one larger than its neighbours and small ones. In `handover`
the limits (4 for the second endpoint, none for the first) lie between the two
policy deadlines, and an endpoint's override of 3 is legal under both and
illegal under the caller's 2. In `health` a pool of one has no fallback and a
pool of three has a middle that can be blocked while both ends serve. In `host`
the second configuration lacks an endpoint of the first and has another provider
behind the one they share, which is what a stale registry needs; the third can
be planned from and never loaded, and asks for more than a provider's limit of
4. A third operation, structured and with a schema ref, is there for the smokes
alone, of which one passes the ref on and the other leaves it to the planner. One
foreign event is enough to be between, before or after the call's own.
Only `MaxForeign` bounds something that grows without bound in the code; no run
needs a state constraint. Deadlock is not checked where the model is one
invocation, which stops when the call returns (the router, `health`); it is for
the deployment and the host.

Seven runs are expected to find a violation: they state what the documents say of
the program and the code does not do.

| Run | Statement | What the code does |
|---|---|---|
| `fallthrough` | a retryable provider failure falls through (PRD line 482) | a structured operation turns a failure without payload into an invalid payload, which is final |
| `refusal` | a refusal is returned as one (PRD line 455) | the structured pipeline does not look at the outcome's code |
| `overbudget` | a candidate over its budget may be followed by a fallback (PRD line 470) | it ends the invocation as a late response |
| `cancelled` | after a cancellation before the provider call, no candidate starts (PRD line 466) | a cancellation while the secret is resolved is not looked for, and the provider is called |
| `closing` | one terminal success or failure event (design line 360, README line 360) | exhaustion emits neither |
| `suppressed` | a pool whose candidates are all suppressed is refused (PRD line 490) | it calls the last one, and may return its success |
| `allocatable` | planning fails when the reserve does not fit (PRD line 398) | planning does not look at the reserve |

Two of them set the documents against tests as well as code: contract tests pin the
late response without failover
(`test_phase4_invocation_hardening.py` line 120) and the call of a suppressed last
endpoint (`test_router_contract.py` line 81). That the reserve is the next
candidate's budget is what the per-UID design prescribes (lines 171 to 183) and a
test pins (`test_router_contract.py` line 249), though a table of the same design
(line 271) and the option's name say *last*; no run is made of it.

**Fairness.** `FairSpec` is weak fairness of the router's own steps: the
interpreter keeps running the call and the host's callbacks return. Nothing is
assumed of the caller. That callbacks return is a real assumption, since the
router has no timer with which to interrupt them. `FairServedSpec` is the same
for a served role. The host's `FairSpec` adds that a host which has planned goes
on to route and takes its result; it need not load, plan, roll out or cancel.

## Proofs

All theorems hold for every value of the constants under the named assumptions:
codes and times of the right type, well-formed plans (`PlansAssumption`),
written configurations, requests and controls of the right shape.

**Router.** Most properties are not inductive alone. `RouterInv` adds where the
loop stands (`ControlInv`), what was left when the budget was computed
(`TimeInv`), which calls have been made (`CallInv`), that a call begun after the
cancellation is the last (`CancelInv`), and what protection leaves
(`ReserveInv`). The last is the interesting one. Only the next candidate's
budget is ever held back, but an attempt that stays within its budget costs that
reserve at most one unit (the floor of `max(1, ...)`). So what is left is either
the whole deadline or a reserve made earlier, less one unit for each candidate
since; if every budget and the deadline are at least the pool's size, nobody
finds an empty hand. That is `ProtectionFeedsThePool`, and it is weaker than what
the documents promise. `Refinement` maps the router to `RoutePromise`: the
proof has one step per action, each a step of the promise or a stutter.
`PromiseOrdersCalls` is about the promise alone: whatever keeps it keeps
`CallsAreOrdered`, by the induction `PromiseInv`, so that a caller can reason from
the contract and forget the router.

Three theorems say how far the statements hold that the runs above refute.
`PlainFailureFallsThrough` and `PlainRefusalIsReported` prove the statements of
`fallthrough` and `refusal` where no plan asks for structured output, and
`StructuredNeverFailsOver` says what remains where one does: at most one call, no
exhaustion, and neither a refusal nor a retryable failure as the verdict.
`ShortPoolsKeepTheLastBudget` is about protection: in pools of one or two, where
the next candidate is the last, the last one gets its whole budget; in longer ones
`ProtectionFeedsThePool` is what there is.

`CancellationBinds` proves `CancellationIsFinal` with two small invariants that no
step leaves: caught, where the call can only come to `CANCELLED`, and idle, where
no attempt is out and the head of the loop lets none out.

`ReturnComesNearer` is the part of termination that needs no fairness: each step of
the router lowers `StepsLeft`, at most four for each candidate and five more, so
that only a callback that does not return can keep a call from its end.

**History.** What the call leaves behind needs two more invariants. `CountInv`
counts attempts, calls and traces against one another: an attempt has its call
once the credential is there and its trace once it is handled, so that the three
numbers agree whenever the loop is left (`Earned`) and `ExhaustionIsEarned`
follows. The lemmas on `AttemptCount` count the indices of one trace more or the
same ones. `StoryInv` says that until the return the events are the traces, one
for one; each of the nine return paths then adds its closing event last, and only
the one without an adapter has a trace more. The closing event is of the family of
the verdict returned, and about the same candidate (`VerdictIsAnnounced`). Together
these are `TelemetryMirrorsTraces`.

**Simulation.** `SimulationComesTrue` holds for all pools because the budget is
monotone in what remains, and what remains after a candidate's whole budget is
too (`BudgetIsMonotone`). The router therefore stays ahead of the walk: a
candidate that answers early, or is skipped, only adds to what the next ones
find. That is `SimulationInv`. The arithmetic is in `BudgetProofs` (`WalkStep`,
`StaysAhead`), where it is about plans and numbers and no state, and the host's
proof uses the same lemmas.

**Served role.** `ServedInv` says of each candidate behind the current one, and
of each trace, that it was called or that there is a reason in the circumstances
why not; it is inductive with the router's invariant, which carries over because
every step of a served role is a step of the router (`ServedIsRouting`; so a
served role keeps the router's promise, `ServedKeepsPromise`). The properties of the
report follow with lemmas on what a verdict tells of the endpoints
(`HealthTells`, `ReportTells`). `FallbackInv` adds that no time is lost before
the last endpoint when all others are skipped.

**Deployment.** `DeploymentInv` says that a plan is sound when it is made
(`PlansAreSound`) and that rollout only narrows its pool (`RolloutNarrows`).
Both are lemmas about the planner's operators, in `PlannerProofs`, so that the
host's proofs can use them too. Well-formedness, the provider limits, the
binding policy and an enabled candidate follow, and `HandoverIsSound` discharges
the router's assumption.

**Host.** `HostInv` carries the soundness of the plan through every load and
rollback, says that the router holds the plan that was fingerprinted, and that
the budget of an attempt is within its candidate's. With it, `Known` holds of
every candidate of the plan's own registry, so that only another one makes the
router raise, and the budget of a call is within the limits that planning held
it against.

`RoutingInv` is inductive with it and has three parts. `BehindInv` says what the
router left behind: each earlier candidate is disabled or failed with a retryable
code, so that a disabled candidate, which is only ever called as the last, comes
after the one that rollout left enabled (`DisabledComesLast`). `EmissionInv` says
that the emitter's list tells the call's events so far, wherever other users' events
fall between them, and that the copy was made when the list was complete. `Tells`
counts instead of filtering, since a filter is a recursion that the provers do not
unfold: the list has as many entries of the call as there are events, and each of
them is the event of its number. Appending an entry keeps that, of the call's own
(`OwnTellsOn`) or another user's (`ForeignTellsNothing`), and `TelemetryIsWhole`
follows. `AheadInv` says that the router has at least the time that every walk
accepted by the simulation had at the same candidate. Without an override by the
caller, the plan that was smoked and the one that is routed have the same pool,
budgets and deadline and hence the same walks (`SameBudgetsSameWalks`), whatever
rollout suppresses; `SmokeIsKept` follows. It says nothing of a pool narrowed to a
forced endpoint, which is not the one that was smoked.

`HostDeploys` is a refinement: with its calls hidden, a host is a deployment.

The prover does not let theorems of an instance be cited, so that the few facts
needed of a router step are proved here again (`RouterStepEffect`,
`RouterStepTells`, `RouterStepEmits`, `RouterKeepsOnTime`); `SamePlanning` says that
the instance's operators are the host's own.

**Model-checked only.** `Termination`, `AvailableRoleIsCalled` and `InvocationEnds`:
liveness under fairness and ENABLED are outside the prover's reach, and
`ReturnComesNearer` is as much of it as a safety argument can say. Of
`RetryableFallsThrough`, what the run `plain` checks is proved, since its plans are
plain; it is false of structured ones. The seven violations are found by TLC.

## Not modelled

- Wall-clock time: an adapter that reports too little, or never returns. The
  router reads no clock, so that nothing it decides depends on one.
- Contents: messages, prompts, payload fields, token usage, redaction, debug
  text, migration comparisons, the release linter, fixtures, the re-exports.
- The matcher for the schema subset (`structured.py`): whether a payload
  conforms is one of its classes. It is a pure recursion over payload and
  schema, and the repository states no rule of its own to hold it against.
- Provenance, canary labels and the comparison with an expected fingerprint:
  values that operators read and no later step does.
- Which check of planning failed: only that one did.
- The reasons and events of the health report and the checks listed by the
  smokes, of which only the verdicts are modelled.
- The fake provider: everything it can be scripted to do is something the
  router's adapter and caller already do.
- The evaluation session: a script that measured one provider once.

## Plan

1. *Clock*: real time beside reported time, as a refinement of `Router`, to say
   what the deadline means when callbacks are slow.
2. *Schema matching*: the supported JSON-schema subset as a pure function
   against a reference definition over bounded schemas.
