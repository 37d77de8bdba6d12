--------------------------------- MODULE Smoke --------------------------------
(***************************************************************************)
(* The smoke checks a host runs on a configuration before it relies on it  *)
(* (smoke.py): offline, without any callback, and live, with consent and a *)
(* probe of the host's.  Both plan the invocation of one role and          *)
(* operation with the deadline of the operation's policy; they build the   *)
(* request for it each in their own way.                                   *)
(*                                                                         *)
(* Reports are reduced to their status: the list of checks, the events and *)
(* the redaction are left out.  The definition marked "slip" is a          *)
(* plausible mistake in the one after it, for a property to catch.         *)
(***************************************************************************)
EXTENDS Planner, BudgetSimulation, Results

CONSTANT FallbackDeadline  \* 1_000: the deadline where there is no policy

ASSUME FallbackDeadlineAssumption == FallbackDeadline \in Nat \ {0}

PolicyDeadline(config, op) ==
  IF op \in DOMAIN config.operations THEN PolicyOf(config, op).deadline
                                     ELSE FallbackDeadline

SmokeRequest(role, op, deadline, schema) ==
  [role |-> role, operation |-> op, deadline |-> deadline, wellFormed |-> TRUE,
   schema |-> schema, overrides |-> NoOverrides]

\* run_offline_smoke passes the operation's schema ref on.
OfflineRequest(config, role, op) ==
  SmokeRequest(role, op, PolicyDeadline(config, op),
               op \in DOMAIN config.operations /\ config.operations[op].schema)

NoSimulation(config, role, op) ==  \* slip: the budget simulation left out
  /\ ValidConfig(config, DOMAIN Catalog)
  /\ Plannable(config, OfflineRequest(config, role, op))

\* run_offline_smoke: OfflineSmokeReport.ok.
OfflineSmoke(config, role, op) ==
  /\ ValidConfig(config, DOMAIN Catalog)
  /\ Plannable(config, OfflineRequest(config, role, op))
  /\ SimulationPasses(RouterPlan(PlanFor(config, OfflineRequest(config, role, op)), {}))

FixedDeadline(config, role, op) ==  \* slip: the policy's deadline not looked up
  SmokeRequest(role, op, FallbackDeadline, FALSE)

\* run_optional_live_smoke leaves the schema ref to the planner; its deadline is
\* _configured_deadline_ms.
LiveRequest(config, role, op) ==
  SmokeRequest(role, op, IF ValidConfig(config, DOMAIN Catalog)
                         THEN PolicyDeadline(config, op) ELSE FallbackDeadline, FALSE)

\* What the probe comes to: there is none; a code, that of an exception being
\* SMOKE_FAILED; or success.
ProbeResult == {NoCode, Ok} \cup FailureCode

\* run_optional_live_smoke: LiveSmokeReport.status; "skipped" counts as ok.
LiveSmoke(config, role, op, consent, probe) ==
  CASE ~consent \/ probe = NoCode -> "skipped"
    [] consent /\ probe = Ok /\ ValidConfig(config, DOMAIN Catalog)
         /\ Plannable(config, LiveRequest(config, role, op)) -> "passed"
    [] OTHER -> "failed"
==============================================================================
