------------------------------- MODULE Handover -------------------------------
(***************************************************************************)
(* What planning hands to routing for one invocation: the part of an       *)
(* InvocationPlan that the router's control depends on, and the endpoints  *)
(* suppressed for this call.  A pool has no duplicate members, and         *)
(* suppression and budget overrides are keyed by endpoint UID, so that a   *)
(* candidate's position, from 1, stands for its UID.                       *)
(*                                                                         *)
(*   size         number of candidates        deadline     deadline_ms     *)
(*   base         candidate_budget_ms         overrides    per-UID budgets *)
(*   protect      protect_last_eligible       maxAttempts  max_attempts    *)
(*   failover     retry_class is RETRYABLE_AVAILABILITY_ONLY               *)
(*   mode         structured_output_mode      suppressed   suppressed UIDs *)
(***************************************************************************)
EXTENDS Integers

\* StructuredOutputMode.
Mode == {"none", "tool_call", "json_schema", "prompt_json"}

\* What the router takes for granted: nothing in route_invocation checks it,
\* and a plan without it makes the router raise or allot no time.
WellFormedPlan(p) ==
  /\ p.size \in Nat \ {0}
  /\ p.deadline \in Nat \ {0}
  /\ p.base \in Nat \ {0}
  /\ DOMAIN p.overrides \subseteq 1 .. p.size
  /\ \A c \in DOMAIN p.overrides : p.overrides[c] \in 1 .. p.deadline
  /\ p.protect \in BOOLEAN
  /\ p.maxAttempts \in Nat \ {0}
  /\ p.failover \in BOOLEAN
  /\ p.mode \in Mode
  /\ p.suppressed \subseteq 1 .. p.size

\* _budget_for_uid.
BudgetFor(p, c) ==
  IF c \in DOMAIN p.overrides THEN p.overrides[c] ELSE p.base
==============================================================================
