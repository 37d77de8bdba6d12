------------------------------- MODULE MCRouter -------------------------------
(***************************************************************************)
(* Instances of the router for TLC.  Budgets and times are in units of a   *)
(* few; three candidates are the least for which the next candidate and    *)
(* the last one differ.                                                    *)
(***************************************************************************)
EXTENDS RouterProperties

NoOverrides == <<>>

\* Budgets by candidate: none, one that is large next to its neighbours, and
\* one that is small.
MCOverrides == {NoOverrides, [c \in {3} |-> 4], [c \in {1, 2} |-> c]}

MCPlan(size, mode, failover, base) ==
  [size : {size}, deadline : {4}, base : base, overrides : MCOverrides,
   protect : BOOLEAN, maxAttempts : {2, 3}, failover : failover,
   mode : mode, suppressed : {{}, {1}, {2, 3}}]

\* Plain-text operations.
PlainPlans == MCPlan(3, {"none"}, BOOLEAN, {2, 5})

\* Structured operations in the two modes that accept different payloads.
StructuredPlans ==
  { p \in MCPlan(3, {"tool_call", "prompt_json"}, {TRUE}, {2}) :
      p.overrides = NoOverrides /\ p.maxAttempts = 3 }

\* Both kinds, and fewer, for the run that checks temporal formulas.
PromisePlans ==
  { p \in PlainPlans : p.base = 2 /\ p.suppressed # {2, 3} } \cup StructuredPlans

PlainCodes      == {"PROVIDER_5XX", "PROVIDER_FAILURE"}
StructuredCodes == {"PROVIDER_5XX", "STRUCTURED_OUTPUT_REFUSAL"}

PlainTimes      == 0 .. 3
PromiseTimes    == {0, 1, 3}
StructuredTimes == {0, 2}
==============================================================================
