-------------------------------- MODULE Router --------------------------------
(***************************************************************************)
(* route_invocation (router.py): one logical invocation walking an ordered *)
(* endpoint pool.  The call is synchronous; what runs beside it is the     *)
(* caller, who may cancel the token at any moment, and the three host      *)
(* callbacks it waits for: the schema resolver, the secret resolver and    *)
(* the provider adapter.  Each wait is a control location of its own.      *)
(*                                                                         *)
(* A candidate is named by its position in the pool (module Handover).     *)
(* Time is the elapsed_ms the adapters report, in abstract units.    *)
(*                                                                         *)
(* A definition marked "slip" is not the code's: it is a plausible mistake *)
(* in the definition after it, one that a property has to catch.           *)
(***************************************************************************)
EXTENDS Integers, Sequences, FiniteSets, Handover, Attempt

CONSTANT
  Plans   \* the invocation plans considered, as module Handover describes them

ASSUME PlansAssumption == \A p \in Plans : WellFormedPlan(p)

VARIABLES
  plan,           \* the plan of this invocation (frozen)
  pc,             \* where the call is
  index,          \* candidate_index, from 1
  attempted,      \* attempts started
  elapsed,        \* elapsed_total_ms
  budget,         \* candidate_budget_ms of the attempt in progress
  lastRetryable,  \* code of last_retryable_failure
  output,         \* attempt_output of the last attempt, or NoOutput
  traces,         \* attempt_traces
  events,         \* the telemetry events of this call, in emission order
  terminal,       \* terminal_result, or NoTerminal
  cancelled,      \* the caller's cancellation token
  calls           \* history: the adapter.invoke calls, each with the token's
                  \* state at the moment the call starts

loop    == <<attempted, elapsed, budget, lastRetryable, output>>
history == <<traces, events, calls>>
vars    == <<plan, pc, index, loop, history, terminal, cancelled>>

------------------------------------------------------------------------------
Candidate == 1 .. plan.size

AttemptStatus ==
  {"skipped_suppressed", "success", "retryable_failure", "terminal_failure",
   "cancelled", "late_response_discarded"}

EventFamily ==
  {"pool_attempt", "endpoint_suppressed", "cancellation", "deadline_exceeded",
   "late_response_discarded", "success", "failure", "pool_exhausted"}

NoOutput   == [code |-> NoCode]
NoTerminal == [code |-> NoCode, candidate |-> 0]

Last(s) == s[Len(s)]

NoFloor(n) == n  \* slip: what remains may be less than the reserve

\* _candidate_budget: with protection on, the next candidate's budget is held
\* back from what remains, but never the last unit.
AtLeastOne(n) == IF n < 1 THEN 1 ELSE n

NoReserve(p, c) == 0  \* slip: protection forgotten

Reserve(p, c) ==
  IF p.protect /\ c < p.size THEN BudgetFor(p, c + 1) ELSE 0

WholeAllowance(p, c, remaining) == BudgetFor(p, c)  \* slip: the deadline forgotten

CandidateBudget(p, c, remaining) ==
  LET available == AtLeastOne(remaining - Reserve(p, c))
  IN  IF BudgetFor(p, c) <= available THEN BudgetFor(p, c) ELSE available

Remaining == plan.deadline - elapsed

\* _should_skip_suppressed: the pool's last member is never skipped.
SkipSuppressed == index \in plan.suppressed /\ index < plan.size

AnyRetryable(code) == code \in RetryableCode  \* slip: the policy's retry class ignored

\* _is_failover_retryable and _has_failover_candidate.
FailoverRetryable(code) == code \in RetryableCode /\ plan.failover

StopOneEarly ==  \* slip: an index from 1 taken for an index from 0
  attempted < plan.maxAttempts /\ index + 1 < plan.size

PoolOnly == index < plan.size  \* slip: max_attempts left to the loop's head

HasFailoverCandidate == attempted < plan.maxAttempts /\ index < plan.size

\* _failure_attempt_status, and SUCCESS for a result.
StatusOf(code) ==
  CASE code = Ok                        -> "success"
    [] code = "CANCELLED"               -> "cancelled"
    [] code = "LATE_RESPONSE_DISCARDED" -> "late_response_discarded"
    [] code \in RetryableCode           -> "retryable_failure"
    [] OTHER                            -> "terminal_failure"

\* _attempt_trace and _skip_trace; time is 0 where the code has None.
AttemptTrace(code, given, time) ==
  [candidate |-> index, status |-> StatusOf(code), code |-> code,
   budget |-> given, elapsed |-> time,
   protected |-> index \in plan.suppressed]

SkipTrace ==
  [candidate |-> index, status |-> "skipped_suppressed", code |-> NoCode,
   budget |-> 0, elapsed |-> 0, protected |-> FALSE]

Event(family, c) == [family |-> family, candidate |-> c]

\* _attempt_count and _skipped_count.
IsSkip(trace) == trace.status = "skipped_suppressed"
AttemptCount  == Cardinality({k \in DOMAIN traces : ~IsSkip(traces[k])})
SkippedCount  == Cardinality({k \in DOMAIN traces : IsSkip(traces[k])})

\* return _route_result(...) with a result about candidate c (0: about none).
Return(code, c) ==
  /\ pc' = "done"
  /\ terminal' = [code |-> code, candidate |-> c]

------------------------------------------------------------------------------
Init ==
  /\ plan \in Plans
  /\ pc = "schema"
  /\ index = 1
  /\ attempted = 0
  /\ elapsed = 0
  /\ budget = 0
  /\ lastRetryable = NoCode
  /\ output = NoOutput
  /\ traces = <<>>
  /\ events = <<>>
  /\ calls = <<>>
  /\ terminal = NoTerminal
  /\ cancelled = FALSE

\* _resolve_schema finds the contract, or the operation needs none.
SchemaReady ==
  /\ pc = "schema"
  /\ pc' = "candidate"
  /\ UNCHANGED <<plan, index, loop, history, terminal, cancelled>>

\* _resolve_schema fails: no schema reference, or one the host's resolver
\* does not resolve (no resolver, an exception, another reference, no schema).
SchemaUnavailable ==
  /\ pc = "schema"
  /\ plan.mode # "none"
  /\ \E code \in {"MISSING_SCHEMA_CONTRACT", "UNKNOWN_SCHEMA_CONTRACT"} :
       Return(code, 0)
  /\ events' = Append(events, Event("failure", 0))
  /\ UNCHANGED <<plan, index, loop, traces, calls, cancelled>>

\* The head of the loop, where the token is polled and attempts are counted.
CancelledAtHead ==
  /\ pc = "candidate"
  /\ index \in Candidate
  /\ cancelled
  /\ Return("CANCELLED", 0)
  /\ events' = events \o <<Event("cancellation", 0), Event("failure", 0)>>
  /\ UNCHANGED <<plan, index, loop, traces, calls, cancelled>>

HeadUnpolled ==  \* slip: the token is polled after attempts only
  /\ pc = "candidate"
  /\ index \in Candidate
  /\ attempted < plan.maxAttempts

NextCandidate ==
  /\ pc = "candidate"
  /\ index \in Candidate
  /\ ~cancelled
  /\ attempted < plan.maxAttempts

SkipUnannounced ==  \* slip: a skip is traced and no event emitted
  /\ NextCandidate
  /\ SkipSuppressed
  /\ index' = index + 1
  /\ traces' = Append(traces, SkipTrace)
  /\ UNCHANGED <<plan, pc, loop, events, calls, terminal, cancelled>>

SkipCandidate ==
  /\ NextCandidate
  /\ SkipSuppressed
  /\ index' = index + 1
  /\ traces' = Append(traces, SkipTrace)
  /\ events' = Append(events, Event("endpoint_suppressed", index))
  /\ UNCHANGED <<plan, pc, loop, calls, terminal, cancelled>>

DeadlineElapsed ==
  /\ NextCandidate
  /\ ~SkipSuppressed
  /\ Remaining <= 0
  /\ Return("DEADLINE_EXCEEDED", index)
  /\ events' = events \o <<Event("deadline_exceeded", index),
                           Event("failure", index)>>
  /\ UNCHANGED <<plan, index, loop, traces, calls, cancelled>>

\* No adapter is registered for the candidate's provider format: the router
\* returns with a trace and no attempt event.
AdapterMissing ==
  /\ NextCandidate
  /\ ~SkipSuppressed
  /\ Remaining > 0
  /\ Return("UNSUPPORTED_PROVIDER_FORMAT", index)
  /\ traces' = Append(traces,
                 AttemptTrace("UNSUPPORTED_PROVIDER_FORMAT",
                              CandidateBudget(plan, index, Remaining), 0))
  /\ events' = Append(events, Event("failure", index))
  /\ UNCHANGED <<plan, index, loop, calls, cancelled>>

StartAttempt ==
  /\ NextCandidate
  /\ ~SkipSuppressed
  /\ Remaining > 0
  /\ pc' = "credential"
  /\ attempted' = attempted + 1
  /\ budget' = CandidateBudget(plan, index, Remaining)
  /\ UNCHANGED <<plan, index, elapsed, lastRetryable, output, history,
                 terminal, cancelled>>

\* The secret is resolved, or the endpoint has no credential reference, and
\* the adapter speaks the endpoint's format: adapter.invoke starts.
CallAdapter ==
  /\ pc = "credential"
  /\ pc' = "adapter"
  /\ calls' = Append(calls, [candidate |-> index, cancelled |-> cancelled])
  /\ UNCHANGED <<plan, index, loop, traces, events, terminal, cancelled>>

\* The caller cancels, from another thread or from inside a callback or the
\* telemetry sink.
Cancel ==
  /\ ~cancelled
  /\ cancelled' = TRUE
  /\ UNCHANGED <<plan, pc, index, loop, history, terminal>>

------------------------------------------------------------------------------
(***************************************************************************)
(* What the router does with an attempt's output: it adds up the time and  *)
(* polls the token; then it discards what came late, records the attempt,  *)
(* and only then looks at the result.  A cancellation after that poll is   *)
(* seen at the head of the loop or not at all.                             *)
(***************************************************************************)
Output ==
  CASE pc = "credential" ->
         {Typed("CREDENTIAL_UNAVAILABLE"), Typed("UNSUPPORTED_PROVIDER_FORMAT")}
    [] pc = "adapter" -> InvokeOutput
    [] OTHER -> {}

Settle(out) ==
  /\ out \in Output
  /\ output' = out
  /\ elapsed' = elapsed + out.elapsed
  /\ UNCHANGED <<plan, index, attempted, budget, lastRetryable, calls, cancelled>>

Record(code, time) == traces' = Append(traces, AttemptTrace(code, budget, time))

AttemptCancelled(out) ==
  /\ Settle(out)
  /\ cancelled
  /\ Record("CANCELLED", elapsed + out.elapsed)
  /\ events' = events \o <<Event("pool_attempt", index),
                           Event("cancellation", index),
                           Event("late_response_discarded", index),
                           Event("failure", index)>>
  /\ Return("CANCELLED", index)

AnsweredUnpolled(out) ==  \* slip: the token is polled before the attempt only
  /\ Settle(out)
  /\ pc' = "answered"
  /\ UNCHANGED <<traces, events, terminal>>

AttemptAnswered(out) ==
  /\ Settle(out)
  /\ ~cancelled
  /\ pc' = "answered"
  /\ UNCHANGED <<traces, events, terminal>>

PastDeadline == elapsed > plan.deadline  \* slip: the attempt's budget not enforced

Late == output.elapsed > budget \/ elapsed > plan.deadline

LateResponse ==
  /\ pc = "answered"
  /\ Late
  /\ Record("LATE_RESPONSE_DISCARDED", elapsed)
  /\ events' = events \o <<Event("pool_attempt", index),
                           Event("late_response_discarded", index),
                           Event("failure", index)>>
  /\ Return("LATE_RESPONSE_DISCARDED", index)
  /\ UNCHANGED <<plan, index, loop, calls, cancelled>>

\* The public result of an answer that came in time, recorded with it.
ResultCode == TerminalCode(plan.mode, output)

InTime ==
  /\ pc = "answered"
  /\ ~Late
  /\ Record(ResultCode, output.elapsed)
  /\ UNCHANGED <<plan, attempted, elapsed, budget, output, calls, cancelled>>

Success ==
  /\ InTime
  /\ ResultCode = Ok
  /\ events' = events \o <<Event("pool_attempt", index),
                           Event("success", index)>>
  /\ Return(Ok, index)
  /\ UNCHANGED <<index, lastRetryable>>

\* A retryable failure with a candidate and an attempt left.
FailOver ==
  /\ InTime
  /\ FailoverRetryable(ResultCode)
  /\ HasFailoverCandidate
  /\ lastRetryable' = ResultCode
  /\ index' = index + 1
  /\ pc' = "candidate"
  /\ events' = Append(events, Event("pool_attempt", index))
  /\ UNCHANGED terminal

\* A retryable failure with no candidate or no attempt left leaves the loop.
GiveUp ==
  /\ InTime
  /\ FailoverRetryable(ResultCode)
  /\ ~HasFailoverCandidate
  /\ lastRetryable' = ResultCode
  /\ pc' = "exhausted"
  /\ events' = Append(events, Event("pool_attempt", index))
  /\ UNCHANGED <<index, terminal>>

FailFast ==
  /\ InTime
  /\ ResultCode # Ok
  /\ ~FailoverRetryable(ResultCode)
  /\ events' = events \o <<Event("pool_attempt", index),
                           Event("failure", index)>>
  /\ Return(ResultCode, index)
  /\ UNCHANGED <<index, lastRetryable>>

HeadOnly ==  \* slip: the break out of the loop's body forgotten
  \/ pc = "candidate" /\ index \notin Candidate
  \/ pc = "candidate" /\ ~cancelled /\ attempted >= plan.maxAttempts

\* The loop is over: left by GiveUp, out of attempts at its head, or out of
\* candidates.
LoopOver ==
  \/ pc = "exhausted"
  \/ pc = "candidate" /\ index \notin Candidate
  \/ pc = "candidate" /\ ~cancelled /\ attempted >= plan.maxAttempts

PoolExhausted ==
  /\ LoopOver
  /\ pc' = "done"
  /\ terminal' = [code |-> "POOL_EXHAUSTED", candidate |-> 0,
                  attempts |-> AttemptCount, skipped |-> SkippedCount,
                  last |-> lastRetryable]
  /\ events' = Append(events, Event("pool_exhausted", 0))
  /\ UNCHANGED <<plan, index, loop, traces, calls, cancelled>>

------------------------------------------------------------------------------
AttemptEnds ==
  \E out \in Output : AttemptCancelled(out) \/ AttemptAnswered(out)

AnswerHandled ==
  \/ LateResponse
  \/ Success
  \/ FailOver
  \/ GiveUp
  \/ FailFast

RouterStep ==
  \/ SchemaReady
  \/ SchemaUnavailable
  \/ CancelledAtHead
  \/ SkipCandidate
  \/ DeadlineElapsed
  \/ AdapterMissing
  \/ StartAttempt
  \/ CallAdapter
  \/ AttemptEnds
  \/ AnswerHandled
  \/ PoolExhausted

Next == RouterStep \/ Cancel

Spec == Init /\ [][Next]_vars

\* The interpreter keeps running the call, and every host callback returns:
\* nothing is assumed of the caller, who need not cancel.
FairSpec == Spec /\ WF_vars(RouterStep)
==============================================================================
