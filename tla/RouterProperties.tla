-------------------------- MODULE RouterProperties ---------------------------
(***************************************************************************)
(* The properties of route_invocation.  The first part holds of the code;  *)
(* the last part states what its documents say and the code does not do.   *)
(***************************************************************************)
EXTENDS Router, BudgetSimulation

PC ==
  {"schema", "candidate", "credential", "adapter", "answered", "exhausted",
   "done"}

Trace ==
  [candidate : Nat, status : AttemptStatus, code : FailureCode \cup {Ok, NoCode},
   budget : Nat, elapsed : Nat, protected : BOOLEAN]

Verdict ==
  {NoTerminal}
    \cup [code : FailureCode \cup {Ok}, candidate : Nat]
    \cup [code : {"POOL_EXHAUSTED"}, candidate : {0}, attempts : Nat,
          skipped : Nat, last : RetryableCode \cup {NoCode}]

\* Type invariant of the router's state.
TypeOK ==
  /\ plan \in Plans
  /\ pc \in PC
  /\ index \in Nat \ {0}
  /\ attempted \in Nat
  /\ elapsed \in Nat
  /\ budget \in Nat
  /\ lastRetryable \in RetryableCode \cup {NoCode}
  /\ output \in AttemptOutput \cup {NoOutput}
  /\ pc = "answered" => output # NoOutput
  /\ traces \in Seq(Trace)
  /\ events \in Seq([family : EventFamily, candidate : Nat])
  /\ terminal \in Verdict
  /\ cancelled \in BOOLEAN
  /\ calls \in Seq([candidate : Nat, cancelled : BOOLEAN])

\* The head and the body of the loop; the adapter attempt in it.
InLoop == pc \in {"candidate", "credential", "adapter", "answered"}

InAttempt == pc \in {"credential", "adapter"}

Retryable(trace) == trace.status = "retryable_failure"

\* The router's own exhaustion verdict; an adapter may report the same code,
\* but then as the failure of its candidate.
Exhausted == terminal.code = "POOL_EXHAUSTED" /\ terminal.candidate = 0

------------------------------------------------------------------------------
\* Ordered failover and fail-fast: the k-th trace is about the pool's k-th
\* candidate, so that none is tried out of order, twice or left out without a
\* trace, and a candidate is passed over only by a suppression skip or after
\* a retryable failure under a failover policy.
OrderedFailover ==
  \A k \in DOMAIN traces :
    /\ traces[k].candidate = k
    /\ k < Len(traces) \/ InLoop =>
         \/ IsSkip(traces[k])
         \/ Retryable(traces[k]) /\ plan.failover

\* The budget handed to an attempt is positive and fits both the candidate's
\* own allowance and what is left of the deadline, so that building the
\* AdapterInvocationPlan never raises and no attempt is granted time the
\* invocation no longer has.
BudgetFitsDeadline ==
  InAttempt =>
    /\ budget \in 1 .. Remaining
    /\ budget <= BudgetFor(plan, index)

\* A success is the outcome of the last recorded attempt and of the last
\* provider call, it came within that attempt's budget, and the reported time
\* of the whole invocation, failed candidates included, is within the
\* deadline.
SuccessInTime ==
  terminal.code = Ok =>
    /\ traces # <<>> /\ calls # <<>>
    /\ Last(traces).status = "success"
    /\ Last(traces).candidate = terminal.candidate
    /\ Last(calls).candidate = terminal.candidate
    /\ Last(traces).elapsed <= Last(traces).budget
    /\ elapsed <= plan.deadline

\* The token is polled at the head of the loop and after each attempt: of the
\* provider calls made, at most the last one started after the caller had
\* cancelled.  The requirements allow none (PRD line 466: CancelledStartsNoCall).
AtMostOneCallAfterCancel ==
  \A k \in DOMAIN calls : calls[k].cancelled => k = Len(calls) /\ pc # "candidate"

\* Pool exhaustion is reported only when nothing is left to do: every trace is
\* a skip or a retryable failure, at least one provider was called, the
\* attempts or the candidates are used up, and the reported counts are those
\* of the provider calls and the skips.
ExhaustionIsEarned ==
  Exhausted =>
    /\ \A k \in DOMAIN traces : IsSkip(traces[k]) \/ Retryable(traces[k])
    /\ terminal.attempts = Len(calls)
    /\ terminal.attempts \in 1 .. plan.maxAttempts
    /\ terminal.attempts + terminal.skipped = Len(traces)
    /\ terminal.attempts = plan.maxAttempts \/ Len(traces) = plan.size
    /\ terminal.last \in RetryableCode

\* Plans whose budgets and deadline leave at least one unit per candidate.
Roomy(p) ==
  /\ p.protect
  /\ p.deadline >= p.size
  /\ \A c \in 1 .. p.size : BudgetFor(p, c) >= p.size

\* With protect_last_eligible and a roomy plan, the head of the loop always
\* finds at least one unit for every candidate not yet visited, whatever
\* earlier candidates spent: the deadline check never ends the invocation
\* before a candidate was tried, although only the next one's budget is reserved.
ProtectedPoolNeverStarves ==
  Roomy(plan) =>
    /\ pc = "candidate" => Remaining >= plan.size - index + 1
    /\ \A k \in DOMAIN events : events[k].family # "deadline_exceeded"

\* What the offline smoke's simulation accepts comes true: at every candidate the
\* router has at least the time and the budget left that the simulation had,
\* whatever was skipped, failed early or spent before, and the deadline check
\* never ends the invocation.
SimulationComesTrue ==
  \A left \in AcceptedWalks(plan) :
    /\ pc = "candidate" => Remaining >= left[index]
    /\ InAttempt => budget >= SimulatedBudget(plan, index, left[index])
    /\ \A k \in DOMAIN events : events[k].family # "deadline_exceeded"

IsAttemptEvent(e) == e.family \in {"pool_attempt", "endpoint_suppressed"}

IsClosingEvent(e) == e.family \in {"success", "failure", "pool_exhausted"}

\* The call's events begin with one for each trace, about the same candidate and of
\* the same kind (only a candidate with no registered adapter has a trace and no such
\* event), and there is exactly one closing event, the last one, as the call returns.
EventsMirrorTraces ==
  LET told    == {k \in DOMAIN events : IsAttemptEvent(events[k])}
      closing == {k \in DOMAIN events : IsClosingEvent(events[k])}
  IN /\ \/ told = 1 .. Len(traces)
        \/ /\ terminal.code = "UNSUPPORTED_PROVIDER_FORMAT"
           /\ told = 1 .. Len(traces) - 1
     /\ \A k \in told :
          /\ events[k].candidate = traces[k].candidate
          /\ events[k].family = "endpoint_suppressed" <=> IsSkip(traces[k])
     /\ closing = IF pc = "done" THEN {Len(events)} ELSE {}

ClosingFamily ==
  CASE terminal.code = Ok -> "success"
    [] Exhausted          -> "pool_exhausted"
    [] OTHER              -> "failure"

\* The closing event announces the verdict that is returned, about the same candidate.
VerdictIsAnnounced ==
  pc = "done" => Last(events) = Event(ClosingFamily, terminal.candidate)

\* Telemetry, the returned traces and the terminal result tell the same story.
TelemetryMirrorsTraces == EventsMirrorTraces /\ VerdictIsAnnounced

\* What the token shows when the attempt ends is binding: once it is cancelled
\* no answer is taken up any more, and a success can only be that of an answer
\* taken up before.
NoSuccessAfterCancel ==
  [][ cancelled /\ pc # "answered" =>
        /\ pc' # "answered"
        /\ terminal'.code = Ok => terminal.code = Ok ]_vars

\* A cancellation is final from wherever it finds the call.  If that is at the head
\* of the loop or in an attempt, the call comes to CANCELLED, whatever a secret or a
\* provider still answers; if no attempt is out, none is started any more.  What is
\* lost of a cancellation that comes after the second poll is only the verdict.
CancellationIsFinal ==
  /\ [](cancelled /\ pc \in {"candidate", "credential", "adapter"}
           => [](pc = "done" => terminal.code = "CANCELLED"))
  /\ [](cancelled /\ pc \in {"schema", "candidate", "answered"} => []~InAttempt)

\* A retryable availability failure that arrives in time, under a failover
\* policy with a candidate and an attempt left, never ends the invocation.
RetryableFallsThrough ==
  [][ /\ pc = "answered" /\ pc' = "done"
      /\ output.code \in RetryableCode
      /\ output.elapsed <= budget /\ elapsed <= plan.deadline
      => ~plan.failover \/ ~HasFailoverCandidate ]_vars

\* Every invocation returns a terminal result, provided the host's callbacks
\* return.
Termination == <>(pc = "done")

------------------------------------------------------------------------------
(***************************************************************************)
(* The inductive invariant behind the safety properties.                   *)
(***************************************************************************)
\* Where the loop stands: one trace per candidate left behind, an attempt
\* still allowed at the head, and no result before the return.
ControlInv ==
  /\ InLoop => index \in Candidate /\ Len(traces) = index - 1
  /\ pc = "schema" => index = 1 /\ elapsed = 0 /\ traces = <<>> /\ calls = <<>>
  /\ pc \in {"schema", "candidate"} => attempted < plan.maxAttempts
  /\ pc # "done" <=> terminal = NoTerminal

\* What remained of the deadline when the loop last stood at its head.
Left == IF pc = "answered" THEN Remaining + output.elapsed ELSE Remaining

\* Time left, and the budget computed from it.
TimeInv ==
  /\ InLoop => Left >= 0
  /\ pc \in {"credential", "adapter", "answered"} =>
       /\ Left > 0
       /\ budget = CandidateBudget(plan, index, Left)

\* The current candidate's adapter has been called.
Called == calls # <<>> /\ Last(calls).candidate = index

\* The calls made: in pool order, one per attempt that got past its credential;
\* only a call can come to a success or to a failure worth another try.
CallInv ==
  /\ \A k \in DOMAIN calls :
       /\ calls[k].candidate <= index
       /\ pc \in {"candidate", "credential"} => calls[k].candidate < index
  /\ pc = "adapter" => Called
  /\ pc = "answered" /\ ResultCode \in RetryableCode \cup {Ok} => Called
  /\ pc \in {"schema", "candidate", "adapter", "answered"} =>
       Len(calls) <= attempted
  /\ InAttempt => attempted <= plan.maxAttempts
  /\ pc = "credential" => Len(calls) < attempted
  /\ pc = "exhausted" => calls # <<>>

\* A call that started after the cancellation is the last and is not left.
CancelInv ==
  \A k \in DOMAIN calls :
    calls[k].cancelled => /\ cancelled
                          /\ k = Len(calls)
                          /\ pc \in {"adapter", "done"}

\* What protection leaves: each attempt, as long as it keeps its budget, costs
\* the time reserved for the next candidate at most one unit, so that what
\* remains is a reserve made earlier, less one unit per candidate since.
ReserveInv ==
  plan.protect /\ InLoop =>
    \/ Left >= plan.deadline - (index - 1)
    \/ \E j \in 2 .. index : Left >= BudgetFor(plan, j) - (index - j)

\* No deadline event is emitted under a roomy plan.
NoDeadlineEvent ==
  Roomy(plan) =>
    \A k \in DOMAIN events : events[k].family # "deadline_exceeded"

\* The conjunction of these is inductive with TypeOK.
RouterInv ==
  /\ ControlInv
  /\ TimeInv
  /\ OrderedFailover
  /\ SuccessInTime
  /\ CallInv
  /\ CancelInv
  /\ ReserveInv
  /\ NoDeadlineEvent

\* What the attempts made come to when the loop is left with nothing to do.
Earned ==
  /\ \A k \in DOMAIN traces : IsSkip(traces[k]) \/ Retryable(traces[k])
  /\ attempted \in 1 .. plan.maxAttempts
  /\ attempted = plan.maxAttempts \/ Len(traces) = plan.size
  /\ lastRetryable \in RetryableCode

\* Attempts, calls and traces counted against one another: an attempt has its
\* call once the credential is there, and its trace once it is handled.
CountInv ==
  /\ AttemptCount + SkippedCount = Len(traces)
  /\ pc \in {"schema", "candidate", "exhausted"} =>
       attempted = AttemptCount /\ attempted = Len(calls)
  /\ pc \in {"credential", "adapter", "answered"} =>
       attempted = AttemptCount + 1 /\ attempted <= plan.maxAttempts
  /\ pc = "credential" => attempted = Len(calls) + 1
  /\ pc = "adapter" \/ (pc = "answered" /\ Called) => attempted = Len(calls)
  /\ pc = "exhausted" => Earned

\* Until the call returns, each trace has its event and there are no others.
StoryInv ==
  pc # "done" =>
    /\ Len(events) = Len(traces)
    /\ \A k \in DOMAIN events :
         /\ IsAttemptEvent(events[k])
         /\ events[k].candidate = traces[k].candidate
         /\ events[k].family = "endpoint_suppressed" <=> IsSkip(traces[k])

\* What the call leaves behind: inductive with the router's invariant.
HistoryInv ==
  /\ CountInv
  /\ ExhaustionIsEarned
  /\ StoryInv
  /\ EventsMirrorTraces
  /\ VerdictIsAnnounced

------------------------------------------------------------------------------
\* The promise made to the caller, and the router as an implementation of it.
CallerVerdict ==
  CASE terminal.code = NoCode -> "none"
    [] terminal.code = Ok     -> "success"
    [] Exhausted              -> "exhausted"
    [] OTHER                  -> "failure"

LastCall ==
  CASE pc = "adapter"             -> "out"
    [] pc = "answered" /\ Called  -> "answered"
    [] OTHER                      -> "none"

Promise ==
  INSTANCE RoutePromise WITH
    size    <- plan.size,
    limit   <- plan.maxAttempts,
    tried   <- calls,
    last    <- LastCall,
    stopped <- cancelled,
    verdict <- CallerVerdict

\* The router implements the promise of module RoutePromise.
KeepsPromise == Promise!Spec

------------------------------------------------------------------------------
(***************************************************************************)
(* Statements of the product requirements, the designs and the README that *)
(* runs of this project refute.                                            *)
(***************************************************************************)

\* "Candidate exceeds allocated budget": the fallback may proceed while the
\* deadline lasts.  The router ends the invocation instead.
OverBudgetFallsThrough ==
  [][ /\ pc = "answered" /\ pc' = "done"
      /\ output.elapsed > budget /\ elapsed < plan.deadline
      => ~plan.failover \/ ~HasFailoverCandidate ]_vars

\* "Caller cancellation before provider call": no candidate starts.  The token is
\* not polled between the secret resolver and the adapter, and a provider is called
\* whose caller cancelled before.
CancelledStartsNoCall == \A k \in DOMAIN calls : ~calls[k].cancelled

\* "one terminal success/failure event per invocation".  An exhausted pool
\* emits neither.
FailureIsAnnounced ==
  pc = "done" /\ terminal.code # Ok =>
    \E k \in DOMAIN events : events[k].family = "failure"

\* "Provider returns refusal": the module returns a refusal.  The structured
\* pipeline looks at the payload of a refused outcome and not at its code: it
\* reports an invalid payload, or a success if the payload conforms.
RefusalIsReported ==
  pc = "done" /\ output.code = "STRUCTURED_OUTPUT_REFUSAL" =>
    terminal.code \in {"STRUCTURED_OUTPUT_REFUSAL", "CANCELLED",
                       "LATE_RESPONSE_DISCARDED"}
==============================================================================
