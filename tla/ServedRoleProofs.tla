--------------------------- MODULE ServedRoleProofs ---------------------------
(***************************************************************************)
(* Proofs about the role-health report and the invocations of the role,    *)
(* for every set of plans and of circumstances: which endpoints are called *)
(* follows the report, and what the report cannot tell is that the router  *)
(* stops at the first candidate it cannot get through to.                  *)
(***************************************************************************)
EXTENDS ServedRole, RouterProofs

------------------------------------------------------------------------------
(***************************************************************************)
(* The report.                                                             *)
(***************************************************************************)
\* An endpoint's state is the most severe of what was found.
LEMMA HealthIsWorst ==
  ASSUME NEW s, NEW c
  PROVE  /\ EndpointHealth(s, c) \in Findings(s, c)
         /\ \A other \in Findings(s, c) :
              Severity[other] <= Severity[EndpointHealth(s, c)]
  <1> DEFINE F == Findings(s, c)
             Worst(state) == \A other \in F : Severity[other] <= Severity[state]
  <1>1. /\ Severity["available"] = 0 /\ Severity["suppressed"] = 1
        /\ Severity["uncertified"] = 2 /\ Severity["failing_smoke"] = 3
        /\ Severity["missing_secret"] = 4 /\ Severity["unavailable"] = 5
    BY DEF Severity
  <1>2. /\ F \subseteq {"available", "suppressed", "uncertified", "failing_smoke",
                        "missing_secret", "unavailable"}
        /\ "available" \in F
    BY DEF Findings, If
  <1> HIDE DEF F
  <1>3. \E state \in F : Worst(state)
    <2>1. CASE "unavailable" \in F
      BY <1>1, <1>2, <2>1
    <2>2. CASE "unavailable" \notin F /\ "missing_secret" \in F
      BY <1>1, <1>2, <2>2
    <2>3. CASE F \cap {"unavailable", "missing_secret"} = {} /\ "failing_smoke" \in F
      BY <1>1, <1>2, <2>3
    <2>4. CASE /\ F \cap {"unavailable", "missing_secret", "failing_smoke"} = {}
               /\ "uncertified" \in F
      BY <1>1, <1>2, <2>4
    <2>5. CASE F \subseteq {"available", "suppressed"} /\ "suppressed" \in F
      BY <1>1, <1>2, <2>5
    <2>6. CASE F = {"available"}
      BY <1>1, <1>2, <2>6
    <2> QED
      BY <1>2, <2>1, <2>2, <2>3, <2>4, <2>5, <2>6
  <1>4. EndpointHealth(s, c) = CHOOSE state \in F : Worst(state)
    BY DEF EndpointHealth, F
  <1> HIDE DEF Worst
  <1>5. EndpointHealth(s, c) \in F /\ Worst(EndpointHealth(s, c))
    BY <1>3, <1>4
  <1> QED
    BY <1>5 DEF F, Worst

\* What an endpoint's state tells about it.
LEMMA HealthTells ==
  ASSUME NEW s, NEW c
  PROVE  /\ EndpointHealth(s, c) \in EndpointState
         /\ EndpointHealth(s, c) = "unavailable" => c \in s.unregistered
         /\ EndpointHealth(s, c) = "missing_secret" => c \in s.missing
         /\ EndpointHealth(s, c) = "suppressed" => c \in s.suppressed
         /\ EndpointHealth(s, c) = "available" =>
              c \notin s.unregistered \cup s.missing \cup s.suppressed
  <1>1. EndpointHealth(s, c) \in Findings(s, c)
    BY HealthIsWorst
  <1>2. ASSUME EndpointHealth(s, c) = "available"
        PROVE  c \notin s.unregistered \cup s.missing \cup s.suppressed
    <2>1. \A other \in Findings(s, c) : Severity[other] <= Severity["available"]
      BY <1>2, HealthIsWorst
    <2>2. /\ Severity["available"] = 0 /\ Severity["suppressed"] = 1
          /\ Severity["missing_secret"] = 4 /\ Severity["unavailable"] = 5
      BY DEF Severity
    <2>3. Findings(s, c) \cap {"unavailable", "missing_secret", "suppressed"} = {}
      BY <2>1, <2>2
    <2> QED
      BY <2>3 DEF Findings, If
  <1>3. EndpointHealth(s, c) \in EndpointState
    BY <1>1 DEF Findings, If, EndpointState, Severity
  <1> QED
    BY <1>1, <1>2, <1>3 DEF Findings, If

\* A role is available when all of its endpoints are.
LEMMA ReportTells ==
  ASSUME NEW s, NEW size
  PROVE  /\ RoleHealth(s, size) \in RoleState
         /\ RoleHealth(s, size) = "available" =>
              \A c \in 1 .. size : EndpointHealth(s, c) = "available"
  <1> DEFINE up == AvailableIn(s, size)
             uniform(state) ==
               size > 0 /\ \A c \in 1 .. size : EndpointHealth(s, c) = state
             one == CHOOSE state \in Uniform : uniform(state)
  <1>1. {"available", "fallback_only", "degraded", "unavailable"} \cup Uniform
          \subseteq RoleState
    BY DEF RoleState, EndpointState, Severity, Uniform
  <1>2. (\E state \in Uniform : uniform(state)) => one \in Uniform
    <2> HIDE DEF uniform
    <2> QED
      OBVIOUS
  <1>3. \/ RoleHealth(s, size) = "available" /\ up = 1 .. size
        \/ RoleHealth(s, size) \in {"fallback_only", "degraded", "unavailable"}
        \/ RoleHealth(s, size) = one /\ \E state \in Uniform : uniform(state)
    <2> HIDE DEF up, uniform
    <2> QED
      BY DEF RoleHealth, up, uniform
  <1>4. "available" \notin Uniform
    BY DEF Uniform
  <1> HIDE DEF one, uniform
  <1>5. RoleHealth(s, size) = "available" => up = 1 .. size
    BY <1>2, <1>3, <1>4
  <1> QED
    BY <1>1, <1>2, <1>3, <1>5 DEF AvailableIn

------------------------------------------------------------------------------
(***************************************************************************)
(* A served role's invocation is one of the router's.                      *)
(***************************************************************************)
LEMMA ServedStepIsRouterStep == [ServedNext]_servedVars => [Next]_vars
  <1>1. AttemptRefused => AttemptEnds
    BY DEF AttemptRefused, AttemptEnds, AttemptCancelled, AttemptAnswered, Settle
  <1>2. ServedStep => RouterStep
    BY <1>1 DEF ServedStep, RouterStep, NoAdapter, HasAdapter, ProviderCalled,
                ProviderAnswers
  <1> QED
    BY <1>2 DEF ServedNext, CallerCancels, Next, servedVars

\* What the circumstances leave to chance is less than what the router allows: a
\* served role implements the router.
THEOREM ServedIsRouting == ServedSpec => Spec
  <1>1. ServedInit => Init
    BY DEF ServedInit
  <1> QED
    BY <1>1, ServedStepIsRouterStep, PTL DEF ServedSpec, Spec

\* And so it keeps the router's promise to the caller.
THEOREM ServedKeepsPromise == ServedSpec => KeepsPromise
  BY ServedIsRouting, Refinement, PTL

\* So what holds of every router holds of a served role.
LEMMA ServedRouterInvariance == ServedSpec => [](TypeOK /\ RouterInv)
  BY ServedIsRouting, Invariance, PTL

------------------------------------------------------------------------------
(***************************************************************************)
(* The inductive invariant.                                                *)
(***************************************************************************)
\* A new trace of the current candidate is accounted for if that one is.
LEMMA AccountedTrace ==
  ASSUME TypeOK, AccountInv, index \in Candidate, Accounted(index),
         UNCHANGED <<plan, said, calls>>,
         NEW t \in Trace, t.candidate = index, traces' = Append(traces, t)
  PROVE  AccountInv'
  <1>1. traces \in Seq(Trace)
    BY DEF TypeOK
  <1>2. \A c : Accounted(c) => Accounted(c)'
    BY DEF Accounted, Blocked
  <1>3. Candidate' = Candidate
    BY DEF Candidate
  <1> SUFFICES ASSUME NEW k \in DOMAIN traces'
               PROVE  /\ traces'[k].candidate \in Candidate
                      /\ Accounted(traces'[k].candidate)
    BY <1>2, <1>3 DEF AccountInv
  <1>4. CASE k \in DOMAIN traces
    BY <1>1, <1>4 DEF AccountInv
  <1>5. CASE k = Len(traces) + 1
    BY <1>1, <1>5
  <1> QED
    BY <1>1, <1>4, <1>5

\* When a step leaves calls and circumstances alone, so do the parts of the
\* invariant that speak of nothing else.
LEMMA CallsKept ==
  ASSUME ServedInv, UNCHANGED <<plan, said, calls>>
  PROVE  /\ said' \in Circumstances /\ said'.suppressed = plan'.suppressed
         /\ LastResortInv' /\ BlockedCandidateIsFinal'
         /\ UNCHANGED traces => AccountInv'
  BY DEF ServedInv, LastResortInv, BlockedCandidateIsFinal, AccountInv,
         Accounted, Blocked, Candidate

\* The return of a result: nothing is asked of what comes after.
LEMMA ServedReturn ==
  ASSUME TypeOK, ServedInv, pc' \in {"done", "exhausted"},
         UNCHANGED <<plan, said, calls>>,
         \/ UNCHANGED traces
         \/ /\ index \in Candidate /\ Accounted(index)
            /\ \E t \in Trace : t.candidate = index /\ traces' = Append(traces, t)
  PROVE  ServedInv'
  <1>1. CurrentInv' /\ BehindInv'
    BY DEF CurrentInv, BehindInv, InLoop
  <1>2. AccountInv'
    BY CallsKept, AccountedTrace DEF ServedInv
  <1> QED
    BY <1>1, <1>2, CallsKept DEF ServedInv

LEMMA ServedInvInit == ServedInit => ServedInv
  BY DEF ServedInit, Init, ServedInv, CurrentInv, BehindInv, LastResortInv,
         AccountInv, BlockedCandidateIsFinal, InLoop

\* The attempt's end: refused by the program, or answered by the provider.
LEMMA ServedAttemptEnds ==
  ASSUME TypeOK, TypeOK', RouterInv, ServedInv,
         AttemptRefused \/ ProviderAnswers, UNCHANGED said
  PROVE  ServedInv'
  <1>1. PICK out \in Output : AttemptCancelled(out) \/ AttemptAnswered(out)
    BY DEF AttemptRefused, ProviderAnswers, AttemptEnds, AttemptCancelled,
           AttemptAnswered, Settle
  <1>2. /\ pc \in {"credential", "adapter"}
        /\ UNCHANGED <<plan, index, calls>>
        /\ index \in Candidate
    BY <1>1 DEF AttemptCancelled, AttemptAnswered, Settle, Output, RouterInv,
                ControlInv, InLoop
  <1>3. index \in said.missing \cup said.misfiled \/ Called
    BY DEF AttemptRefused, ProviderAnswers, RouterInv, CallInv
  <1>4. Accounted(index)
    <2>1. CASE index \in said.missing \cup said.misfiled
      BY <2>1 DEF Accounted, Blocked
    <2>2. CASE Called
      <3>1. calls \in Seq([candidate : Nat, cancelled : BOOLEAN])
        BY DEF TypeOK
      <3>2. Len(calls) \in DOMAIN calls /\ calls[Len(calls)].candidate = index
        BY <2>2, <3>1 DEF Called, Last
      <3> QED
        BY <3>2 DEF Accounted
    <2> QED
      BY <1>3, <2>1, <2>2
  <1>5. CASE AttemptCancelled(out)
    <2>1. pc' = "done"
      BY <1>5 DEF AttemptCancelled, Return
    <2>2. \E t \in Trace : t.candidate = index /\ traces' = Append(traces, t)
      <3>1. out.elapsed \in Nat /\ elapsed \in Nat /\ budget \in Nat
        BY OutputType DEF AttemptOutput, TypeOK
      <3>2. AttemptTrace("CANCELLED", budget, elapsed + out.elapsed) \in Trace
        BY <3>1, RecordTypes, Codes
      <3>3. AttemptTrace("CANCELLED", budget, elapsed + out.elapsed).candidate = index
        BY DEF AttemptTrace
      <3> QED
        BY <1>5, <3>2, <3>3 DEF AttemptCancelled, Record
    <2> QED
      BY <1>2, <1>4, <2>1, <2>2, ServedReturn
  <1>6. CASE AttemptAnswered(out)
    <2>1. pc' = "answered" /\ UNCHANGED traces
      BY <1>6 DEF AttemptAnswered
    <2>2. CurrentInv'
      BY <1>2, <1>3, <2>1 DEF ServedInv, CurrentInv, Called
    <2>3. BehindInv'
      BY <1>2, <2>1 DEF ServedInv, BehindInv, InLoop, Blocked
    <2> QED
      BY <1>2, <2>1, <2>2, <2>3, CallsKept DEF ServedInv
  <1> QED
    BY <1>1, <1>5, <1>6

\* The answer handled: a failover leaves a candidate behind that was called.
LEMMA ServedAnswerHandled ==
  ASSUME TypeOK, TypeOK', RouterInv, ServedInv, AnswerHandled, UNCHANGED said
  PROVE  ServedInv'
  <1>1. /\ pc = "answered" /\ index \in Candidate
        /\ UNCHANGED <<plan, calls>>
    BY DEF AnswerHandled, LateResponse, Success, FailOver, GiveUp, FailFast,
           InTime, RouterInv, ControlInv, InLoop
  <1>2. index \in said.missing \cup said.misfiled \/ Called
    BY <1>1 DEF ServedInv, CurrentInv
  <1>3. calls \in Seq([candidate : Nat, cancelled : BOOLEAN])
    BY DEF TypeOK
  <1>4. Called => /\ Len(calls) \in DOMAIN calls
                  /\ calls[Len(calls)].candidate = index
    BY <1>3 DEF Called, Last
  <1>5. Accounted(index)
    BY <1>2, <1>4 DEF Accounted, Blocked
  <1>6. \E t \in Trace : t.candidate = index /\ traces' = Append(traces, t)
    <2>1. PICK code \in FailureCode \cup {Ok}, time \in Nat :
            Record(code, time)
      <3>1. /\ plan.mode \in Mode /\ output \in AttemptOutput
            /\ elapsed \in Nat
        BY <1>1, PlansAssumption DEF TypeOK, WellFormedPlan
      <3>2. ResultCode \in FailureCode \cup {Ok} /\ output.elapsed \in Nat
        BY <3>1, TerminalCodeType DEF ResultCode
      <3>3. "LATE_RESPONSE_DISCARDED" \in FailureCode
        BY Codes
      <3> QED
        BY <3>1, <3>2, <3>3 DEF AnswerHandled, LateResponse, Success, FailOver,
                                GiveUp, FailFast, InTime
    <2>2. AttemptTrace(code, budget, time) \in Trace
      BY RecordTypes DEF TypeOK
    <2>3. AttemptTrace(code, budget, time).candidate = index
      BY DEF AttemptTrace
    <2> QED
      BY <2>1, <2>2, <2>3 DEF Record
  <1>7. CASE LateResponse \/ Success \/ FailFast \/ GiveUp
    <2>1. pc' \in {"done", "exhausted"}
      BY <1>7 DEF LateResponse, Success, FailFast, GiveUp, Return
    <2> QED
      BY <1>1, <1>5, <1>6, <2>1, ServedReturn
  <1>8. CASE FailOver
    <2>1. /\ pc' = "candidate" /\ index' = index + 1
          /\ ResultCode \in RetryableCode
      BY <1>8 DEF FailOver, FailoverRetryable
    <2>2. Called
      BY <1>1, <2>1 DEF RouterInv, CallInv
    <2>3. index \in Blocked => index \in plan.suppressed /\ index < plan.size
      BY <1>1, <1>4, <2>2 DEF ServedInv, BlockedCandidateIsFinal, Candidate
    <2>4. BehindInv'
      <3> SUFFICES ASSUME NEW c \in 1 .. index, c \in Blocked
                   PROVE  c \in plan.suppressed /\ c < plan.size
        BY <1>1, <2>1 DEF BehindInv, Blocked, TypeOK
      <3>1. c = index \/ c \in 1 .. index - 1
        BY <1>1 DEF TypeOK
      <3> QED
        BY <1>1, <2>3, <3>1 DEF ServedInv, BehindInv, InLoop
    <2>5. CurrentInv'
      BY <2>1 DEF CurrentInv
    <2>6. AccountInv'
      BY <1>1, <1>5, <1>6, AccountedTrace DEF ServedInv
    <2> QED
      BY <1>1, <2>4, <2>5, <2>6, CallsKept DEF ServedInv
  <1> QED
    BY <1>7, <1>8 DEF AnswerHandled

\* The provider called: neither it nor a candidate before it is one that the
\* router cannot get through to, but for what was skipped.
LEMMA ServedProviderCalled ==
  ASSUME TypeOK, TypeOK', RouterInv, ServedInv, ProviderCalled, UNCHANGED said
  PROVE  ServedInv'
  <1> DEFINE call == [candidate |-> index, cancelled |-> cancelled]
  <1>1. /\ pc = "credential" /\ pc' = "adapter" /\ index \in Candidate
        /\ UNCHANGED <<plan, index, traces>>
        /\ calls' = Append(calls, call)
        /\ index \notin said.missing \cup said.misfiled
    BY DEF ProviderCalled, CallAdapter, RouterInv, ControlInv, InLoop
  <1>2. calls \in Seq([candidate : Nat, cancelled : BOOLEAN])
    BY DEF TypeOK
  <1>3. /\ index \notin said.unregistered
        /\ index \in plan.suppressed => index = plan.size
    BY <1>1 DEF ServedInv, CurrentInv
  <1>4. CurrentInv'
    BY <1>1, <1>3 DEF CurrentInv
  <1>5. BehindInv'
    BY <1>1 DEF ServedInv, BehindInv, InLoop, Blocked
  <1>6. \A k \in DOMAIN calls' :
          \/ k \in DOMAIN calls /\ calls'[k] = calls[k]
          \/ calls'[k] = call
    BY <1>1, <1>2
  <1>7. LastResortInv'
    <2> SUFFICES ASSUME NEW k \in DOMAIN calls'
                 PROVE  /\ calls'[k].candidate \in Candidate
                        /\ calls'[k].candidate \in plan.suppressed
                             => calls'[k].candidate = plan.size
      BY <1>1 DEF LastResortInv, Candidate
    <2> QED
      BY <1>1, <1>3, <1>6 DEF ServedInv, LastResortInv
  <1>8. BlockedCandidateIsFinal'
    <2> SUFFICES ASSUME NEW k \in DOMAIN calls',
                        NEW c \in 1 .. calls'[k].candidate, c \in Blocked
                 PROVE  c \in plan.suppressed /\ c < plan.size
      BY <1>1 DEF BlockedCandidateIsFinal, Blocked
    <2>1. CASE k \in DOMAIN calls /\ calls'[k] = calls[k]
      BY <2>1 DEF ServedInv, BlockedCandidateIsFinal
    <2>2. CASE calls'[k] = call
      <3>1. index \notin Blocked
        BY <1>1, <1>3 DEF Blocked
      <3>2. c \in 1 .. index - 1
        BY <1>1, <2>2, <3>1 DEF TypeOK
      <3> QED
        BY <1>1, <3>2 DEF ServedInv, BehindInv, InLoop
    <2> QED
      BY <1>6, <2>1, <2>2
  <1>9. AccountInv'
    <2>1. \A c : Accounted(c) => Accounted(c)'
      <3>1. \A j \in DOMAIN calls : j \in DOMAIN calls' /\ calls'[j] = calls[j]
        BY <1>1, <1>2
      <3> QED
        BY <1>1, <3>1 DEF Accounted, Blocked
    <2> QED
      BY <1>1, <2>1 DEF ServedInv, AccountInv, Candidate
  <1> QED
    BY <1>1, <1>4, <1>5, <1>7, <1>8, <1>9 DEF ServedInv

\* Every step keeps the invariant.
LEMMA ServedInvStep ==
  ASSUME TypeOK, TypeOK', RouterInv, ServedInv, [ServedNext]_servedVars
  PROVE  ServedInv'
  <1>1. plan.size \in Nat /\ index \in Nat \ {0}
    BY PlansAssumption DEF TypeOK, WellFormedPlan
  <1>2. CASE SchemaReady /\ UNCHANGED said
    <2>1. /\ index' = 1 /\ pc' = "candidate"
          /\ UNCHANGED <<plan, calls, traces>>
      BY <1>2 DEF SchemaReady, history, RouterInv, ControlInv
    <2>2. CurrentInv' /\ BehindInv'
      BY <2>1 DEF CurrentInv, BehindInv
    <2> QED
      BY <1>2, <2>1, <2>2, CallsKept DEF ServedInv
  <1>3. CASE /\ \/ SchemaUnavailable \/ CancelledAtHead \/ DeadlineElapsed
                \/ PoolExhausted
             /\ UNCHANGED said
    BY <1>3, ServedReturn
       DEF SchemaUnavailable, CancelledAtHead, DeadlineElapsed, PoolExhausted,
           Return
  <1>4. CASE SkipCandidate /\ UNCHANGED said
    <2>1. /\ pc = "candidate" /\ index' = index + 1 /\ UNCHANGED <<pc, plan, calls>>
          /\ index \in Candidate /\ index \in plan.suppressed /\ index < plan.size
          /\ traces' = Append(traces, SkipTrace)
      BY <1>4 DEF SkipCandidate, NextCandidate, SkipSuppressed
    <2>2. SkipTrace \in Trace /\ SkipTrace.candidate = index
      BY RecordTypes DEF SkipTrace
    <2>3. AccountInv'
      <3>1. Accounted(index)
        BY <2>1 DEF Accounted
      <3> QED
        BY <1>4, <2>1, <2>2, <3>1, AccountedTrace DEF ServedInv
    <2>4. CurrentInv'
      BY <2>1 DEF CurrentInv
    <2>5. BehindInv'
      <3> SUFFICES ASSUME NEW c \in 1 .. index, c \in Blocked
                   PROVE  c \in plan.suppressed /\ c < plan.size
        BY <1>1, <1>4, <2>1 DEF BehindInv, Blocked
      <3>1. c = index \/ c \in 1 .. index - 1
        BY <1>1
      <3> QED
        BY <2>1, <3>1 DEF ServedInv, BehindInv, InLoop
    <2> QED
      BY <1>4, <2>1, <2>3, <2>4, <2>5, CallsKept DEF ServedInv
  <1>5. CASE NoAdapter /\ UNCHANGED said
    <2> DEFINE given == CandidateBudget(plan, index, Remaining)
               t == AttemptTrace("UNSUPPORTED_PROVIDER_FORMAT", given, 0)
    <2>1. /\ pc' = "done" /\ index \in Candidate /\ index \in said.unregistered
          /\ UNCHANGED <<plan, calls>> /\ traces' = Append(traces, t)
          /\ Remaining > 0
      BY <1>5 DEF NoAdapter, AdapterMissing, NextCandidate, Return
    <2>2. given \in Nat
      <3>1. WellFormedPlan(plan)
        BY PlansAssumption DEF TypeOK
      <3>2. plan.deadline \in Nat /\ elapsed \in Nat
        BY <3>1 DEF TypeOK, WellFormedPlan
      <3>3. Remaining > 0
        BY <2>1
      <3>4. Remaining \in Nat \ {0}
        BY <3>2, <3>3 DEF Remaining
      <3> QED
        BY <3>1, <3>4, CandidateBudgetBounds
    <2>3. t \in Trace /\ t.candidate = index
      <3>1. t \in Trace
        BY <2>2, RecordTypes, Codes
      <3>2. t.candidate = index
        BY DEF AttemptTrace
      <3> QED
        BY <3>1, <3>2
    <2>4. Accounted(index)
      BY <2>1 DEF Accounted, Blocked
    <2> HIDE DEF t
    <2> QED
      BY <1>5, <2>1, <2>3, <2>4, ServedReturn
  <1>6. CASE HasAdapter /\ UNCHANGED said
    <2>1. /\ pc = "candidate" /\ pc' = "credential" /\ index \in Candidate
          /\ UNCHANGED <<plan, index, calls, traces>>
          /\ index \notin said.unregistered
          /\ ~(index \in plan.suppressed /\ index < plan.size)
      BY <1>6 DEF HasAdapter, StartAttempt, NextCandidate, SkipSuppressed, history
    <2>2. CurrentInv'
      BY <1>1, <1>6, <2>1 DEF CurrentInv, Candidate
    <2>3. BehindInv'
      BY <1>6, <2>1 DEF ServedInv, BehindInv, InLoop, Blocked
    <2> QED
      BY <1>6, <2>1, <2>2, <2>3, CallsKept DEF ServedInv
  <1>7. CASE (AttemptRefused \/ ProviderAnswers) /\ UNCHANGED said
    BY <1>7, ServedAttemptEnds
  <1>8. CASE ProviderCalled /\ UNCHANGED said
    BY <1>8, ServedProviderCalled
  <1>9. CASE AnswerHandled /\ UNCHANGED said
    BY <1>9, ServedAnswerHandled
  <1>10. CASE CallerCancels \/ UNCHANGED servedVars
    <2>1. UNCHANGED <<plan, pc, index, calls, traces, said>>
      BY <1>10 DEF CallerCancels, Cancel, servedVars, vars, history
    <2>2. CurrentInv' /\ BehindInv'
      BY <2>1 DEF ServedInv, CurrentInv, BehindInv, InLoop, Blocked, Called
    <2> QED
      BY <2>1, <2>2, CallsKept DEF ServedInv
  <1> QED
    BY <1>2, <1>3, <1>4, <1>5, <1>6, <1>7, <1>8, <1>9, <1>10
       DEF ServedNext, ServedStep

\* The invariant of a served role, with the router's, always holds.
THEOREM ServedInvariance == ServedSpec => [](TypeOK /\ RouterInv /\ ServedInv)
  <1>1. /\ TypeOK /\ RouterInv /\ (TypeOK /\ RouterInv)'
        /\ ServedInv /\ [ServedNext]_servedVars
        => ServedInv'
    BY ServedInvStep
  <1> QED
    BY <1>1, ServedInvInit, ServedRouterInvariance, PTL DEF ServedSpec

------------------------------------------------------------------------------
(***************************************************************************)
(* What follows.                                                           *)
(***************************************************************************)
\* A candidate that cannot be got through to ends the invocation, unless it was
\* skipped: nothing after it is called.
THEOREM BlockedIsFinal == ServedSpec => []BlockedCandidateIsFinal
  BY ServedInvariance, PTL DEF ServedInv

\* No provider is called for an endpoint reported unavailable or without its
\* secret, and for a suppressed one only as the last.
THEOREM CallsFollow == ServedSpec => []CallsFollowTheReport
  <1>1. TypeOK /\ ServedInv => CallsFollowTheReport
    <2> SUFFICES ASSUME TypeOK, ServedInv, NEW k \in DOMAIN calls
                 PROVE  /\ Health(calls[k].candidate)
                              \notin {"unavailable", "missing_secret"}
                        /\ Health(calls[k].candidate) = "suppressed"
                              => calls[k].candidate = plan.size
      BY DEF CallsFollowTheReport
    <2> DEFINE c == calls[k].candidate
    <2>1. /\ c \in Candidate
          /\ c \in plan.suppressed => c = plan.size
          /\ said.suppressed = plan.suppressed
      BY DEF ServedInv, LastResortInv
    <2>2. plan.size \in Nat
      BY PlansAssumption DEF TypeOK, WellFormedPlan
    <2>3. c \in 1 .. c
      BY <2>1, <2>2 DEF Candidate
    <2>4. c \in Blocked => c \in plan.suppressed /\ c < plan.size
      BY <2>3 DEF ServedInv, BlockedCandidateIsFinal
    <2>5. c \notin Blocked
      BY <2>1, <2>2, <2>4
    <2> HIDE DEF c
    <2>6. Health(c) \notin {"unavailable", "missing_secret"}
      BY <2>5, HealthTells DEF Health, Blocked
    <2>7. Health(c) = "suppressed" => c = plan.size
      BY <2>1, HealthTells DEF Health
    <2> QED
      BY <2>6, <2>7 DEF c
  <1> QED
    BY <1>1, ServedInvariance, PTL

\* In a role reported available, what has a trace was called, unless its adapter
\* is misfiled.
THEOREM AvailableReaches == ServedSpec => []AvailableRoleReachesProviders
  <1>1. ServedInv => AvailableRoleReachesProviders
    <2> SUFFICES ASSUME ServedInv, Report = "available", NEW k \in DOMAIN traces
                 PROVE  \/ traces[k].candidate \in said.misfiled
                        \/ \E j \in DOMAIN calls :
                             calls[j].candidate = traces[k].candidate
      BY DEF AvailableRoleReachesProviders
    <2> DEFINE c == traces[k].candidate
    <2>1. c \in 1 .. plan.size /\ Accounted(c) /\ said.suppressed = plan.suppressed
      BY DEF ServedInv, AccountInv, Candidate
    <2> HIDE DEF c
    <2>2. EndpointHealth(said, c) = "available"
      BY <2>1, ReportTells DEF Report
    <2>3. c \notin said.unregistered \cup said.missing \cup said.suppressed
      BY <2>2, HealthTells
    <2> QED
      BY <2>1, <2>3 DEF Accounted, Blocked, c
  <1> QED
    BY <1>1, ServedInvariance, PTL

------------------------------------------------------------------------------
(***************************************************************************)
(* A role with nothing left but its fallback.                              *)
(***************************************************************************)
\* The fallback of a role that has nothing else is available.
LEMMA FallbackTells ==
  ASSUME NEW s, NEW size \in Nat, RoleHealth(s, size) = "fallback_only"
  PROVE  size > 1 /\ EndpointHealth(s, size) = "available"
  <1> DEFINE up == AvailableIn(s, size)
             uniform(state) ==
               size > 0 /\ \A c \in 1 .. size : EndpointHealth(s, c) = state
             one == CHOOSE state \in Uniform : uniform(state)
  <1>1. (\E state \in Uniform : uniform(state)) => one \in Uniform
    <2> HIDE DEF uniform
    <2> QED
      OBVIOUS
  <1>2. \/ RoleHealth(s, size) \in {"available", "degraded", "unavailable"}
        \/ up = {size} /\ size > 1
        \/ RoleHealth(s, size) = one /\ \E state \in Uniform : uniform(state)
    <2> HIDE DEF up, uniform
    <2> QED
      BY DEF RoleHealth, up, uniform
  <1>3. "fallback_only" \notin Uniform
    BY DEF Uniform
  <1> HIDE DEF one, uniform
  <1>4. up = {size} /\ size > 1
    BY <1>1, <1>2, <1>3
  <1> QED
    BY <1>4 DEF AvailableIn

\* Before the last endpoint there is nothing to call, and it cannot be missed.
LEMMA FallbackInvStep ==
  ASSUME TypeOK, RouterInv, ServedInv, FallbackInv, [ServedNext]_servedVars
  PROVE  FallbackInv'
  <1>1. UNCHANGED <<plan, said>>
    BY ServedStepIsRouterStep
       DEF ServedNext, ServedStep, CallerCancels, servedVars, vars, Next, RouterStep,
           SchemaReady, SchemaUnavailable, CancelledAtHead, SkipCandidate,
           DeadlineElapsed, AdapterMissing, StartAttempt, CallAdapter, AttemptEnds,
           AttemptCancelled, AttemptAnswered, Settle, AnswerHandled, LateResponse,
           Success, FailOver, GiveUp, FailFast, InTime, PoolExhausted, Cancel
  <1>2. SUFFICES ASSUME LastServes
                 PROVE  /\ pc' \in {"schema", "candidate", "credential"} => elapsed' = 0
                        /\ pc' = "done" /\ ~cancelled' /\ traces' # <<>> => calls' # <<>>
    BY <1>1 DEF FallbackInv, LastServes, Blocked
  <1>3. /\ pc \in {"schema", "candidate", "credential"} => elapsed = 0
        /\ pc = "done" /\ ~cancelled /\ traces # <<>> => calls # <<>>
    BY <1>2 DEF FallbackInv
  <1>4. plan.size \in Nat /\ plan.deadline \in Nat \ {0}
    BY PlansAssumption DEF TypeOK, WellFormedPlan
  <1>5. InLoop /\ ~SkipSuppressed => index = plan.size
    <2>1. InLoop => index \in 1 .. plan.size
      BY DEF RouterInv, ControlInv, Candidate
    <2> QED
      BY <1>2, <1>4, <2>1 DEF LastServes, SkipSuppressed
  <1>6. pc \in {"credential", "adapter", "answered"} => index = plan.size
    BY <1>4, <1>5 DEF ServedInv, CurrentInv, InLoop, SkipSuppressed
  <1>7. pc \in {"adapter", "answered"} => calls # <<>>
    BY <1>2, <1>6 DEF RouterInv, CallInv, ServedInv, CurrentInv, Called, LastServes,
                      Blocked
  <1>8. CASE SchemaReady \/ HasAdapter \/ ProviderCalled \/ SkipCandidate
    BY <1>3, <1>8 DEF SchemaReady, HasAdapter, StartAttempt, ProviderCalled,
                      CallAdapter, SkipCandidate, NextCandidate, loop
  <1>9. CASE SchemaUnavailable
    BY <1>9 DEF SchemaUnavailable, Return, RouterInv, ControlInv
  <1>10. CASE CancelledAtHead
    BY <1>10 DEF CancelledAtHead, Return
  <1>11. ~DeadlineElapsed
    BY <1>3, <1>4 DEF DeadlineElapsed, NextCandidate, Remaining
  <1>12. ~NoAdapter
    BY <1>2, <1>5 DEF NoAdapter, AdapterMissing, NextCandidate, InLoop, LastServes,
                      Blocked
  <1>13. ~AttemptRefused
    BY <1>2, <1>6 DEF AttemptRefused, LastServes, Blocked
  <1>14. CASE ProviderAnswers
    BY <1>7, <1>14 DEF ProviderAnswers, AttemptEnds, AttemptCancelled, AttemptAnswered,
                       Settle, Return
  <1>15. CASE AnswerHandled
    <2>1. pc = "answered" /\ UNCHANGED calls
      BY <1>15 DEF AnswerHandled, LateResponse, Success, FailOver, GiveUp, FailFast,
                   InTime
    <2>2. ~FailOver
      BY <1>4, <1>6, <2>1 DEF FailOver, HasFailoverCandidate
    <2>3. pc' \in {"done", "exhausted"}
      BY <1>15, <2>2 DEF AnswerHandled, LateResponse, Success, GiveUp, FailFast, Return
    <2> QED
      BY <1>7, <2>1, <2>3
  <1>16. CASE PoolExhausted
    <2>1. attempted \in Nat /\ plan.maxAttempts \in Nat
      BY PlansAssumption DEF TypeOK, WellFormedPlan
    <2>2. pc = "exhausted"
      BY <1>16, <2>1 DEF PoolExhausted, LoopOver, RouterInv, ControlInv, InLoop
    <2> QED
      BY <1>16, <2>2 DEF PoolExhausted, RouterInv, CallInv
  <1>17. CASE CallerCancels \/ UNCHANGED servedVars
    BY <1>3, <1>17 DEF CallerCancels, Cancel, servedVars, vars, loop, history
  <1> QED
    BY <1>8, <1>9, <1>10, <1>11, <1>12, <1>13, <1>14, <1>15, <1>16, <1>17
       DEF ServedNext, ServedStep

\* A role with nothing but its fallback is served by it, and by nothing else.
THEOREM FallbackServes == ServedSpec => []FallbackOnlyIsServedByTheFallback
  <1>1. ServedInit => FallbackInv
    BY DEF ServedInit, Init, FallbackInv
  <1>2. TypeOK /\ RouterInv /\ ServedInv /\ FallbackInv /\ [ServedNext]_servedVars
          => FallbackInv'
    BY FallbackInvStep
  <1>3. TypeOK /\ ServedInv /\ FallbackInv => FallbackOnlyIsServedByTheFallback
    <2> SUFFICES ASSUME TypeOK, ServedInv, FallbackInv,
                        Report = "fallback_only", said.misfiled = {},
                        \A c \in 1 .. plan.size - 1 : c \in plan.suppressed
                 PROVE  /\ \A k \in DOMAIN calls : calls[k].candidate = plan.size
                        /\ pc = "done" /\ ~cancelled /\ traces # <<>> => calls # <<>>
      BY DEF FallbackOnlyIsServedByTheFallback
    <2>1. plan.size \in Nat
      BY PlansAssumption DEF TypeOK, WellFormedPlan
    <2>2. EndpointHealth(said, plan.size) = "available"
      BY <2>1, FallbackTells DEF Report
    <2>3. LastServes
      BY <2>2, HealthTells DEF LastServes, Blocked
    <2>4. \A k \in DOMAIN calls : calls[k].candidate = plan.size
      BY <2>1 DEF ServedInv, LastResortInv, Candidate
    <2> QED
      BY <2>3, <2>4 DEF FallbackInv
  <1> QED
    BY <1>1, <1>2, <1>3, ServedInvariance, PTL DEF ServedSpec
==============================================================================
