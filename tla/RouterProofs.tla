---------------------------- MODULE RouterProofs -----------------------------
(***************************************************************************)
(* Proofs about route_invocation, for every set of plans, every set of     *)
(* provider codes and every set of reported times: the router's state is   *)
(* well typed, its invariant is inductive, and with it hold the safety     *)
(* properties of RouterProperties and the promise of RoutePromise.         *)
(***************************************************************************)
EXTENDS RouterProperties, BudgetProofs, FiniteSetTheorems, TLAPS

------------------------------------------------------------------------------
\* Facts about the taxonomy that the proofs use without opening its table.
LEMMA Codes ==
  /\ RetryableCode \subseteq FailureCode
  /\ {"CANCELLED", "LATE_RESPONSE_DISCARDED", "DEADLINE_EXCEEDED",
      "POOL_EXHAUSTED", "UNSUPPORTED_PROVIDER_FORMAT", "PROVIDER_FAILURE",
      "CREDENTIAL_UNAVAILABLE", "MISSING_SCHEMA_CONTRACT",
      "UNKNOWN_SCHEMA_CONTRACT", "INVALID_STRUCTURED_OUTPUT_PAYLOAD"}
       \subseteq FailureCode \ RetryableCode
  /\ Ok \notin FailureCode
  /\ NoCode \notin FailureCode
  /\ Ok # NoCode
  BY DEF FailureCode, RetryableCode, NonRetryableCode, Ok, NoCode

\* Whatever an attempt puts out, it is an AttemptOutput.
LEMMA OutputType ==
  ASSUME NEW out \in Output
  PROVE  out \in AttemptOutput
  <1> USE ProviderCodeAssumption, ElapsedAssumption, Codes
  <1>1. \/ \E code \in {"CREDENTIAL_UNAVAILABLE",
                        "UNSUPPORTED_PROVIDER_FORMAT", "PROVIDER_FAILURE"} :
              out = Typed(code)
        \/ \E o \in [code : FailureCode \cup {NoCode},
                     payload : Payload \cup {NoPayload}, elapsed : Nat] :
              out = Reported(o)
    BY DEF Output, InvokeOutput, ProviderOutcome
  <1>2. ASSUME NEW code \in {"CREDENTIAL_UNAVAILABLE",
                             "UNSUPPORTED_PROVIDER_FORMAT", "PROVIDER_FAILURE"},
               out = Typed(code)
        PROVE  out \in AttemptOutput
    BY <1>2 DEF Typed, AttemptOutput
  <1>3. ASSUME NEW o \in [code : FailureCode \cup {NoCode},
                          payload : Payload \cup {NoPayload}, elapsed : Nat],
               out = Reported(o)
        PROVE  out \in AttemptOutput
    BY <1>3 DEF Reported, AttemptOutput
  <1> QED
    BY <1>1, <1>2, <1>3

\* The terminal code of an output is a success or one code of the taxonomy.
LEMMA TerminalCodeType ==
  ASSUME NEW out \in AttemptOutput, NEW m \in Mode
  PROVE  /\ TerminalCode(m, out) \in FailureCode \cup {Ok}
         /\ out.elapsed \in Nat
  BY Codes DEF AttemptOutput, TerminalCode, NormalizedPlainText,
               NormalizedStructured

\* Every status the router writes for a code is one of AttemptStatus.
LEMMA StatusType ==
  ASSUME NEW code \in FailureCode \cup {Ok}
  PROVE  StatusOf(code) \in AttemptStatus
  BY DEF StatusOf, AttemptStatus

\* The smoke's copy of the budget arithmetic is the router's.
LEMMA SameArithmetic ==
  ASSUME NEW p, NEW c, NEW r
  PROVE  SimulatedBudget(p, c, r) = CandidateBudget(p, c, r)
  BY DEF SimulatedBudget, CandidateBudget, AtLeastOne, Reserve

\* So that the router's budgets are bounded as the simulated ones are.
LEMMA CandidateBudgetBounds ==
  ASSUME NEW p, WellFormedPlan(p), NEW c, NEW r \in Nat \ {0}
  PROVE  /\ CandidateBudget(p, c, r) \in Nat
         /\ CandidateBudget(p, c, r) \in 1 .. r
         /\ CandidateBudget(p, c, r) <= BudgetFor(p, c)
  BY SameArithmetic, SimulatedBudgetBounds

\* With protection, an attempt that keeps its budget leaves the next
\* candidate's allowance untouched, or costs one unit.
LEMMA ProtectedBudget ==
  ASSUME NEW p, WellFormedPlan(p), p.protect, NEW c \in 1 .. p.size,
         c < p.size, NEW r \in Nat \ {0},
         NEW e \in Nat, e <= CandidateBudget(p, c, r)
  PROVE  r - e >= r - 1 \/ r - e >= BudgetFor(p, c + 1)
  <1>1. BudgetFor(p, c) \in Nat \ {0} /\ BudgetFor(p, c + 1) \in Nat \ {0}
    BY BudgetForType
  <1> QED
    BY <1>1 DEF CandidateBudget, Reserve, AtLeastOne

------------------------------------------------------------------------------
\* The counts reported with an exhausted pool are natural numbers.
LEMMA CountType ==
  ASSUME traces \in Seq(Trace)
  PROVE  AttemptCount \in Nat /\ SkippedCount \in Nat
  <1>1. IsFiniteSet(1 .. Len(traces))
    BY FS_Interval
  <1>2. ASSUME NEW S, S \subseteq 1 .. Len(traces)
        PROVE  Cardinality(S) \in Nat
    BY <1>1, <1>2, FS_Subset, FS_CardinalityType
  <1> QED
    BY <1>2 DEF AttemptCount, SkippedCount

\* The records the router writes are of the types of its state.
LEMMA RecordTypes ==
  ASSUME TypeOK
  PROVE  /\ \A code \in FailureCode \cup {Ok}, b \in Nat, t \in Nat :
              AttemptTrace(code, b, t) \in Trace
         /\ SkipTrace \in Trace
         /\ \A family \in EventFamily, c \in Nat :
              Event(family, c) \in [family : EventFamily, candidate : Nat]
         /\ \A code \in FailureCode \cup {Ok}, c \in Nat :
              [code |-> code, candidate |-> c] \in Verdict
  <1>1. ASSUME NEW code \in FailureCode \cup {Ok}, NEW b \in Nat, NEW t \in Nat
        PROVE  AttemptTrace(code, b, t) \in Trace
    BY StatusType DEF AttemptTrace, Trace, TypeOK
  <1>2. SkipTrace \in Trace
    BY DEF SkipTrace, Trace, AttemptStatus, TypeOK
  <1>3. ASSUME NEW family \in EventFamily, NEW c \in Nat
        PROVE  Event(family, c) \in [family : EventFamily, candidate : Nat]
    BY DEF Event
  <1>4. ASSUME NEW code \in FailureCode \cup {Ok}, NEW c \in Nat
        PROVE  [code |-> code, candidate |-> c] \in Verdict
    BY DEF Verdict
  <1> QED
    BY <1>1, <1>2, <1>3, <1>4

\* The call starts in a well typed state.
LEMMA TypeInit == Init => TypeOK
  <1> SUFFICES ASSUME Init
               PROVE  TypeOK
    OBVIOUS
  <1>1. pc \in PC /\ terminal \in Verdict
    BY DEF Init, PC, Verdict
  <1>2. /\ index \in Nat \ {0} /\ attempted \in Nat /\ elapsed \in Nat
        /\ budget \in Nat
    BY DEF Init
  <1>3. /\ lastRetryable \in RetryableCode \cup {NoCode}
        /\ output \in AttemptOutput \cup {NoOutput}
        /\ plan \in Plans /\ cancelled \in BOOLEAN
    BY DEF Init
  <1>4. /\ traces \in Seq(Trace)
        /\ events \in Seq([family : EventFamily, candidate : Nat])
        /\ calls \in Seq([candidate : Nat, cancelled : BOOLEAN])
    BY DEF Init
  <1>5. pc # "answered"
    BY DEF Init
  <1> QED
    BY <1>1, <1>2, <1>3, <1>4, <1>5 DEF TypeOK

\* The steps that end an attempt keep the types.
LEMMA TypeAttemptEnds == TypeOK /\ AttemptEnds => TypeOK'
  <1> SUFFICES ASSUME TypeOK, NEW out \in Output,
                      AttemptCancelled(out) \/ AttemptAnswered(out)
               PROVE  TypeOK'
    BY DEF AttemptEnds
  <1>1. out \in AttemptOutput /\ out.elapsed \in Nat /\ out # NoOutput
    <2>1. out \in AttemptOutput
      BY OutputType
    <2> QED
      BY <2>1 DEF AttemptOutput, NoOutput
  <1>2. /\ elapsed + out.elapsed \in Nat
        /\ index \in Nat /\ budget \in Nat
    BY <1>1 DEF TypeOK
  <1>3. Settle(out) =>
          /\ output' \in AttemptOutput /\ output' # NoOutput /\ elapsed' \in Nat
          /\ UNCHANGED <<plan, index, attempted, budget, lastRetryable, calls,
                         cancelled>>
    BY <1>1, <1>2 DEF Settle
  <1>4. CASE AttemptCancelled(out)
    <2>1. traces' \in Seq(Trace)
      BY <1>2, <1>4, Codes, RecordTypes DEF AttemptCancelled, Record, TypeOK
    <2>2. events' \in Seq([family : EventFamily, candidate : Nat])
      <3> DEFINE T == [family : EventFamily, candidate : Nat]
      <3>1. \A f \in {"pool_attempt", "cancellation", "late_response_discarded",
                      "failure"} : Event(f, index) \in T
        BY <1>2, RecordTypes DEF EventFamily
      <3> QED
        BY <1>4, <3>1 DEF AttemptCancelled, TypeOK
    <2>3. pc' = "done" /\ terminal' \in Verdict
      BY <1>2, <1>4, Codes, RecordTypes DEF AttemptCancelled, Return
    <2> QED
      BY <1>3, <1>4, <2>1, <2>2, <2>3 DEF AttemptCancelled, TypeOK, PC
  <1>5. CASE AttemptAnswered(out)
    BY <1>3, <1>5 DEF AttemptAnswered, TypeOK, PC
  <1> QED
    BY <1>4, <1>5

\* The steps that handle an answer keep the types.
LEMMA TypeAnswerHandled == TypeOK /\ AnswerHandled => TypeOK'
  <1> SUFFICES ASSUME TypeOK, AnswerHandled
               PROVE  TypeOK'
    OBVIOUS
  <1> DEFINE T == [family : EventFamily, candidate : Nat]
  <1>1. \A f \in {"pool_attempt", "late_response_discarded", "failure",
                  "success"} : Event(f, index) \in T
    BY RecordTypes DEF EventFamily, TypeOK
  <1>2. index \in Nat /\ budget \in Nat /\ elapsed \in Nat
    BY DEF TypeOK
  <1>3. ResultCode \in FailureCode \cup {Ok} /\ output.elapsed \in Nat
    <2>1. pc = "answered"
      BY DEF AnswerHandled, LateResponse, Success, FailOver, GiveUp, FailFast,
             InTime
    <2>2. output \in AttemptOutput
      BY <2>1 DEF TypeOK
    <2>3. plan.mode \in Mode
      BY PlansAssumption DEF TypeOK, WellFormedPlan
    <2> QED
      BY <2>2, <2>3, TerminalCodeType DEF ResultCode
  <1>4. InTime =>
          /\ traces' \in Seq(Trace)
          /\ UNCHANGED <<plan, attempted, elapsed, budget, output, calls, cancelled>>
    <2>1. AttemptTrace(ResultCode, budget, output.elapsed) \in Trace
      BY <1>2, <1>3, RecordTypes
    <2> QED
      BY <2>1 DEF InTime, Record, TypeOK
  <1>5. CASE LateResponse
    <2>1. traces' \in Seq(Trace)
      BY <1>2, <1>5, Codes, RecordTypes DEF LateResponse, Record, TypeOK
    <2>2. events' \in Seq(T)
      BY <1>1, <1>5 DEF LateResponse, TypeOK
    <2>3. pc' = "done" /\ terminal' \in Verdict
      BY <1>2, <1>5, Codes, RecordTypes DEF LateResponse, Return
    <2> QED
      BY <1>5, <2>1, <2>2, <2>3 DEF LateResponse, loop, TypeOK, PC
  <1>6. CASE Success
    <2>1. events' \in Seq(T)
      BY <1>1, <1>6 DEF Success, TypeOK
    <2>2. pc' = "done" /\ terminal' \in Verdict
      BY <1>2, <1>6, RecordTypes DEF Success, Return
    <2> QED
      BY <1>4, <1>6, <2>1, <2>2 DEF Success, TypeOK, PC
  <1>7. CASE FailOver
    <2>1. events' \in Seq(T)
      BY <1>1, <1>7 DEF FailOver, TypeOK
    <2>2. /\ pc' = "candidate" /\ index' \in Nat \ {0} /\ UNCHANGED terminal
          /\ lastRetryable' \in RetryableCode
      BY <1>7 DEF FailOver, FailoverRetryable, TypeOK
    <2> QED
      BY <1>4, <1>7, <2>1, <2>2 DEF FailOver, TypeOK, PC
  <1>8. CASE GiveUp
    <2>1. events' \in Seq(T)
      BY <1>1, <1>8 DEF GiveUp, TypeOK
    <2>2. /\ pc' = "exhausted" /\ UNCHANGED <<index, terminal>>
          /\ lastRetryable' \in RetryableCode
      BY <1>8 DEF GiveUp, FailoverRetryable
    <2> QED
      BY <1>4, <1>8, <2>1, <2>2 DEF GiveUp, TypeOK, PC
  <1>9. CASE FailFast
    <2>1. events' \in Seq(T)
      BY <1>1, <1>9 DEF FailFast, TypeOK
    <2>2. pc' = "done" /\ terminal' \in Verdict
      BY <1>2, <1>3, <1>9, RecordTypes DEF FailFast, Return
    <2> QED
      BY <1>4, <1>9, <2>1, <2>2 DEF FailFast, TypeOK, PC
  <1> QED
    BY <1>5, <1>6, <1>7, <1>8, <1>9 DEF AnswerHandled

\* Every step of the call and of its caller keeps the types.
LEMMA TypeStep == TypeOK /\ [Next]_vars => TypeOK'
  <1> SUFFICES ASSUME TypeOK, [Next]_vars
               PROVE  TypeOK'
    OBVIOUS
  <1> DEFINE Emitted == [family : EventFamily, candidate : Nat]
  <1>1. \A family \in EventFamily, c \in Nat : Event(family, c) \in Emitted
    BY RecordTypes
  <1>2. {"failure", "cancellation", "endpoint_suppressed", "deadline_exceeded",
         "pool_exhausted"} \subseteq EventFamily
    BY DEF EventFamily
  <1>3. {"CANCELLED", "DEADLINE_EXCEEDED", "UNSUPPORTED_PROVIDER_FORMAT",
         "MISSING_SCHEMA_CONTRACT", "UNKNOWN_SCHEMA_CONTRACT"}
          \subseteq FailureCode
    BY Codes
  <1>4. index \in Nat /\ 0 \in Nat
    BY DEF TypeOK
  <1>5. WellFormedPlan(plan) /\ plan.deadline \in Nat
    BY PlansAssumption DEF TypeOK, WellFormedPlan
  <1>6. \A c \in FailureCode \cup {Ok}, k \in Nat :
          Return(c, k) => pc' = "done" /\ terminal' \in Verdict
    BY RecordTypes DEF Return
  <1>7. Remaining > 0 => CandidateBudget(plan, index, Remaining) \in Nat
    BY <1>5, CandidateBudgetBounds DEF Remaining, TypeOK
  <1>8. CASE SchemaReady
    BY <1>8 DEF SchemaReady, loop, history, TypeOK, PC
  <1>9. CASE SchemaUnavailable
    <2>1. pc' = "done" /\ terminal' \in Verdict
      BY <1>3, <1>4, <1>6, <1>9 DEF SchemaUnavailable
    <2>2. events' \in Seq(Emitted)
      BY <1>1, <1>2, <1>4, <1>9 DEF SchemaUnavailable, TypeOK
    <2> QED
      BY <1>9, <2>1, <2>2 DEF SchemaUnavailable, loop, TypeOK, PC
  <1>10. CASE CancelledAtHead
    <2>1. pc' = "done" /\ terminal' \in Verdict
      BY <1>3, <1>4, <1>6, <1>10 DEF CancelledAtHead
    <2>2. events' \in Seq(Emitted)
      BY <1>1, <1>2, <1>4, <1>10 DEF CancelledAtHead, TypeOK
    <2> QED
      BY <1>10, <2>1, <2>2 DEF CancelledAtHead, loop, TypeOK, PC
  <1>11. CASE SkipCandidate
    <2>1. traces' \in Seq(Trace)
      BY <1>11, RecordTypes DEF SkipCandidate, TypeOK
    <2>2. events' \in Seq(Emitted)
      <3>1. Event("endpoint_suppressed", index) \in Emitted
        BY <1>1, <1>2, <1>4
      <3>2. events' = Append(events, Event("endpoint_suppressed", index))
        BY <1>11 DEF SkipCandidate
      <3> QED
        BY <3>1, <3>2 DEF TypeOK
    <2>3. index' \in Nat \ {0}
      BY <1>11 DEF SkipCandidate, TypeOK
    <2>4. UNCHANGED <<plan, pc, attempted, elapsed, budget, lastRetryable,
                      output, calls, terminal, cancelled>>
      BY <1>11 DEF SkipCandidate, loop
    <2> QED
      BY <2>1, <2>2, <2>3, <2>4 DEF TypeOK
  <1>12. CASE DeadlineElapsed
    <2>1. pc' = "done" /\ terminal' \in Verdict
      BY <1>3, <1>4, <1>6, <1>12 DEF DeadlineElapsed
    <2>2. events' \in Seq(Emitted)
      BY <1>1, <1>2, <1>4, <1>12 DEF DeadlineElapsed, TypeOK
    <2> QED
      BY <1>12, <2>1, <2>2 DEF DeadlineElapsed, loop, TypeOK, PC
  <1>13. CASE AdapterMissing
    <2>1. pc' = "done" /\ terminal' \in Verdict
      BY <1>3, <1>4, <1>6, <1>13 DEF AdapterMissing
    <2>2. traces' \in Seq(Trace)
      BY <1>3, <1>4, <1>7, <1>13, RecordTypes DEF AdapterMissing, TypeOK
    <2>3. events' \in Seq(Emitted)
      BY <1>1, <1>2, <1>4, <1>13 DEF AdapterMissing, TypeOK
    <2> QED
      BY <1>13, <2>1, <2>2, <2>3 DEF AdapterMissing, loop, TypeOK, PC
  <1>14. CASE StartAttempt
    BY <1>7, <1>14 DEF StartAttempt, history, TypeOK, PC
  <1>15. CASE CallAdapter
    BY <1>4, <1>15 DEF CallAdapter, loop, TypeOK, PC
  <1>16. CASE AttemptEnds \/ AnswerHandled
    BY <1>16, TypeAttemptEnds, TypeAnswerHandled
  <1>17. CASE PoolExhausted
    <2>1. terminal' \in Verdict
      BY <1>17, CountType DEF PoolExhausted, Verdict, TypeOK
    <2>2. events' \in Seq(Emitted)
      BY <1>1, <1>2, <1>4, <1>17 DEF PoolExhausted, TypeOK
    <2> QED
      BY <1>17, <2>1, <2>2 DEF PoolExhausted, loop, TypeOK, PC
  <1>18. CASE Cancel
    BY <1>18 DEF Cancel, loop, history, TypeOK
  <1>19. CASE UNCHANGED vars
    BY <1>19 DEF vars, loop, history, TypeOK
  <1> QED
    BY <1>8, <1>9, <1>10, <1>11, <1>12, <1>13, <1>14, <1>15, <1>16, <1>17,
       <1>18, <1>19 DEF Next, RouterStep

\* The router's state is always well typed.
THEOREM TypeCorrect == Spec => []TypeOK
  BY TypeInit, TypeStep, PTL DEF Spec

------------------------------------------------------------------------------
(***************************************************************************)
(* The inductive invariant.                                                *)
(***************************************************************************)
\* The events a call emits, and an emission without the deadline's event.
EventType == [family : EventFamily, candidate : Nat]

Quiet(s) == \A k \in DOMAIN s : s[k].family # "deadline_exceeded"

\* Adding events none of which is the deadline's keeps an emission quiet.
LEMMA QuietConcat ==
  ASSUME NEW s \in Seq(EventType), NEW t \in Seq(EventType), Quiet(s), Quiet(t)
  PROVE  Quiet(s \o t)
  BY DEF Quiet

\* The same of a single event.
LEMMA QuietAppend ==
  ASSUME NEW s \in Seq(EventType), NEW e \in EventType, Quiet(s),
         e.family # "deadline_exceeded"
  PROVE  Quiet(Append(s, e))
  BY DEF Quiet

\* Under a roomy plan the head of the loop has a unit for every candidate left:
\* what the reserve invariant is for.
LEMMA HeadRoom ==
  ASSUME TypeOK, ControlInv, ReserveInv, Roomy(plan), pc = "candidate"
  PROVE  Remaining >= plan.size - index + 1
  <1>1. WellFormedPlan(plan)
    BY PlansAssumption DEF TypeOK
  <1>2. /\ plan.size \in Nat /\ plan.deadline \in Nat
        /\ elapsed \in Nat /\ index \in 1 .. plan.size
    BY <1>1 DEF TypeOK, WellFormedPlan, ControlInv, Candidate, InLoop
  <1>3. CASE Remaining >= plan.deadline - (index - 1)
    BY <1>2, <1>3 DEF Roomy, Remaining
  <1>4. ASSUME NEW j \in 2 .. index,
               Remaining >= BudgetFor(plan, j) - (index - j)
        PROVE  Remaining >= plan.size - index + 1
    <2>1. BudgetFor(plan, j) \in Nat /\ BudgetFor(plan, j) >= plan.size
      BY <1>1, <1>2, BudgetForType DEF Roomy
    <2> QED
      BY <1>2, <1>4, <2>1 DEF Remaining
  <1> QED
    BY <1>3, <1>4 DEF ReserveInv, Roomy, InLoop, Left

\* The call starts with its invariant.
LEMMA InvInit == Init => RouterInv
  <1> SUFFICES ASSUME Init
               PROVE  RouterInv
    OBVIOUS
  <1>1. WellFormedPlan(plan)
    BY PlansAssumption DEF Init
  <1>2. /\ pc = "schema" /\ index = 1 /\ attempted = 0 /\ elapsed = 0
        /\ traces = <<>> /\ events = <<>> /\ calls = <<>>
        /\ terminal = NoTerminal
    BY DEF Init
  <1>3. ControlInv
    BY <1>1, <1>2 DEF ControlInv, InLoop, WellFormedPlan
  <1>4. TimeInv /\ ReserveInv
    BY <1>2 DEF TimeInv, ReserveInv, InLoop, InAttempt
  <1>5. OrderedFailover /\ CallInv /\ CancelInv
    BY <1>2 DEF OrderedFailover, CallInv, CancelInv, InAttempt, InLoop
  <1>6. SuccessInTime /\ NoDeadlineEvent
    BY <1>2, Codes DEF SuccessInTime, NoDeadlineEvent, NoTerminal
  <1> QED
    BY <1>3, <1>4, <1>5, <1>6 DEF RouterInv

\* A failure verdict closes the loop: every part of the invariant but the one
\* about the emitted events follows, whether or not the step adds a last trace.
LEMMA ReturnStep ==
  ASSUME TypeOK, TypeOK', RouterInv,
         NEW code \in FailureCode, NEW c \in Nat, Return(code, c),
         pc # "done", UNCHANGED <<plan, index, calls, cancelled>>,
         \/ UNCHANGED traces
         \/ /\ InLoop
            /\ \E t \in Trace : t.candidate = index /\ traces' = Append(traces, t)
  PROVE  /\ ControlInv' /\ TimeInv' /\ OrderedFailover' /\ SuccessInTime'
         /\ CallInv' /\ CancelInv' /\ ReserveInv'
  <1>1. pc' = "done" /\ terminal' = [code |-> code, candidate |-> c]
    BY DEF Return
  <1>2. terminal'.code # NoCode /\ terminal'.code # Ok
    BY <1>1, Codes
  <1>3. ControlInv'
    BY <1>1, <1>2 DEF ControlInv, InLoop, NoTerminal
  <1>4. TimeInv' /\ ReserveInv'
    BY <1>1 DEF TimeInv, ReserveInv, InLoop, InAttempt
  <1>5. SuccessInTime'
    BY <1>2 DEF SuccessInTime
  <1>6. CallInv' /\ CancelInv'
    BY <1>1 DEF CallInv, CancelInv, InAttempt, RouterInv
  <1>7. CASE UNCHANGED traces
    <2> QED
      BY <1>1, <1>3, <1>4, <1>5, <1>6, <1>7
         DEF OrderedFailover, RouterInv, IsSkip, Retryable, InLoop
  <1>8. CASE /\ InLoop
             /\ \E t \in Trace : t.candidate = index /\ traces' = Append(traces, t)
    <2>1. PICK t \in Trace : t.candidate = index /\ traces' = Append(traces, t)
      BY <1>8
    <2>2. Len(traces) = index - 1 /\ traces \in Seq(Trace) /\ index \in Nat
      BY <1>8 DEF RouterInv, ControlInv, TypeOK
    <2>3. OrderedFailover'
      <3> SUFFICES ASSUME NEW k \in DOMAIN traces'
                   PROVE  /\ traces'[k].candidate = k
                          /\ k < Len(traces') =>
                               \/ IsSkip(traces'[k])
                               \/ Retryable(traces'[k]) /\ plan.failover
        BY <1>1 DEF OrderedFailover, InLoop
      <3>1. CASE k \in DOMAIN traces
        BY <1>8, <2>1, <2>2, <3>1 DEF RouterInv, OrderedFailover
      <3>2. CASE k = Len(traces) + 1
        BY <2>1, <2>2, <3>2
      <3> QED
        BY <2>1, <2>2, <3>1, <3>2
    <2> QED
      BY <1>3, <1>4, <1>5, <1>6, <2>3
  <1> QED
    BY <1>7, <1>8

\* A call made names a candidate and the token's state.
LEMMA CallType ==
  ASSUME TypeOK
  PROVE  \A k \in DOMAIN calls :
           calls[k] \in [candidate : Nat, cancelled : BOOLEAN]
  <1> DEFINE T == [candidate : Nat, cancelled : BOOLEAN]
  <1>1. calls \in Seq(T)
    BY DEF TypeOK
  <1> HIDE DEF T
  <1>2. \A k \in DOMAIN calls : calls[k] \in T
    BY <1>1
  <1> QED
    BY <1>2 DEF T

\* Only a call to the adapter puts out a success or a retryable failure.
LEMMA OnlyAdapterAnswers ==
  ASSUME NEW out \in Output,
         TerminalCode(plan.mode, out) \in RetryableCode \cup {Ok}
  PROVE  pc = "adapter"
  <1>1. ASSUME pc = "credential"
        PROVE  TerminalCode(plan.mode, out) \in
                 {"CREDENTIAL_UNAVAILABLE", "UNSUPPORTED_PROVIDER_FORMAT"}
    BY <1>1 DEF Output, Typed, TerminalCode
  <1>2. pc \in {"credential", "adapter"}
    BY DEF Output
  <1> QED
    BY <1>1, <1>2, Codes

\* The end of an attempt and the handling of its answer emit no deadline event.
LEMMA AttemptEndsQuietly ==
  ASSUME TypeOK, AttemptEnds \/ AnswerHandled, Quiet(events)
  PROVE  Quiet(events')
  <1> DEFINE Say(f) == Event(f, index)
             Told   == {Say(f) : f \in {"pool_attempt", "cancellation",
                          "late_response_discarded", "failure", "success"}}
  <1>1. \A e \in Told : e \in EventType /\ e.family # "deadline_exceeded"
    BY DEF Event, EventType, EventFamily, TypeOK
  <1>2. events \in Seq(EventType)
    BY DEF TypeOK, EventType
  <1>3. {Say("pool_attempt"), Say("cancellation"), Say("failure"),
         Say("late_response_discarded"), Say("success")} \subseteq Told
    OBVIOUS
  <1>4. \/ UNCHANGED events
        \/ events' = Append(events, Say("pool_attempt"))
        \/ \E t \in Seq(Told) : events' = events \o t
    <2>1. CASE \E out \in Output : AttemptCancelled(out)
      <3> DEFINE t == <<Say("pool_attempt"), Say("cancellation"),
                        Say("late_response_discarded"), Say("failure")>>
      <3>1. events' = events \o t
        BY <2>1 DEF AttemptCancelled
      <3> HIDE DEF Told, Say
      <3>2. t \in Seq(Told)
        BY <1>3
      <3> QED
        BY <3>1, <3>2
    <2>2. CASE \E out \in Output : AttemptAnswered(out)
      BY <2>2 DEF AttemptAnswered
    <2>3. CASE LateResponse
      <3> DEFINE t == <<Say("pool_attempt"), Say("late_response_discarded"),
                        Say("failure")>>
      <3>1. events' = events \o t
        BY <2>3 DEF LateResponse
      <3> HIDE DEF Told, Say
      <3>2. t \in Seq(Told)
        BY <1>3
      <3> QED
        BY <3>1, <3>2
    <2>4. CASE Success
      <3> DEFINE t == <<Say("pool_attempt"), Say("success")>>
      <3>1. events' = events \o t
        BY <2>4 DEF Success
      <3> HIDE DEF Told, Say
      <3>2. t \in Seq(Told)
        BY <1>3
      <3> QED
        BY <3>1, <3>2
    <2>5. CASE FailFast
      <3> DEFINE t == <<Say("pool_attempt"), Say("failure")>>
      <3>1. events' = events \o t
        BY <2>5 DEF FailFast
      <3> HIDE DEF Told, Say
      <3>2. t \in Seq(Told)
        BY <1>3
      <3> QED
        BY <3>1, <3>2
    <2>6. CASE FailOver \/ GiveUp
      BY <2>6 DEF FailOver, GiveUp
    <2> QED
      BY <2>1, <2>2, <2>3, <2>4, <2>5, <2>6 DEF AttemptEnds, AnswerHandled
  <1> HIDE DEF Told, Say
  <1>5. ASSUME NEW t \in Seq(Told), events' = events \o t
        PROVE  Quiet(events')
    <2>1. t \in Seq(EventType) /\ Quiet(t)
      BY <1>1 DEF Quiet
    <2> QED
      BY <1>2, <1>5, <2>1, QuietConcat
  <1>6. CASE events' = Append(events, Say("pool_attempt"))
    BY <1>1, <1>2, <1>3, <1>6, QuietAppend
  <1> QED
    BY <1>4, <1>5, <1>6

\* An answer that came in time keeps what is left for the candidates that
\* follow.
LEMMA ReserveKept ==
  ASSUME TypeOK, RouterInv, pc = "answered", index < plan.size, plan.protect,
         output.elapsed <= budget
  PROVE  \/ Remaining >= plan.deadline - index
         \/ \E j \in 2 .. index + 1 :
              Remaining >= BudgetFor(plan, j) - (index + 1 - j)
  <1>1. WellFormedPlan(plan)
    BY PlansAssumption DEF TypeOK
  <1>2. /\ plan.size \in Nat /\ plan.deadline \in Nat /\ elapsed \in Nat
        /\ output.elapsed \in Nat
    BY <1>1 DEF TypeOK, WellFormedPlan, AttemptOutput
  <1>3. /\ Left = Remaining + output.elapsed /\ Remaining \in Int
        /\ Left \in Int
    BY <1>2 DEF Left, Remaining
  <1>4. /\ index \in 1 .. plan.size
        /\ Left > 0 /\ budget = CandidateBudget(plan, index, Left)
    BY DEF RouterInv, ControlInv, TimeInv, InLoop, Candidate
  <1>5. \A j : BudgetFor(plan, j) \in Nat
    BY <1>1, BudgetForType
  <1>6. Left - output.elapsed >= Left - 1
        \/ Left - output.elapsed >= BudgetFor(plan, index + 1)
    BY <1>1, <1>2, <1>3, <1>4, ProtectedBudget
  <1>7. CASE Remaining >= BudgetFor(plan, index + 1)
    <2>1. index + 1 \in 2 .. index + 1
      BY <1>2, <1>4
    <2>2. Remaining >= BudgetFor(plan, index + 1) - (index + 1 - (index + 1))
      BY <1>3, <1>4, <1>5, <1>7
    <2> QED
      BY <2>1, <2>2
  <1>8. CASE Remaining >= Left - 1
    <2>1. \/ Left >= plan.deadline - (index - 1)
          \/ \E j \in 2 .. index : Left >= BudgetFor(plan, j) - (index - j)
      BY DEF RouterInv, ReserveInv, InLoop
    <2>2. CASE Left >= plan.deadline - (index - 1)
      BY <1>2, <1>3, <1>4, <1>8, <2>2
    <2>3. ASSUME NEW j \in 2 .. index,
                 Left >= BudgetFor(plan, j) - (index - j)
          PROVE  /\ j \in 2 .. index + 1
                 /\ Remaining >= BudgetFor(plan, j) - (index + 1 - j)
      BY <1>2, <1>3, <1>4, <1>5, <1>8, <2>3
    <2> QED
      BY <2>1, <2>2, <2>3
  <1> QED
    BY <1>2, <1>3, <1>6, <1>7, <1>8

\* A recorded answer is the trace of the current candidate; the candidates
\* before it stay passed over.
LEMMA RecordInOrder ==
  ASSUME TypeOK, RouterInv, pc = "answered", UNCHANGED plan,
         NEW t \in Trace, t.candidate = index, traces' = Append(traces, t),
         (Retryable(t) /\ plan.failover) \/ ~InLoop'
  PROVE  /\ OrderedFailover'
         /\ Len(traces') = index
         /\ Last(traces') = t
  <1>1. Len(traces) = index - 1 /\ traces \in Seq(Trace) /\ index \in Nat
    BY DEF RouterInv, ControlInv, TypeOK, InLoop
  <1>2. Len(traces') = index /\ Last(traces') = t
    BY <1>1 DEF Last
  <1>3. SUFFICES ASSUME NEW k \in DOMAIN traces'
                 PROVE  /\ traces'[k].candidate = k
                        /\ k < Len(traces') \/ InLoop' =>
                             \/ IsSkip(traces'[k])
                             \/ Retryable(traces'[k]) /\ plan.failover
    BY <1>2 DEF OrderedFailover
  <1>4. CASE k \in DOMAIN traces
    BY <1>1, <1>4 DEF RouterInv, OrderedFailover, InLoop
  <1>5. CASE k = Len(traces) + 1
    BY <1>1, <1>5
  <1> QED
    BY <1>1, <1>2, <1>4, <1>5

\* The end of an attempt keeps the invariant.
LEMMA InvAttemptEnds ==
  ASSUME TypeOK, TypeOK', RouterInv, AttemptEnds
  PROVE  RouterInv'
  <1>1. PICK out \in Output : AttemptCancelled(out) \/ AttemptAnswered(out)
    BY DEF AttemptEnds
  <1>2. /\ Settle(out) /\ UNCHANGED <<plan, index, attempted, budget, calls,
                                      cancelled>>
        /\ output' = out /\ elapsed' = elapsed + out.elapsed
    BY <1>1 DEF AttemptCancelled, AttemptAnswered, Settle
  <1>3. out.elapsed \in Nat /\ elapsed \in Nat /\ index \in Nat /\ budget \in Nat
    BY OutputType DEF AttemptOutput, TypeOK
  <1>4. InAttempt /\ InLoop /\ pc # "done"
    BY DEF Output, InAttempt, InLoop
  <1>5. NoDeadlineEvent'
    <2>1. SUFFICES ASSUME Roomy(plan)
                   PROVE  Quiet(events')
      BY <1>2 DEF NoDeadlineEvent, Quiet
    <2> QED
      BY <2>1, AttemptEndsQuietly DEF RouterInv, NoDeadlineEvent, Quiet
  <1>6. CASE AttemptCancelled(out)
    <2>1. /\ Return("CANCELLED", index) /\ "CANCELLED" \in FailureCode
          /\ traces' = Append(traces,
                         AttemptTrace("CANCELLED", budget, elapsed + out.elapsed))
      BY <1>6, Codes DEF AttemptCancelled, Record
    <2>2. /\ AttemptTrace("CANCELLED", budget, elapsed + out.elapsed) \in Trace
          /\ AttemptTrace("CANCELLED", budget, elapsed + out.elapsed).candidate
               = index
      BY <1>3, <2>1, RecordTypes DEF AttemptTrace
    <2> QED
      BY <1>2, <1>3, <1>4, <1>5, <2>1, <2>2, ReturnStep DEF RouterInv
  <1>7. CASE AttemptAnswered(out)
    <2>1. /\ pc' = "answered" /\ ~cancelled
          /\ UNCHANGED <<plan, index, traces, events, terminal>>
      BY <1>2, <1>7 DEF AttemptAnswered
    <2>2. Left' = Remaining /\ Left = Remaining
      <3>1. plan.deadline \in Nat
        BY PlansAssumption DEF TypeOK, WellFormedPlan
      <3> QED
        BY <1>2, <1>3, <1>4, <2>1, <3>1 DEF Left, Remaining, InAttempt
    <2>3. ControlInv' /\ TimeInv' /\ ReserveInv'
      BY <1>2, <1>4, <2>1, <2>2 DEF ControlInv, TimeInv, ReserveInv, InLoop,
                                    InAttempt, RouterInv, Candidate
    <2>4. OrderedFailover'
      BY <1>4, <2>1 DEF RouterInv, OrderedFailover, InLoop
    <2>5. CallInv'
      <3>1. \A k \in DOMAIN calls : calls[k].candidate <= index
        BY DEF RouterInv, CallInv
      <3>2. Len(calls) <= attempted
        BY <1>4 DEF RouterInv, CallInv, InAttempt, TypeOK
      <3>3. ResultCode' \in RetryableCode \cup {Ok} => Called'
        <4>1. ResultCode' = TerminalCode(plan.mode, out) /\ Called' = Called
          BY <1>2 DEF ResultCode, Called
        <4>2. ASSUME TerminalCode(plan.mode, out) \in RetryableCode \cup {Ok}
              PROVE  Called
          BY <4>2, OnlyAdapterAnswers DEF RouterInv, CallInv
        <4> QED
          BY <4>1, <4>2
      <3> QED
        BY <1>2, <2>1, <3>1, <3>2, <3>3 DEF CallInv, InAttempt
    <2>6. CancelInv'
      BY <1>2, <2>1 DEF RouterInv, CancelInv
    <2>7. SuccessInTime'
      BY <1>4, <2>1, Codes DEF RouterInv, ControlInv, NoTerminal, SuccessInTime
    <2> QED
      BY <1>5, <2>3, <2>4, <2>5, <2>6, <2>7 DEF RouterInv
  <1> QED
    BY <1>1, <1>6, <1>7

\* So does what the router makes of its answer.
LEMMA InvAnswerHandled ==
  ASSUME TypeOK, TypeOK', RouterInv, AnswerHandled
  PROVE  RouterInv'
  <1>1. pc = "answered" /\ InLoop /\ pc # "done"
        /\ UNCHANGED <<plan, attempted, elapsed, budget, output, calls, cancelled>>
    BY DEF AnswerHandled, LateResponse, Success, FailOver, GiveUp, FailFast,
           InTime, InLoop, loop
  <1>2. /\ WellFormedPlan(plan) /\ plan.mode \in Mode
        /\ plan.size \in Nat /\ plan.deadline \in Nat
    BY PlansAssumption DEF TypeOK, WellFormedPlan
  <1>3. /\ output \in AttemptOutput /\ output.elapsed \in Nat
        /\ ResultCode \in FailureCode \cup {Ok}
    <2>1. output \in AttemptOutput
      BY <1>1 DEF TypeOK
    <2> QED
      BY <1>2, <2>1, TerminalCodeType DEF ResultCode
  <1>4. /\ index \in 1 .. plan.size /\ index \in Nat /\ elapsed \in Nat
        /\ budget \in Nat
    BY <1>1 DEF RouterInv, ControlInv, Candidate, TypeOK
  <1>5. NoDeadlineEvent'
    <2>1. SUFFICES ASSUME Roomy(plan)
                   PROVE  Quiet(events')
      BY <1>1 DEF NoDeadlineEvent, Quiet
    <2> QED
      BY <2>1, AttemptEndsQuietly DEF RouterInv, NoDeadlineEvent, Quiet
  <1>6. CASE LateResponse
    <2>1. /\ Return("LATE_RESPONSE_DISCARDED", index)
          /\ "LATE_RESPONSE_DISCARDED" \in FailureCode
          /\ traces' = Append(traces,
                         AttemptTrace("LATE_RESPONSE_DISCARDED", budget, elapsed))
          /\ UNCHANGED index
      BY <1>6, Codes DEF LateResponse, Record
    <2>2. /\ AttemptTrace("LATE_RESPONSE_DISCARDED", budget, elapsed) \in Trace
          /\ AttemptTrace("LATE_RESPONSE_DISCARDED", budget, elapsed).candidate
               = index
      BY <1>4, <2>1, RecordTypes DEF AttemptTrace
    <2> QED
      BY <1>1, <1>4, <1>5, <2>1, <2>2, ReturnStep DEF RouterInv
  <1>7. ASSUME InTime
        PROVE  /\ output.elapsed <= budget
               /\ elapsed <= plan.deadline
               /\ \E t \in Trace :
                    /\ traces' = Append(traces, t)
                    /\ t.candidate = index /\ t.status = StatusOf(ResultCode)
                    /\ t.budget = budget /\ t.elapsed = output.elapsed
    <2>1. output.elapsed <= budget /\ elapsed <= plan.deadline
      BY <1>2, <1>3, <1>4, <1>7 DEF InTime, Late
    <2>2. traces' = Append(traces, AttemptTrace(ResultCode, budget, output.elapsed))
      BY <1>7 DEF InTime, Record
    <2>3. AttemptTrace(ResultCode, budget, output.elapsed) \in Trace
      BY <1>3, <1>4, RecordTypes
    <2> QED
      BY <2>1, <2>2, <2>3 DEF AttemptTrace
  <1>8. CASE FailFast
    <2>1. InTime /\ ResultCode \in FailureCode /\ Return(ResultCode, index)
          /\ UNCHANGED index
      BY <1>3, <1>8 DEF FailFast
    <2>2. \E t \in Trace : t.candidate = index /\ traces' = Append(traces, t)
      BY <1>7, <2>1
    <2> QED
      BY <1>1, <1>4, <1>5, <2>1, <2>2, ReturnStep DEF RouterInv
  <1>9. CASE Success
    <2>1. /\ InTime /\ ResultCode = Ok /\ UNCHANGED index
          /\ pc' = "done" /\ terminal' = [code |-> Ok, candidate |-> index]
      BY <1>9 DEF Success, Return
    <2>2. PICK t \in Trace :
            /\ traces' = Append(traces, t)
            /\ t.candidate = index /\ t.status = StatusOf(ResultCode)
            /\ t.budget = budget /\ t.elapsed = output.elapsed
      BY <1>7, <2>1
    <2>3. Called
      BY <1>1, <2>1 DEF RouterInv, CallInv
    <2>4. t.status = "success"
      <3>1. StatusOf(Ok) = "success"
        BY Codes DEF StatusOf, Ok
      <3> QED
        BY <2>1, <2>2, <3>1
    <2>5. OrderedFailover' /\ Len(traces') = index /\ Last(traces') = t
      BY <1>1, <2>1, <2>2, RecordInOrder DEF InLoop
    <2>6. ControlInv' /\ TimeInv' /\ ReserveInv'
      BY <2>1, Codes DEF ControlInv, TimeInv, ReserveInv, InLoop, InAttempt,
                         NoTerminal
    <2>7. CallInv' /\ CancelInv'
      BY <1>1, <2>1 DEF CallInv, CancelInv, InAttempt, RouterInv
    <2>8. SuccessInTime'
      <3>1. calls' # <<>> /\ Last(calls') = Last(calls)
            /\ Last(calls).candidate = index
        BY <1>1, <2>3 DEF Called
      <3>2. traces' # <<>>
        BY <1>4, <2>5
      <3> QED
        BY <1>1, <1>7, <2>1, <2>2, <2>4, <2>5, <3>1, <3>2 DEF SuccessInTime
    <2> QED
      BY <1>5, <2>5, <2>6, <2>7, <2>8 DEF RouterInv
  <1>10. terminal.code # Ok
    BY <1>1, Codes DEF RouterInv, ControlInv, NoTerminal
  <1>11. ASSUME FailOver \/ GiveUp
         PROVE  /\ InTime /\ ResultCode \in RetryableCode /\ plan.failover
                /\ Called /\ UNCHANGED terminal
                /\ StatusOf(ResultCode) = "retryable_failure"
    <2>1. /\ InTime /\ ResultCode \in RetryableCode /\ plan.failover
          /\ UNCHANGED terminal
      BY <1>11 DEF FailOver, GiveUp, FailoverRetryable
    <2>2. Called
      BY <1>1, <2>1 DEF RouterInv, CallInv
    <2>3. ResultCode \notin {Ok, "CANCELLED", "LATE_RESPONSE_DISCARDED"}
      BY <2>1, Codes
    <2> QED
      BY <2>1, <2>2, <2>3 DEF StatusOf
  <1>12. \A k \in DOMAIN calls :
           /\ calls[k].candidate \in Nat /\ calls[k].candidate <= index
           /\ ~calls[k].cancelled
    <2>1. \A k \in DOMAIN calls : calls[k].candidate \in Nat
      BY CallType
    <2>2. \A k \in DOMAIN calls : calls[k].candidate <= index
      BY DEF RouterInv, CallInv
    <2>3. \A k \in DOMAIN calls : ~calls[k].cancelled
      BY <1>1 DEF RouterInv, CancelInv
    <2> QED
      BY <2>1, <2>2, <2>3
  <1>13. CASE FailOver
    <2>1. /\ pc' = "candidate" /\ index' = index + 1
          /\ attempted < plan.maxAttempts /\ index < plan.size
      BY <1>13 DEF FailOver, HasFailoverCandidate
    <2>2. /\ InTime /\ plan.failover /\ UNCHANGED terminal
          /\ StatusOf(ResultCode) = "retryable_failure"
      BY <1>11, <1>13
    <2>3. PICK t \in Trace :
            /\ traces' = Append(traces, t)
            /\ t.candidate = index /\ t.status = StatusOf(ResultCode)
      BY <1>7, <2>2
    <2>4. OrderedFailover' /\ Len(traces') = index
      BY <1>1, <2>2, <2>3, RecordInOrder DEF Retryable
    <2>5. ControlInv'
      BY <1>1, <1>2, <1>4, <2>1, <2>2, <2>4
         DEF ControlInv, InLoop, RouterInv, Candidate
    <2>6. TimeInv'
      <3>1. Left' = plan.deadline - elapsed
        BY <1>1, <2>1 DEF Left, Remaining
      <3>2. Left' >= 0
        BY <1>2, <1>4, <1>7, <2>2, <3>1
      <3> QED
        BY <2>1, <3>2 DEF TimeInv
    <2>7. CallInv' /\ CancelInv'
      <3>1. Len(calls) <= attempted
        BY <1>1 DEF RouterInv, CallInv
      <3>2. CancelInv'
        BY <1>1, <1>12 DEF CancelInv
      <3>3. \A k \in DOMAIN calls' :
              calls'[k].candidate <= index' /\ calls'[k].candidate < index'
        BY <1>1, <1>4, <1>12, <2>1
      <3>4. CallInv'
        BY <1>1, <2>1, <3>1, <3>3 DEF CallInv, InAttempt
      <3> QED
        BY <3>2, <3>4
    <2>8. SuccessInTime'
      BY <1>10, <2>2 DEF SuccessInTime
    <2>9. ReserveInv'
      <3>1. ASSUME plan.protect
            PROVE  \/ Remaining >= plan.deadline - index
                   \/ \E j \in 2 .. index + 1 :
                        Remaining >= BudgetFor(plan, j) - (index + 1 - j)
        BY <1>1, <1>7, <2>1, <2>2, <3>1, ReserveKept
      <3>2. /\ Left' = Remaining /\ plan' = plan
            /\ index' - 1 = index /\ index' = index + 1
        BY <1>1, <1>4, <2>1 DEF Left, Remaining
      <3>3. ASSUME plan'.protect
            PROVE  \/ Left' >= plan'.deadline - (index' - 1)
                   \/ \E j \in 2 .. index' :
                        Left' >= BudgetFor(plan', j) - (index' - j)
        BY <3>1, <3>2, <3>3
      <3> QED
        BY <3>3 DEF ReserveInv
    <2> QED
      BY <1>5, <2>4, <2>5, <2>6, <2>7, <2>8, <2>9 DEF RouterInv
  <1>14. CASE GiveUp
    <2>1. pc' = "exhausted" /\ UNCHANGED index
      BY <1>14 DEF GiveUp
    <2>2. InTime /\ UNCHANGED terminal /\ Called
      BY <1>11, <1>14
    <2>3. PICK t \in Trace : traces' = Append(traces, t) /\ t.candidate = index
      BY <1>7, <2>2
    <2>4. OrderedFailover'
      BY <1>1, <2>1, <2>3, RecordInOrder DEF InLoop
    <2>5. ControlInv' /\ TimeInv' /\ ReserveInv'
      BY <1>1, <2>1, <2>2 DEF ControlInv, TimeInv, ReserveInv, InLoop, InAttempt,
                              RouterInv
    <2>6. CallInv' /\ CancelInv'
      BY <1>1, <1>12, <2>1, <2>2 DEF CallInv, CancelInv, InAttempt, RouterInv,
                                     Called
    <2>7. SuccessInTime'
      BY <1>10, <2>2 DEF SuccessInTime
    <2> QED
      BY <1>5, <2>4, <2>5, <2>6, <2>7 DEF RouterInv
  <1> QED
    BY <1>6, <1>8, <1>9, <1>13, <1>14 DEF AnswerHandled

\* Every step of the call and of its caller keeps the invariant.
LEMMA InvStep ==
  ASSUME TypeOK, TypeOK', RouterInv, [Next]_vars
  PROVE  RouterInv'
  <1>1. /\ WellFormedPlan(plan)
        /\ plan.size \in Nat \ {0} /\ plan.deadline \in Nat \ {0}
        /\ plan.maxAttempts \in Nat \ {0}
    BY PlansAssumption DEF TypeOK, WellFormedPlan
  <1>2. index \in Nat /\ 0 \in Nat /\ elapsed \in Nat /\ attempted \in Nat
    BY DEF TypeOK
  <1>3. events \in Seq(EventType)
    BY DEF TypeOK, EventType
  <1>4. Roomy(plan) => Quiet(events)
    BY DEF RouterInv, NoDeadlineEvent, Quiet
  <1>5. \A f \in EventFamily, c \in Nat :
          Event(f, c) \in EventType /\ Event(f, c).family = f
    BY DEF Event, EventType
  <1>6. pc # "done" => terminal.code # Ok
    BY Codes DEF RouterInv, ControlInv, NoTerminal
  <1>7. CASE SchemaReady
    <2>1. /\ pc = "schema" /\ pc' = "candidate"
          /\ UNCHANGED <<plan, index, attempted, elapsed, traces, events, calls,
                         terminal, cancelled>>
      BY <1>7 DEF SchemaReady, loop, history
    <2>2. /\ index = 1 /\ elapsed = 0 /\ traces = <<>> /\ calls = <<>>
          /\ attempted < plan.maxAttempts
      BY <2>1 DEF RouterInv, ControlInv
    <2>3. ControlInv'
      BY <1>1, <2>1, <2>2 DEF ControlInv, InLoop, RouterInv, Candidate
    <2>4. TimeInv' /\ ReserveInv'
      BY <1>1, <2>1, <2>2 DEF TimeInv, ReserveInv, InLoop, InAttempt, Remaining,
                              Left
    <2>5. OrderedFailover' /\ CallInv' /\ CancelInv'
      BY <1>2, <2>1, <2>2 DEF OrderedFailover, CallInv, CancelInv, InAttempt
    <2>6. SuccessInTime' /\ NoDeadlineEvent'
      BY <1>4, <1>6, <2>1 DEF SuccessInTime, NoDeadlineEvent, Quiet
    <2> QED
      BY <2>3, <2>4, <2>5, <2>6 DEF RouterInv
  <1>8. CASE SchemaUnavailable
    <2>1. PICK code \in FailureCode : Return(code, 0)
      BY <1>8, Codes DEF SchemaUnavailable
    <2>2. /\ pc # "done" /\ UNCHANGED <<plan, index, calls, cancelled, traces>>
      BY <1>8 DEF SchemaUnavailable
    <2>3. Roomy(plan) => Quiet(events')
      <3>1. Event("failure", 0) \in EventType
            /\ Event("failure", 0).family = "failure"
        BY <1>5 DEF EventFamily
      <3> QED
        BY <1>3, <1>4, <1>8, <3>1, QuietAppend DEF SchemaUnavailable
    <2>4. NoDeadlineEvent'
      BY <2>2, <2>3 DEF NoDeadlineEvent, Quiet
    <2> QED
      BY <1>2, <2>1, <2>2, <2>4, ReturnStep DEF RouterInv
  <1>9. CASE CancelledAtHead
    <2>1. /\ Return("CANCELLED", 0) /\ "CANCELLED" \in FailureCode
          /\ pc # "done" /\ UNCHANGED <<plan, index, calls, cancelled, traces>>
      BY <1>9, Codes DEF CancelledAtHead
    <2>2. Roomy(plan) => Quiet(events')
      <3> DEFINE t == <<Event("cancellation", 0), Event("failure", 0)>>
      <3>1. t \in Seq(EventType) /\ Quiet(t)
        BY <1>5 DEF EventFamily, Quiet
      <3>2. events' = events \o t
        BY <1>9 DEF CancelledAtHead
      <3> QED
        BY <1>3, <1>4, <3>1, <3>2, QuietConcat
    <2>3. NoDeadlineEvent'
      BY <2>1, <2>2 DEF NoDeadlineEvent, Quiet
    <2> QED
      BY <1>2, <2>1, <2>3, ReturnStep DEF RouterInv
  <1>10. CASE SkipCandidate
    <2>1. /\ pc = "candidate" /\ index < plan.size /\ index' = index + 1
          /\ traces' = Append(traces, SkipTrace) /\ ~cancelled
          /\ events' = Append(events, Event("endpoint_suppressed", index))
          /\ UNCHANGED <<plan, pc, attempted, elapsed, calls, terminal, cancelled>>
      BY <1>10 DEF SkipCandidate, NextCandidate, SkipSuppressed, loop
    <2>2. /\ index \in 1 .. plan.size /\ Len(traces) = index - 1
          /\ traces \in Seq(Trace) /\ attempted < plan.maxAttempts
      BY <2>1 DEF RouterInv, ControlInv, InLoop, Candidate, TypeOK
    <2>3. SkipTrace.candidate = index /\ IsSkip(SkipTrace) /\ SkipTrace \in Trace
      BY RecordTypes DEF SkipTrace, IsSkip
    <2>4. ControlInv'
      BY <1>1, <2>1, <2>2, <2>3 DEF ControlInv, InLoop, RouterInv, Candidate
    <2>5. TimeInv'
      BY <2>1 DEF TimeInv, InLoop, InAttempt, RouterInv, Remaining, Left
    <2>6. OrderedFailover'
      <3> SUFFICES ASSUME NEW k \in DOMAIN traces'
                   PROVE  /\ traces'[k].candidate = k
                          /\ \/ IsSkip(traces'[k])
                             \/ Retryable(traces'[k]) /\ plan.failover
        BY <2>1 DEF OrderedFailover
      <3>1. CASE k \in DOMAIN traces
        BY <2>1, <2>2, <2>3, <3>1 DEF RouterInv, OrderedFailover, InLoop
      <3>2. CASE k = Len(traces) + 1
        BY <2>1, <2>2, <2>3, <3>2
      <3> QED
        BY <2>1, <2>2, <2>3, <3>1, <3>2
    <2>7. CallInv' /\ CancelInv'
      <3>1. \A k \in DOMAIN calls :
              calls[k].candidate \in Nat /\ calls[k].candidate <= index
        BY CallType DEF RouterInv, CallInv
      <3>2. CallInv'
        BY <1>2, <2>1, <3>1 DEF RouterInv, CallInv, InAttempt
      <3>3. CancelInv'
        BY <2>1 DEF RouterInv, CancelInv
      <3> QED
        BY <3>2, <3>3
    <2>8. ReserveInv'
      <3>1. /\ Remaining' = Remaining /\ Remaining \in Int
            /\ Left' = Remaining /\ Left = Remaining
        BY <1>1, <1>2, <2>1 DEF Remaining, Left
      <3>2. \A j : BudgetFor(plan, j) \in Nat
        BY <1>1, BudgetForType
      <3>3. ASSUME plan.protect
            PROVE  \/ Remaining >= plan.deadline - index
                   \/ \E j \in 2 .. index + 1 :
                        Remaining >= BudgetFor(plan, j) - (index + 1 - j)
        <4>1. \/ Remaining >= plan.deadline - (index - 1)
              \/ \E j \in 2 .. index :
                   Remaining >= BudgetFor(plan, j) - (index - j)
          BY <2>1, <3>1, <3>3 DEF RouterInv, ReserveInv, InLoop
        <4>2. CASE Remaining >= plan.deadline - (index - 1)
          BY <1>1, <1>2, <3>1, <4>2
        <4>3. ASSUME NEW j \in 2 .. index,
                     Remaining >= BudgetFor(plan, j) - (index - j)
              PROVE  /\ j \in 2 .. index + 1
                     /\ Remaining >= BudgetFor(plan, j) - (index + 1 - j)
          BY <1>1, <1>2, <3>1, <3>2, <4>3
        <4> QED
          BY <4>1, <4>2, <4>3
      <3>4. index' - 1 = index /\ index' = index + 1
        BY <1>2, <2>1
      <3>5. ASSUME plan'.protect
            PROVE  \/ Left' >= plan'.deadline - (index' - 1)
                   \/ \E j \in 2 .. index' :
                        Left' >= BudgetFor(plan', j) - (index' - j)
        <4>1. plan' = plan
          BY <2>1
        <4> QED
          BY <3>1, <3>3, <3>4, <3>5, <4>1
      <3> QED
        BY <3>5 DEF ReserveInv
    <2>9. SuccessInTime'
      BY <1>6, <2>1 DEF SuccessInTime
    <2>10. NoDeadlineEvent'
      <3>1. /\ Event("endpoint_suppressed", index) \in EventType
            /\ Event("endpoint_suppressed", index).family = "endpoint_suppressed"
        BY <1>2, <1>5 DEF EventFamily
      <3>2. Roomy(plan) => Quiet(events')
        BY <1>3, <1>4, <2>1, <3>1, QuietAppend
      <3> QED
        BY <2>1, <3>2 DEF NoDeadlineEvent, Quiet
    <2> QED
      BY <2>4, <2>5, <2>6, <2>7, <2>8, <2>9, <2>10 DEF RouterInv
  <1>11. CASE DeadlineElapsed
    <2>1. /\ Return("DEADLINE_EXCEEDED", index)
          /\ "DEADLINE_EXCEEDED" \in FailureCode
          /\ pc = "candidate" /\ Remaining <= 0
          /\ UNCHANGED <<plan, index, calls, cancelled, traces>>
      BY <1>11, Codes DEF DeadlineElapsed, NextCandidate
    <2>2. ~Roomy(plan)
      <3>1. index \in 1 .. plan.size
        BY <2>1 DEF RouterInv, ControlInv, InLoop, Candidate
      <3>2. Remaining \in Int
        BY <1>1, <1>2 DEF Remaining
      <3> QED
        BY <1>1, <2>1, <3>1, <3>2, HeadRoom DEF RouterInv
    <2>3. NoDeadlineEvent'
      BY <2>1, <2>2 DEF NoDeadlineEvent
    <2> QED
      BY <1>2, <2>1, <2>3, ReturnStep DEF RouterInv
  <1>12. CASE AdapterMissing
    <2> DEFINE b == CandidateBudget(plan, index, Remaining)
               t == AttemptTrace("UNSUPPORTED_PROVIDER_FORMAT", b, 0)
    <2>1. /\ Return("UNSUPPORTED_PROVIDER_FORMAT", index)
          /\ "UNSUPPORTED_PROVIDER_FORMAT" \in FailureCode
          /\ pc = "candidate" /\ Remaining > 0 /\ traces' = Append(traces, t)
          /\ events' = Append(events, Event("failure", index))
          /\ UNCHANGED <<plan, index, calls, cancelled>>
      BY <1>12, Codes DEF AdapterMissing, NextCandidate
    <2>2. t \in Trace /\ t.candidate = index
      <3>1. Remaining \in Nat \ {0}
        BY <1>1, <1>2, <2>1 DEF Remaining
      <3>2. b \in Nat
        BY <1>1, <3>1, CandidateBudgetBounds
      <3> HIDE DEF b
      <3> QED
        BY <2>1, <3>2, RecordTypes DEF AttemptTrace
    <2>3. InLoop /\ pc # "done"
      BY <2>1 DEF InLoop
    <2>4. NoDeadlineEvent'
      <3>1. Event("failure", index) \in EventType
            /\ Event("failure", index).family = "failure"
        BY <1>2, <1>5 DEF EventFamily
      <3>2. Roomy(plan) => Quiet(events')
        BY <1>3, <1>4, <2>1, <3>1, QuietAppend
      <3> QED
        BY <2>1, <3>2 DEF NoDeadlineEvent, Quiet
    <2> HIDE DEF t
    <2> QED
      BY <1>2, <2>1, <2>2, <2>3, <2>4, ReturnStep DEF RouterInv
  <1>13. CASE StartAttempt
    <2>1. /\ pc = "candidate" /\ pc' = "credential" /\ ~cancelled
          /\ attempted < plan.maxAttempts /\ attempted' = attempted + 1
          /\ Remaining > 0 /\ budget' = CandidateBudget(plan, index, Remaining)
          /\ UNCHANGED <<plan, index, elapsed, traces, events, calls, terminal,
                         cancelled>>
      BY <1>13 DEF StartAttempt, NextCandidate, history
    <2>2. Left' = Left /\ Left = Remaining
      BY <2>1 DEF Left, Remaining
    <2>3. ControlInv' /\ TimeInv' /\ ReserveInv'
      BY <2>1, <2>2 DEF ControlInv, TimeInv, ReserveInv, InLoop, InAttempt,
                        RouterInv, Candidate
    <2>4. CallInv'
      <3>1. /\ \A k \in DOMAIN calls : calls[k].candidate < index
            /\ \A k \in DOMAIN calls : calls[k].candidate <= index
            /\ Len(calls) <= attempted /\ Len(calls) \in Nat
        BY <2>1 DEF RouterInv, CallInv, TypeOK
      <3> QED
        BY <1>1, <1>2, <2>1, <3>1 DEF CallInv, InAttempt
    <2>5. OrderedFailover' /\ CancelInv' /\ SuccessInTime' /\ NoDeadlineEvent'
      <3>1. \A k \in DOMAIN calls : ~calls[k].cancelled
        BY <2>1 DEF RouterInv, CancelInv
      <3>2. CancelInv'
        BY <2>1, <3>1 DEF CancelInv
      <3>3. OrderedFailover'
        BY <2>1 DEF RouterInv, OrderedFailover, InLoop
      <3>4. SuccessInTime' /\ NoDeadlineEvent'
        BY <1>6, <2>1 DEF RouterInv, SuccessInTime, NoDeadlineEvent
      <3> QED
        BY <3>2, <3>3, <3>4
    <2> QED
      BY <2>3, <2>4, <2>5 DEF RouterInv
  <1>14. CASE CallAdapter
    <2> DEFINE call == [candidate |-> index, cancelled |-> cancelled]
    <2>1. /\ pc = "credential" /\ pc' = "adapter"
          /\ calls' = Append(calls, call)
          /\ UNCHANGED <<plan, index, attempted, elapsed, budget, traces, events,
                         terminal, cancelled>>
      BY <1>14 DEF CallAdapter, loop
    <2>2. Left' = Left /\ Left = Remaining
      BY <2>1 DEF Left, Remaining
    <2>3. ControlInv' /\ TimeInv' /\ ReserveInv'
      BY <2>1, <2>2 DEF ControlInv, TimeInv, ReserveInv, InLoop, InAttempt,
                        RouterInv, Candidate
    <2>4. Len(calls) \in Nat /\ Len(calls') = Len(calls) + 1
          /\ DOMAIN calls' = 1 .. Len(calls) + 1
          /\ calls'[Len(calls) + 1] = call
          /\ \A k \in DOMAIN calls : calls'[k] = calls[k] /\ k <= Len(calls)
      BY <2>1 DEF TypeOK
    <2>5. call.candidate = index /\ call.cancelled = cancelled
      OBVIOUS
    <2>6. /\ \A k \in DOMAIN calls : calls[k].candidate <= index
          /\ Len(calls) < attempted /\ attempted <= plan.maxAttempts
          /\ \A k \in DOMAIN calls : ~calls[k].cancelled
      BY <2>1 DEF RouterInv, CallInv, CancelInv, InAttempt
    <2>7. DOMAIN calls = 1 .. Len(calls)
      BY DEF TypeOK
    <2> HIDE DEF call
    <2>8. CallInv'
      BY <1>2, <2>1, <2>4, <2>5, <2>6, <2>7 DEF CallInv, InAttempt, Called, Last
    <2>9. CancelInv'
      BY <2>1, <2>4, <2>5, <2>6, <2>7 DEF CancelInv
    <2>10. OrderedFailover' /\ SuccessInTime' /\ NoDeadlineEvent'
      BY <1>6, <2>1 DEF RouterInv, OrderedFailover, SuccessInTime,
                        NoDeadlineEvent, InLoop
    <2> QED
      BY <2>3, <2>8, <2>9, <2>10 DEF RouterInv
  <1>15. CASE AttemptEnds \/ AnswerHandled
    BY <1>15, InvAttemptEnds, InvAnswerHandled
  <1>16. CASE PoolExhausted
    <2>1. /\ pc # "done" /\ pc' = "done"
          /\ terminal'.code = "POOL_EXHAUSTED"
          /\ events' = Append(events, Event("pool_exhausted", 0))
          /\ UNCHANGED <<plan, index, attempted, elapsed, traces, calls, cancelled>>
      BY <1>16 DEF PoolExhausted, LoopOver, loop
    <2>2. terminal'.code # NoCode /\ terminal'.code # Ok
      BY <2>1, Codes
    <2>3. ControlInv' /\ TimeInv' /\ ReserveInv'
      BY <2>1, <2>2 DEF ControlInv, TimeInv, ReserveInv, InLoop, InAttempt,
                        NoTerminal
    <2>4. OrderedFailover' /\ CallInv' /\ CancelInv' /\ SuccessInTime'
      BY <2>1, <2>2 DEF RouterInv, OrderedFailover, CallInv, CancelInv, InAttempt,
                        SuccessInTime, InLoop
    <2>5. NoDeadlineEvent'
      <3>1. Event("pool_exhausted", 0) \in EventType
            /\ Event("pool_exhausted", 0).family = "pool_exhausted"
        BY <1>5 DEF EventFamily
      <3>2. Roomy(plan) => Quiet(events')
        BY <1>3, <1>4, <2>1, <3>1, QuietAppend
      <3> QED
        BY <2>1, <3>2 DEF NoDeadlineEvent, Quiet
    <2> QED
      BY <2>3, <2>4, <2>5 DEF RouterInv
  <1>17. CASE Cancel \/ UNCHANGED vars
    <2>1. /\ cancelled => cancelled'
          /\ UNCHANGED <<plan, pc, index, attempted, elapsed, budget, output,
                         traces, events, calls, terminal>>
      BY <1>17 DEF Cancel, vars, loop, history
    <2>2. /\ Left' = Left /\ Called' = Called /\ ResultCode' = ResultCode
          /\ InLoop' = InLoop
      BY <2>1 DEF Left, Remaining, Called, ResultCode, InLoop
    <2>3. ControlInv' /\ TimeInv' /\ ReserveInv'
      BY <2>1, <2>2 DEF ControlInv, TimeInv, ReserveInv, RouterInv, Candidate
    <2>4. OrderedFailover' /\ CallInv'
      BY <2>1, <2>2 DEF RouterInv, OrderedFailover, CallInv, InAttempt
    <2>5. CancelInv' /\ SuccessInTime' /\ NoDeadlineEvent'
      BY <2>1 DEF RouterInv, CancelInv, SuccessInTime, NoDeadlineEvent
    <2> QED
      BY <2>3, <2>4, <2>5 DEF RouterInv
  <1> QED
    BY <1>7, <1>8, <1>9, <1>10, <1>11, <1>12, <1>13, <1>14, <1>15, <1>16, <1>17
       DEF Next, RouterStep

\* The router's invariant holds in every reachable state.
THEOREM Invariance == Spec => [](TypeOK /\ RouterInv)
  <1>1. Init => TypeOK /\ RouterInv
    BY TypeInit, InvInit
  <1>2. TypeOK /\ RouterInv /\ [Next]_vars => (TypeOK /\ RouterInv)'
    BY TypeStep, InvStep
  <1> QED
    BY <1>1, <1>2, PTL DEF Spec

------------------------------------------------------------------------------
(***************************************************************************)
(* The safety properties.                                                  *)
(***************************************************************************)
\* The k-th trace is about the k-th candidate, and only a skip or a retryable
\* failure lets the router go on to the next.
THEOREM FailoverIsOrdered == Spec => []OrderedFailover
  BY Invariance, PTL DEF RouterInv

\* A success is the outcome of the last trace and the last call, within the
\* attempt's budget and the invocation's deadline.
THEOREM SuccessIsInTime == Spec => []SuccessInTime
  BY Invariance, PTL DEF RouterInv

\* Each attempt's budget is positive and fits its allowance and the deadline.
THEOREM BudgetIsSafe == Spec => []BudgetFitsDeadline
  <1>1. TypeOK /\ RouterInv => BudgetFitsDeadline
    <2> SUFFICES ASSUME TypeOK, RouterInv, InAttempt
                 PROVE  /\ budget \in 1 .. Remaining
                        /\ budget <= BudgetFor(plan, index)
      BY DEF BudgetFitsDeadline
    <2>1. WellFormedPlan(plan) /\ plan.deadline \in Nat /\ elapsed \in Nat
      BY PlansAssumption DEF TypeOK, WellFormedPlan
    <2>2. Remaining \in Int
      BY <2>1 DEF Remaining
    <2>3. Remaining > 0 /\ budget = CandidateBudget(plan, index, Remaining)
      BY DEF RouterInv, TimeInv, InAttempt, Left
    <2> QED
      BY <2>1, <2>2, <2>3, CandidateBudgetBounds
  <1> QED
    BY <1>1, Invariance, PTL

\* At most the last provider call started after the caller cancelled.
THEOREM CancellationStopsCalls == Spec => []AtMostOneCallAfterCancel
  <1>1. RouterInv => AtMostOneCallAfterCancel
    BY DEF RouterInv, CancelInv, AtMostOneCallAfterCancel
  <1> QED
    BY <1>1, Invariance, PTL

\* Protection leaves every candidate of a roomy plan a unit of time.
THEOREM ProtectionFeedsThePool == Spec => []ProtectedPoolNeverStarves
  <1>1. TypeOK /\ RouterInv => ProtectedPoolNeverStarves
    <2> SUFFICES ASSUME TypeOK, RouterInv, Roomy(plan)
                 PROVE  /\ pc = "candidate" => Remaining >= plan.size - index + 1
                        /\ \A k \in DOMAIN events :
                             events[k].family # "deadline_exceeded"
      BY DEF ProtectedPoolNeverStarves
    <2>1. pc = "candidate" => Remaining >= plan.size - index + 1
      BY HeadRoom DEF RouterInv
    <2> QED
      BY <2>1 DEF RouterInv, NoDeadlineEvent
  <1> QED
    BY <1>1, Invariance, PTL

\* No step returns a success once the token is cancelled.
THEOREM CancelledNeverSucceeds == Spec => NoSuccessAfterCancel
  <1> DEFINE Binding == /\ pc' # "answered"
                        /\ terminal'.code = Ok => terminal.code = Ok
  <1>1. ASSUME [Next]_vars, cancelled, pc # "answered"
        PROVE  Binding
    <2>1. CASE \/ SchemaUnavailable \/ CancelledAtHead \/ DeadlineElapsed
               \/ AdapterMissing \/ PoolExhausted
      BY <2>1, Codes DEF SchemaUnavailable, CancelledAtHead, DeadlineElapsed,
                         AdapterMissing, PoolExhausted, Return
    <2>2. CASE AttemptEnds
      BY <1>1, <2>2, Codes DEF AttemptEnds, AttemptCancelled, AttemptAnswered,
                               Return
    <2>3. CASE \/ SchemaReady \/ SkipCandidate \/ StartAttempt \/ CallAdapter
               \/ Cancel \/ UNCHANGED vars
      BY <1>1, <2>3 DEF SchemaReady, SkipCandidate, StartAttempt, CallAdapter,
                        Cancel, vars
    <2>4. ~AnswerHandled
      BY <1>1 DEF AnswerHandled, LateResponse, Success, FailOver, GiveUp, FailFast,
                  InTime
    <2> QED
      BY <1>1, <2>1, <2>2, <2>3, <2>4 DEF Next, RouterStep
  <1>2. [Next]_vars => [cancelled /\ pc # "answered" => Binding]_vars
    BY <1>1
  <1> QED
    BY <1>2, PTL DEF Spec, NoSuccessAfterCancel

\* Where a cancellation finds the call at the head of the loop or in an attempt, the
\* call comes to CANCELLED; where it finds no attempt out, none is started any more
\* (_is_cancelled at both polls).
THEOREM CancellationBinds == Spec => CancellationIsFinal
  <1> DEFINE Caught == /\ cancelled
                       /\ \/ pc \in {"candidate", "credential", "adapter"}
                          \/ pc = "done" /\ terminal.code = "CANCELLED"
             Idle   == cancelled /\ ~InAttempt
             Early  == cancelled /\ pc \in {"candidate", "credential", "adapter"}
             NoneOut == cancelled /\ pc \in {"schema", "candidate", "answered"}
             Told   == pc = "done" => terminal.code = "CANCELLED"
  <1>1. ASSUME RouterInv, Caught, [Next]_vars
        PROVE  Caught'
    <2>1. pc = "candidate" => index \in Candidate
      BY <1>1 DEF RouterInv, ControlInv, InLoop
    <2>2. CASE pc = "candidate" /\ RouterStep
      <3>1. CancelledAtHead
        BY <1>1, <2>1, <2>2 DEF RouterStep, SchemaReady, SchemaUnavailable, SkipCandidate,
           DeadlineElapsed, AdapterMissing, StartAttempt, NextCandidate, CallAdapter,
           AttemptEnds, AttemptCancelled, AttemptAnswered, Settle, Output, AnswerHandled,
           LateResponse, Success, FailOver, GiveUp, FailFast, InTime, PoolExhausted, LoopOver
      <3> QED
        BY <1>1, <3>1 DEF CancelledAtHead, Return
    <2>3. CASE pc \in {"credential", "adapter"} /\ RouterStep
      <3>1. CallAdapter \/ \E out \in Output : AttemptCancelled(out)
        BY <1>1, <2>3 DEF RouterStep, SchemaReady, SchemaUnavailable, CancelledAtHead,
           SkipCandidate, DeadlineElapsed, AdapterMissing, StartAttempt, NextCandidate,
           AttemptEnds, AttemptAnswered, AnswerHandled, LateResponse, Success, FailOver,
           GiveUp, FailFast, InTime, PoolExhausted, LoopOver
      <3>2. CASE CallAdapter
        BY <1>1, <3>2 DEF CallAdapter
      <3>3. CASE \E out \in Output : AttemptCancelled(out)
        <4>1. /\ pc' = "done" /\ cancelled' = cancelled
              /\ terminal' = [code |-> "CANCELLED", candidate |-> index]
          BY <3>3 DEF AttemptCancelled, Settle, Return
        <4> QED
          BY <1>1, <4>1
      <3> QED
        BY <3>1, <3>2, <3>3
    <2>4. CASE pc = "done" /\ RouterStep
      BY <2>4 DEF RouterStep, SchemaReady, SchemaUnavailable, CancelledAtHead,
         SkipCandidate, DeadlineElapsed, AdapterMissing, StartAttempt, NextCandidate,
         CallAdapter, AttemptEnds, AttemptCancelled, AttemptAnswered, Settle, Output,
         AnswerHandled, LateResponse, Success, FailOver, GiveUp, FailFast, InTime,
         PoolExhausted, LoopOver
    <2>5. CASE Cancel \/ UNCHANGED vars
      BY <1>1, <2>5 DEF Cancel, vars
    <2> QED
      BY <1>1, <2>2, <2>3, <2>4, <2>5 DEF Next
  <1>2. ASSUME Idle, [Next]_vars
        PROVE  Idle'
    <2>1. CASE RouterStep
      BY <1>2, <2>1 DEF InAttempt, RouterStep, SchemaReady, SchemaUnavailable, CancelledAtHead,
         SkipCandidate, DeadlineElapsed, AdapterMissing, StartAttempt, NextCandidate,
         CallAdapter, AttemptEnds, AttemptCancelled, AttemptAnswered, Settle, Return,
         AnswerHandled, LateResponse, Success, FailOver, GiveUp, FailFast, InTime,
         PoolExhausted
    <2>2. CASE Cancel \/ UNCHANGED vars
      BY <1>2, <2>2 DEF Cancel, vars, InAttempt
    <2> QED
      BY <1>2, <2>1, <2>2 DEF Next
  <1>3. /\ Early => Caught
        /\ Caught => Told
        /\ NoneOut => Idle
        /\ Idle => ~InAttempt
    BY DEF InAttempt
  <1>4. /\ RouterInv /\ Caught /\ [Next]_vars => Caught'
        /\ Idle /\ [Next]_vars => Idle'
    BY <1>1, <1>2
  <1> HIDE DEF Caught, Idle, Early, NoneOut, Told
  <1>5. Spec => [](Early => []Told) /\ [](NoneOut => []~InAttempt)
    BY <1>3, <1>4, Invariance, PTL DEF Spec
  <1> QED
    BY <1>5 DEF CancellationIsFinal, Early, NoneOut, Told

------------------------------------------------------------------------------
(***************************************************************************)
(* Termination, as far as it can be proved: the steps run out.             *)
(***************************************************************************)
\* How many more steps the router can take: at most four for a candidate.
StepsLeft ==
  LET here == 4 * (plan.size + 1 - index)
  IN CASE pc = "schema"     -> here + 5
       [] pc = "candidate"  -> here + 4
       [] pc = "credential" -> here + 3
       [] pc = "adapter"    -> here + 2
       [] pc = "answered"   -> here + 1
       [] pc = "exhausted"  -> 1
       [] OTHER             -> 0

\* Where a step of the router goes.
LEMMA WhereTo ==
  ASSUME RouterStep
  PROVE  /\ plan' = plan
         /\ \/ pc' = "done" /\ pc # "done"
            \/ pc' = "exhausted" /\ pc = "answered"
            \/ pc = "schema" /\ pc' = "candidate" /\ index' = index
            \/ pc = "candidate" /\ pc' = "credential" /\ index' = index
            \/ pc = "credential" /\ pc' \in {"adapter", "answered"} /\ index' = index
            \/ pc = "adapter" /\ pc' = "answered" /\ index' = index
            \/ pc \in {"candidate", "answered"} /\ pc' = "candidate" /\ index' = index + 1
  <1>1. CASE AttemptEnds
    BY <1>1 DEF AttemptEnds, AttemptCancelled, AttemptAnswered, Settle, Output, Return
  <1>2. CASE AnswerHandled
    BY <1>2 DEF AnswerHandled, LateResponse, Success, FailOver, GiveUp, FailFast,
                InTime, Return
  <1>3. CASE SchemaReady \/ SchemaUnavailable \/ CancelledAtHead \/ SkipCandidate
    BY <1>3 DEF SchemaReady, SchemaUnavailable, CancelledAtHead, SkipCandidate,
                NextCandidate, Return
  <1>4. CASE DeadlineElapsed \/ AdapterMissing \/ StartAttempt \/ CallAdapter
    BY <1>4 DEF DeadlineElapsed, AdapterMissing, StartAttempt, CallAdapter,
                NextCandidate, Return
  <1>5. CASE PoolExhausted
    BY <1>5 DEF PoolExhausted, LoopOver
  <1> QED
    BY <1>1, <1>2, <1>3, <1>4, <1>5 DEF RouterStep

\* Every step of the router brings the return nearer: no plan, cancellation or course
\* of attempts keeps it in the loop, and a call takes at most 4 * size + 5 steps.
THEOREM ReturnComesNearer ==
  Spec => [][RouterStep => StepsLeft' \in 0 .. StepsLeft - 1]_vars
  <1>1. ASSUME TypeOK, RouterInv, TypeOK', RouterInv', RouterStep
        PROVE  StepsLeft' \in 0 .. StepsLeft - 1
    <2>1. plan.size \in Nat \ {0} /\ plan' = plan /\ index \in Nat /\ index' \in Nat
      BY <1>1, WhereTo, PlansAssumption DEF TypeOK, WellFormedPlan
    <2> DEFINE here == plan.size + 1 - index
               next == plan.size + 1 - index'
    <2>2. /\ pc \in {"schema", "candidate", "credential", "adapter", "answered"}
               => here \in Nat \ {0}
          /\ pc' \in {"schema", "candidate", "credential", "adapter", "answered"}
               => next \in Nat \ {0}
      <3>1. /\ pc = "schema" => index = 1
            /\ pc \in {"candidate", "credential", "adapter", "answered"}
                 => index \in 1 .. plan.size
            /\ pc' = "schema" => index' = 1
            /\ pc' \in {"candidate", "credential", "adapter", "answered"}
                 => index' \in 1 .. plan.size
        BY <1>1, <2>1 DEF RouterInv, ControlInv, InLoop, Candidate
      <3> QED
        BY <2>1, <3>1
    <2>3. here \in Int /\ next \in Int
      BY <2>1
    <2>4. /\ index' = index => next = here
          /\ index' = index + 1 => next = here - 1
      BY <2>1
    <2>5. /\ pc = "schema" => StepsLeft = 4 * here + 5
          /\ pc = "candidate" => StepsLeft = 4 * here + 4
          /\ pc = "credential" => StepsLeft = 4 * here + 3
          /\ pc = "adapter" => StepsLeft = 4 * here + 2
          /\ pc = "answered" => StepsLeft = 4 * here + 1
          /\ pc = "exhausted" => StepsLeft = 1
      BY DEF StepsLeft
    <2>6. /\ pc' = "candidate" => StepsLeft' = 4 * next + 4
          /\ pc' = "credential" => StepsLeft' = 4 * next + 3
          /\ pc' = "adapter" => StepsLeft' = 4 * next + 2
          /\ pc' = "answered" => StepsLeft' = 4 * next + 1
          /\ pc' = "exhausted" => StepsLeft' = 1
          /\ pc' = "done" => StepsLeft' = 0
      BY <2>1 DEF StepsLeft
    <2>7. pc \in PC
      BY <1>1 DEF TypeOK
    <2> HIDE DEF here, next
    <2> QED
      BY <1>1, <2>2, <2>3, <2>4, <2>5, <2>6, <2>7, WhereTo DEF PC
  <1>2. TypeOK /\ RouterInv /\ TypeOK' /\ RouterInv' /\ [Next]_vars
          => [RouterStep => StepsLeft' \in 0 .. StepsLeft - 1]_vars
    BY <1>1
  <1> QED
    BY <1>2, Invariance, PTL DEF Spec

------------------------------------------------------------------------------
(***************************************************************************)
(* How far the statements of the documents that runs refute do hold.       *)
(***************************************************************************)
\* Where no plan asks for structured output, a retryable failure that came in time,
\* with a candidate and an attempt left, never ends the invocation
\* (_is_failover_retryable, _terminal_result).  With structured output it may, as the
\* run fallthrough shows.
THEOREM PlainFailureFallsThrough ==
  ASSUME \A p \in Plans : p.mode = "none"
  PROVE  Spec => RetryableFallsThrough
  <1> DEFINE Ends == /\ pc = "answered" /\ pc' = "done"
                     /\ output.code \in RetryableCode
                     /\ output.elapsed <= budget /\ elapsed <= plan.deadline
  <1>1. ASSUME TypeOK, [Next]_vars, Ends
        PROVE  ~plan.failover \/ ~HasFailoverCandidate
    <2>1. ResultCode = output.code
      <3>1. plan.mode = "none" /\ output.code # NoCode
        BY <1>1, Codes DEF TypeOK
      <3> QED
        BY <3>1 DEF ResultCode, TerminalCode, NormalizedPlainText
    <2>2. ~Late
      <3>1. output.elapsed \in Nat /\ budget \in Nat /\ elapsed \in Nat
            /\ plan.deadline \in Nat
        BY <1>1, PlansAssumption DEF TypeOK, AttemptOutput, WellFormedPlan, NoOutput
      <3> QED
        BY <1>1, <3>1 DEF Late
    <2>3. ~LateResponse /\ ~Success /\ ~FailOver /\ ~GiveUp
      BY <1>1, <2>1, <2>2, Codes DEF LateResponse, Success, FailOver, GiveUp
    <2>4. FailFast
      <3>1. pc = "answered" /\ pc' = "done"
        BY <1>1
      <3>2. AnswerHandled
        BY <1>1, <3>1 DEF Next, RouterStep, SchemaReady, SchemaUnavailable,
           CancelledAtHead, SkipCandidate, DeadlineElapsed, AdapterMissing,
           StartAttempt, NextCandidate, CallAdapter, AttemptEnds, AttemptCancelled,
           AttemptAnswered, Settle, Output, PoolExhausted, LoopOver, Cancel, vars
      <3> QED
        BY <2>3, <3>2 DEF AnswerHandled
    <2> QED
      BY <1>1, <2>1, <2>4 DEF FailFast, FailoverRetryable
  <1>2. TypeOK /\ [Next]_vars
          => [Ends => ~plan.failover \/ ~HasFailoverCandidate]_vars
    BY <1>1
  <1> QED
    BY <1>2, TypeCorrect, PTL DEF Spec, RetryableFallsThrough

\* Without structured output a refusal of a provider is returned as one
\* (normalize_provider_outcome).
THEOREM PlainRefusalIsReported ==
  ASSUME \A p \in Plans : p.mode = "none"
  PROVE  Spec => []RefusalIsReported
  <1> DEFINE Refused  == output.code = "STRUCTURED_OUTPUT_REFUSAL"
             Reports  == terminal.code \in {"STRUCTURED_OUTPUT_REFUSAL", "CANCELLED",
                                            "LATE_RESPONSE_DISCARDED"}
             Inv      == Refused => pc = "answered" \/ (pc = "done" /\ Reports)
  <1>1. Init => Inv
    BY Codes DEF Init, NoOutput, NoCode
  <1>2. ASSUME TypeOK, Inv, [Next]_vars
        PROVE  Inv'
    <2>1. CASE AttemptEnds
      BY <2>1 DEF AttemptEnds, AttemptCancelled, AttemptAnswered, Settle, Return
    <2>2. CASE LateResponse
      BY <2>2 DEF LateResponse, Return
    <2>3. CASE Success \/ FailOver \/ GiveUp \/ FailFast
      <3>1. Refused => ResultCode = "STRUCTURED_OUTPUT_REFUSAL"
        <4>1. plan.mode = "none"
          BY <1>2 DEF TypeOK
        <4> QED
          BY <4>1 DEF ResultCode, TerminalCode, NormalizedPlainText, NoCode
      <3>2. output' = output /\ pc = "answered"
        BY <2>3 DEF Success, FailOver, GiveUp, FailFast, InTime
      <3>3. Refused => FailFast
        <4>1. "STRUCTURED_OUTPUT_REFUSAL" \notin RetryableCode \cup {Ok}
          BY DEF RetryableCode, Ok
        <4> QED
          BY <2>3, <3>1, <4>1 DEF Success, FailOver, GiveUp, FailoverRetryable
      <3> QED
        BY <3>1, <3>2, <3>3 DEF FailFast, Return
    <2>4. CASE UNCHANGED <<output, pc, terminal>>
      BY <1>2, <2>4
    <2>5. CASE /\ ~AttemptEnds /\ ~AnswerHandled /\ ~UNCHANGED <<output, pc, terminal>>
      <3>1. output' = output /\ pc \notin {"answered", "done"}
        BY <1>2, <2>5 DEF Next, RouterStep, SchemaReady, SchemaUnavailable,
           CancelledAtHead, SkipCandidate, DeadlineElapsed, AdapterMissing,
           StartAttempt, NextCandidate, CallAdapter, PoolExhausted, LoopOver, Cancel,
           loop, vars
      <3> QED
        BY <1>2, <3>1
    <2> QED
      BY <2>1, <2>2, <2>3, <2>4, <2>5 DEF AnswerHandled
  <1>3. Inv => RefusalIsReported
    BY DEF RefusalIsReported
  <1> HIDE DEF Inv
  <1>4. TypeOK /\ Inv /\ [Next]_vars => Inv'
    BY <1>2
  <1> QED
    BY <1>1, <1>3, <1>4, TypeCorrect, PTL DEF Spec

\* Protection would keep the budget of the pool's last candidate for it, wherever the
\* deadline has room for more.
LastCandidateKeepsItsBudget ==
  /\ plan.protect
  /\ InAttempt /\ index = plan.size
  /\ plan.deadline > BudgetFor(plan, plan.size)
  => budget = BudgetFor(plan, plan.size)

\* In a pool of one or two, the next candidate is the last one: protection then keeps
\* what its name says (_candidate_budget).
THEOREM ShortPoolsKeepTheLastBudget ==
  ASSUME \A p \in Plans : p.size <= 2
  PROVE  Spec => []LastCandidateKeepsItsBudget
  <1>1. ASSUME TypeOK, RouterInv, plan.protect, InAttempt, index = plan.size,
               plan.deadline > BudgetFor(plan, plan.size)
        PROVE  budget = BudgetFor(plan, plan.size)
    <2>1. WellFormedPlan(plan) /\ plan.size \in {1, 2}
      BY <1>1, PlansAssumption DEF TypeOK, WellFormedPlan
    <2> DEFINE last == BudgetFor(plan, plan.size)
    <2>2. last \in Nat \ {0} /\ plan.deadline \in Nat /\ Left \in Int /\ plan.deadline > last
      <3>1. elapsed \in Nat /\ pc # "answered" /\ plan.deadline \in Nat
        BY <1>1, <2>1 DEF TypeOK, InAttempt, WellFormedPlan
      <3>2. last \in Nat \ {0}
        BY <2>1, BudgetForType
      <3> QED
        BY <1>1, <3>1, <3>2 DEF Left, Remaining
    <2>3. \/ Left >= plan.deadline - (index - 1)
          \/ \E j \in 2 .. index : Left >= BudgetFor(plan, j) - (index - j)
      BY <1>1 DEF RouterInv, ReserveInv, InAttempt, InLoop
    <2>4. Left >= last
      <3>1. CASE Left >= plan.deadline - (index - 1)
        BY <1>1, <2>1, <2>2, <3>1
      <3>2. CASE \E j \in 2 .. index : Left >= BudgetFor(plan, j) - (index - j)
        <4>1. PICK j \in 2 .. index : Left >= BudgetFor(plan, j) - (index - j)
          BY <3>2
        <4>2. j = 2 /\ index = 2
          BY <1>1, <2>1, <4>1
        <4> QED
          BY <1>1, <2>2, <4>1, <4>2
      <3> QED
        BY <2>3, <3>1, <3>2
    <2>5. budget = CandidateBudget(plan, index, Left)
      BY <1>1 DEF RouterInv, TimeInv, InAttempt
    <2>6. CandidateBudget(plan, index, Left) = last
      <3>1. Reserve(plan, index) = 0
        BY <1>1, <2>1 DEF Reserve
      <3> QED
        BY <1>1, <2>2, <2>4, <3>1 DEF CandidateBudget, AtLeastOne
    <2> QED
      BY <2>5, <2>6
  <1>2. TypeOK /\ RouterInv => LastCandidateKeepsItsBudget
    BY <1>1 DEF LastCandidateKeepsItsBudget
  <1> QED
    BY <1>2, Invariance, PTL

\* Structured output makes no retryable failure of any answer.
LEMMA StructuredCodes ==
  ASSUME NEW mode, mode # "none", NEW out \in Output
  PROVE  TerminalCode(mode, out) \notin RetryableCode \cup {"STRUCTURED_OUTPUT_REFUSAL"}
  <1>1. out.typed => out.code \in {"CREDENTIAL_UNAVAILABLE", "UNSUPPORTED_PROVIDER_FORMAT",
                                   "PROVIDER_FAILURE"}
    BY DEF Output, InvokeOutput, Typed, Reported
  <1>2. TerminalCode(mode, out) \in
          {"CREDENTIAL_UNAVAILABLE", "UNSUPPORTED_PROVIDER_FORMAT", "PROVIDER_FAILURE",
           "INVALID_STRUCTURED_OUTPUT_PAYLOAD", Ok}
    BY <1>1 DEF TerminalCode, NormalizedStructured
  <1> QED
    BY <1>2 DEF RetryableCode, Ok

\* An invocation with structured output calls one provider at most, exhausts no pool,
\* and returns neither a retryable failure nor a refusal.
StructuredIsOneShot ==
  plan.mode # "none" =>
    /\ Len(calls) <= 1
    /\ ~Exhausted
    /\ terminal.code \notin RetryableCode \cup {"STRUCTURED_OUTPUT_REFUSAL"}

\* What the two structured-output findings come to, whatever the plan, the adapters
\* and the time: with structured output there is no failover
\* (normalize_structured_provider_outcome, _is_failover_retryable).
THEOREM StructuredNeverFailsOver == Spec => []StructuredIsOneShot
  <1> DEFINE Final(code) == code \notin RetryableCode \cup {"STRUCTURED_OUTPUT_REFUSAL"}
             Inv == plan.mode # "none" =>
                      /\ pc \in {"schema", "candidate"} => attempted = 0
                      /\ pc \in {"schema", "candidate", "credential"} => calls = <<>>
                      /\ pc # "exhausted"
                      /\ pc = "answered" => Final(ResultCode)
                      /\ Len(calls) <= 1
                      /\ ~Exhausted
                      /\ Final(terminal.code)
  <1>1. Init => Inv
    <2>1. Final(NoCode)
      BY DEF RetryableCode, NoCode
    <2>2. Len(<<>>) = 0
      OBVIOUS
    <2> HIDE DEF Final
    <2> QED
      BY <2>1, <2>2 DEF Init, NoTerminal, Exhausted, NoCode
  <1>2. ASSUME TypeOK, RouterInv, Inv, [Next]_vars, plan.mode # "none"
        PROVE  /\ plan' = plan /\ Inv'
    <2>1. plan' = plan
      BY <1>2, WhereTo DEF Next, Cancel, vars
    <2>2. Final("CANCELLED") /\ Final("LATE_RESPONSE_DISCARDED")
          /\ Final("DEADLINE_EXCEEDED") /\ Final("UNSUPPORTED_PROVIDER_FORMAT")
          /\ Final("MISSING_SCHEMA_CONTRACT") /\ Final("UNKNOWN_SCHEMA_CONTRACT")
      BY DEF RetryableCode
    <2> HIDE DEF Final
    <2>3. ASSUME NEW code, NEW c, Return(code, c), Final(code),
                 c # 0 \/ code # "POOL_EXHAUSTED"
          PROVE  pc' = "done" /\ ~Exhausted' /\ Final(terminal'.code)
      BY <2>3 DEF Return, Exhausted
    <2>4. /\ pc # "exhausted" /\ Len(calls) <= 1 /\ ~Exhausted /\ Final(terminal.code)
          /\ pc \in {"schema", "candidate"} => attempted = 0
          /\ pc \in {"schema", "candidate", "credential"} => calls = <<>>
          /\ pc = "answered" => Final(ResultCode)
      BY <1>2
    <2>5. CASE \/ SchemaUnavailable \/ CancelledAtHead \/ DeadlineElapsed \/ AdapterMissing
      <3>1. /\ pc' = "done" /\ ~Exhausted' /\ Final(terminal'.code) /\ calls' = calls
        BY <2>2, <2>3, <2>5 DEF SchemaUnavailable, CancelledAtHead, DeadlineElapsed,
           AdapterMissing
      <3> QED
        BY <2>1, <2>4, <3>1
    <2>6. CASE AttemptEnds
      <3>1. PICK out \in Output : AttemptCancelled(out) \/ AttemptAnswered(out)
        BY <2>6 DEF AttemptEnds
      <3>2. calls' = calls
        BY <3>1 DEF AttemptCancelled, AttemptAnswered, Settle
      <3>3. CASE AttemptCancelled(out)
        <4>1. pc' = "done" /\ ~Exhausted' /\ Final(terminal'.code)
          BY <2>2, <2>3, <3>3 DEF AttemptCancelled
        <4> QED
          BY <2>1, <2>4, <3>2, <4>1
      <3>4. CASE AttemptAnswered(out)
        <4>1. /\ pc' = "answered" /\ output' = out /\ terminal' = terminal
          BY <3>4 DEF AttemptAnswered, Settle
        <4>2. Final(ResultCode')
          BY <1>2, <2>1, <4>1, StructuredCodes DEF ResultCode, Final
        <4>3. ~Exhausted'
          BY <2>4, <4>1 DEF Exhausted
        <4> QED
          BY <2>1, <2>4, <3>2, <4>1, <4>2, <4>3
      <3> QED
        BY <3>1, <3>3, <3>4
    <2>7. CASE AnswerHandled
      <3>1. pc = "answered" /\ calls' = calls
        BY <2>7 DEF AnswerHandled, LateResponse, Success, FailOver, GiveUp, FailFast,
           InTime
      <3>2. ResultCode \notin RetryableCode
        BY <2>4, <3>1 DEF Final
      <3>3. \E code, c : Return(code, c) /\ Final(code) /\ c = index
        BY <2>2, <2>4, <2>7, <3>1, <3>2 DEF AnswerHandled, LateResponse, Success, FailOver,
           GiveUp, FailFast, FailoverRetryable
      <3>4. index # 0
        BY <1>2 DEF TypeOK
      <3>5. pc' = "done" /\ ~Exhausted' /\ Final(terminal'.code)
        BY <2>3, <3>3, <3>4
      <3> QED
        BY <2>1, <2>4, <3>1, <3>5
    <2>8. CASE SchemaReady \/ SkipCandidate \/ StartAttempt
      <3>1. /\ calls' = calls /\ terminal' = terminal
            /\ pc \in {"schema", "candidate"} /\ pc' \in {"candidate", "credential"}
            /\ pc' = "candidate" => attempted' = attempted
        BY <2>8 DEF SchemaReady, SkipCandidate, StartAttempt, NextCandidate, loop, history
      <3>2. ~Exhausted'
        BY <2>4, <3>1 DEF Exhausted
      <3> QED
        BY <2>1, <2>4, <3>1, <3>2
    <2>9. CASE CallAdapter
      <3>1. /\ calls' = Append(calls, [candidate |-> index, cancelled |-> cancelled])
            /\ pc = "credential" /\ pc' = "adapter" /\ terminal' = terminal
        BY <2>9 DEF CallAdapter
      <3>2. calls = <<>> /\ Len(calls') <= 1
        <4>1. calls = <<>>
          BY <2>4, <3>1
        <4>2. Len(Append(<<>>, [candidate |-> index, cancelled |-> cancelled])) = 1
          OBVIOUS
        <4> QED
          BY <3>1, <4>1, <4>2
      <3>3. ~Exhausted'
        BY <2>4, <3>1 DEF Exhausted
      <3> QED
        BY <2>1, <2>4, <3>1, <3>2, <3>3
    <2>10. ~PoolExhausted
      <3>1. /\ pc = "candidate" => index \in Candidate /\ attempted < plan.maxAttempts
            /\ attempted \in Nat /\ plan.maxAttempts \in Nat
        BY <1>2, PlansAssumption DEF RouterInv, ControlInv, InLoop, TypeOK, WellFormedPlan
      <3> QED
        BY <2>4, <3>1 DEF PoolExhausted, LoopOver
    <2>11. CASE Cancel \/ UNCHANGED vars
      <3>1. UNCHANGED <<pc, attempted, output, calls, terminal>>
        BY <2>11 DEF Cancel, vars, loop, history
      <3>2. ResultCode' = ResultCode /\ ~Exhausted'
        BY <2>1, <2>4, <3>1 DEF ResultCode, Exhausted
      <3> QED
        BY <2>1, <2>4, <3>1, <3>2
    <2> QED
      BY <1>2, <2>1, <2>5, <2>6, <2>7, <2>8, <2>9, <2>10, <2>11 DEF Next, RouterStep
  <1>3. TypeOK /\ RouterInv /\ Inv /\ [Next]_vars => Inv'
    <2>1. [Next]_vars => plan' = plan
      BY WhereTo DEF Next, Cancel, vars
    <2> QED
      BY <1>2, <2>1
  <1>4. Inv => StructuredIsOneShot
    BY DEF StructuredIsOneShot
  <1> HIDE DEF Inv
  <1> QED
    BY <1>1, <1>3, <1>4, Invariance, PTL DEF Spec

------------------------------------------------------------------------------
(***************************************************************************)
(* The router implements the promise made to its caller.                   *)
(***************************************************************************)
\* A failure verdict about a candidate, or with another code than exhaustion,
\* is a failure to the caller.
LEMMA FailureVerdict ==
  ASSUME NEW code \in FailureCode, NEW c, Return(code, c),
         c # 0 \/ code # "POOL_EXHAUSTED"
  PROVE  CallerVerdict' = "failure"
  <1>1. terminal'.code = code /\ terminal'.candidate = c
    BY DEF Return
  <1>2. code # NoCode /\ code # Ok
    BY Codes
  <1>3. ~Exhausted'
    BY <1>1 DEF Exhausted
  <1> QED
    BY <1>1, <1>2, <1>3 DEF CallerVerdict

\* The call starts as the promise does.
LEMMA PromiseInit == Init => Promise!Init
  <1> SUFFICES ASSUME Init
               PROVE  Promise!Init
    OBVIOUS
  <1>1. plan.size \in Nat \ {0} /\ plan.maxAttempts \in Nat \ {0}
    BY PlansAssumption DEF Init, WellFormedPlan
  <1>2. CallerVerdict = "none"
    BY Codes DEF Init, CallerVerdict, NoTerminal, Exhausted
  <1>3. calls = <<>> /\ LastCall = "none" /\ cancelled = FALSE
    BY DEF Init, LastCall
  <1> QED
    BY <1>1, <1>2, <1>3 DEF Promise!Init

\* Every step is, for the caller, one the promise allows, or none at all.
LEMMA PromiseStep ==
  ASSUME TypeOK, RouterInv, [Next]_vars
  PROVE  [Promise!Next]_(Promise!pvars)
  <1>1. pc # "done" => CallerVerdict = "none"
    BY Codes DEF RouterInv, ControlInv, CallerVerdict, NoTerminal, Exhausted
  <1> DEFINE Same == UNCHANGED <<plan, calls, cancelled>>
  <1>2. ASSUME Same, pc # "done", UNCHANGED terminal,
               LastCall = "none", LastCall' = "none"
        PROVE  UNCHANGED Promise!pvars
    <2>1. CallerVerdict' = CallerVerdict
      BY <1>2 DEF CallerVerdict, Exhausted
    <2> QED
      BY <1>2, <2>1 DEF Promise!pvars
  <1>3. ASSUME pc # "done", Same, NEW code \in FailureCode, NEW c,
               Return(code, c), c # 0 \/ code # "POOL_EXHAUSTED"
        PROVE  Promise!Next
    <2>1. CallerVerdict' = "failure" /\ LastCall' = "none"
      BY <1>3, FailureVerdict DEF Return, LastCall
    <2>2. Promise!Return("failure")
      BY <1>1, <1>3, <2>1 DEF Promise!Return, Promise!Open
    <2> QED
      BY <2>2 DEF Promise!Next, Promise!Verdicts
  <1>4. index # 0
    BY DEF TypeOK
  <1>5. CASE SchemaReady \/ SkipCandidate \/ StartAttempt
    <2>1. /\ Same /\ pc # "done" /\ UNCHANGED terminal
          /\ pc \in {"schema", "candidate"} /\ pc' \in {"candidate", "credential"}
      BY <1>5 DEF SchemaReady, SkipCandidate, StartAttempt, NextCandidate, history
    <2>2. LastCall = "none" /\ LastCall' = "none"
      BY <2>1 DEF LastCall
    <2> QED
      BY <1>2, <2>1, <2>2
  <1>6. CASE \/ SchemaUnavailable \/ CancelledAtHead \/ DeadlineElapsed
             \/ AdapterMissing
    <2>1. pc # "done" /\ Same
      BY <1>6 DEF SchemaUnavailable, CancelledAtHead, DeadlineElapsed,
                  AdapterMissing, NextCandidate
    <2>2. PICK code \in FailureCode \ {"POOL_EXHAUSTED"}, c \in {0, index} :
            Return(code, c)
      BY <1>6, Codes DEF SchemaUnavailable, CancelledAtHead, DeadlineElapsed,
                         AdapterMissing
    <2> QED
      BY <1>3, <2>1, <2>2
  <1>7. CASE CallAdapter
    <2>1. /\ pc = "credential" /\ pc' = "adapter"
          /\ calls' = Append(calls, [candidate |-> index, cancelled |-> cancelled])
          /\ UNCHANGED <<plan, terminal, cancelled>>
      BY <1>7 DEF CallAdapter
    <2>2. /\ index \in 1 .. plan.size
          /\ Len(calls) < plan.maxAttempts
          /\ \A k \in DOMAIN calls : calls[k].candidate < index
          /\ \A k \in DOMAIN calls : ~calls[k].cancelled
      <3>1. index \in 1 .. plan.size
            /\ Len(calls) < attempted /\ attempted <= plan.maxAttempts
        BY <2>1 DEF RouterInv, ControlInv, CallInv, InLoop, InAttempt, Candidate
      <3>2. /\ \A k \in DOMAIN calls : calls[k].candidate < index
            /\ \A k \in DOMAIN calls : ~calls[k].cancelled
        BY <2>1 DEF RouterInv, CallInv, CancelInv
      <3>3. /\ Len(calls) \in Nat /\ attempted \in Nat
            /\ plan.maxAttempts \in Nat
        BY PlansAssumption DEF TypeOK, WellFormedPlan
      <3> QED
        BY <3>1, <3>2, <3>3
    <2>3. /\ CallerVerdict' = CallerVerdict
          /\ LastCall = "none" /\ LastCall' = "out"
      BY <2>1 DEF CallerVerdict, Exhausted, LastCall
    <2>4. Promise!Call(index)
      BY <1>1, <2>1, <2>2, <2>3 DEF Promise!Call, Promise!Open
    <2> QED
      BY <2>2, <2>4 DEF Promise!Next
  <1>8. CASE AttemptEnds
    <2>1. PICK out \in Output : AttemptCancelled(out) \/ AttemptAnswered(out)
      BY <1>8 DEF AttemptEnds
    <2>2. Same /\ UNCHANGED index /\ pc \in {"credential", "adapter"}
      BY <2>1 DEF AttemptCancelled, AttemptAnswered, Settle, Output
    <2>3. CASE AttemptCancelled(out)
      BY <1>3, <1>4, <2>2, <2>3, Codes DEF AttemptCancelled
    <2>4. CASE AttemptAnswered(out)
      <3>1. pc' = "answered" /\ ~cancelled /\ UNCHANGED terminal
        BY <2>4 DEF AttemptAnswered
      <3>2. Called' = Called
        BY <2>2 DEF Called
      <3>3. CASE pc = "credential"
        <4>1. ~Called
          <5> SUFFICES ASSUME calls # <<>>
                       PROVE  Last(calls).candidate # index
            BY DEF Called
          <5>1. Len(calls) \in DOMAIN calls
            BY DEF TypeOK
          <5>2. calls[Len(calls)].candidate \in Nat
                /\ calls[Len(calls)].candidate < index
            BY <3>3, <5>1, CallType DEF RouterInv, CallInv
          <5> QED
            BY <5>2 DEF Last, TypeOK
        <4>2. LastCall = "none" /\ LastCall' = "none"
          BY <3>1, <3>2, <3>3, <4>1 DEF LastCall
        <4> QED
          BY <1>2, <2>2, <3>1, <4>2
      <3>4. CASE pc = "adapter"
        <4>1. Called
          BY <3>4 DEF RouterInv, CallInv
        <4>2. LastCall = "out" /\ LastCall' = "answered"
          BY <3>1, <3>2, <3>4, <4>1 DEF LastCall
        <4>3. CallerVerdict' = CallerVerdict
          BY <3>1 DEF CallerVerdict, Exhausted
        <4>4. Promise!Answer
          BY <1>1, <2>2, <3>1, <4>2, <4>3 DEF Promise!Answer, Promise!Open
        <4> QED
          BY <4>4 DEF Promise!Next
      <3> QED
        BY <2>2, <3>3, <3>4
    <2> QED
      BY <2>1, <2>3, <2>4
  <1>9. CASE AnswerHandled
    <2>1. pc = "answered" /\ pc # "done" /\ Same
      BY <1>9 DEF AnswerHandled, LateResponse, Success, FailOver, GiveUp, FailFast,
                  InTime
    <2>2. ResultCode \in FailureCode \cup {Ok}
      <3>1. output \in AttemptOutput
        BY <2>1 DEF TypeOK
      <3>2. plan.mode \in Mode
        BY PlansAssumption DEF TypeOK, WellFormedPlan
      <3> QED
        BY <3>1, <3>2, TerminalCodeType DEF ResultCode
    <2>3. CASE LateResponse \/ FailFast
      <3>1. PICK c \in FailureCode : Return(c, index)
        BY <2>2, <2>3, Codes DEF LateResponse, FailFast
      <3> QED
        BY <1>3, <1>4, <2>1, <3>1
    <2>4. CASE Success
      <3>1. ResultCode = Ok /\ Return(Ok, index)
        BY <2>4 DEF Success
      <3>2. LastCall = "answered" /\ LastCall' = "none"
        BY <2>1, <3>1 DEF RouterInv, CallInv, LastCall, Return
      <3>3. CallerVerdict' = "success"
        <4>1. terminal'.code = Ok
          BY <3>1 DEF Return
        <4> QED
          BY <4>1, Codes DEF CallerVerdict, Exhausted
      <3>4. Promise!Return("success")
        BY <1>1, <2>1, <3>2, <3>3 DEF Promise!Return, Promise!Open
      <3> QED
        BY <3>4 DEF Promise!Next, Promise!Verdicts
    <2>5. CASE FailOver \/ GiveUp
      <3>1. /\ ResultCode \in RetryableCode /\ UNCHANGED terminal
            /\ pc' \in {"candidate", "exhausted"}
        BY <2>5 DEF FailOver, GiveUp, FailoverRetryable
      <3>2. LastCall = "answered" /\ LastCall' = "none"
        BY <2>1, <3>1 DEF RouterInv, CallInv, LastCall
      <3>3. CallerVerdict' = CallerVerdict
        BY <3>1 DEF CallerVerdict, Exhausted
      <3>4. Promise!PassOver
        BY <1>1, <2>1, <3>2, <3>3 DEF Promise!PassOver, Promise!Open
      <3> QED
        BY <3>4 DEF Promise!Next
    <2> QED
      BY <1>9, <2>3, <2>4, <2>5 DEF AnswerHandled
  <1>10. CASE PoolExhausted
    <2>1. /\ pc \in {"candidate", "exhausted"} /\ pc' = "done" /\ Same
          /\ terminal'.code = "POOL_EXHAUSTED" /\ terminal'.candidate = 0
      BY <1>10 DEF PoolExhausted, LoopOver
    <2>2. pc = "exhausted"
      <3>1. CASE pc = "candidate"
        <4>1. /\ index \in Candidate /\ attempted < plan.maxAttempts
              /\ attempted \in Nat /\ plan.maxAttempts \in Nat
          BY <3>1, PlansAssumption DEF RouterInv, ControlInv, InLoop, TypeOK,
                                       WellFormedPlan
        <4> QED
          BY <1>10, <3>1, <4>1 DEF PoolExhausted, LoopOver
      <3> QED
        BY <2>1, <3>1
    <2>3. calls # <<>>
      BY <2>2 DEF RouterInv, CallInv
    <2>4. CallerVerdict' = "exhausted"
      BY <2>1, Codes DEF CallerVerdict, Exhausted
    <2>5. LastCall = "none" /\ LastCall' = "none"
      BY <2>1, <2>2 DEF LastCall
    <2>6. Promise!Return("exhausted")
      BY <1>1, <2>1, <2>2, <2>3, <2>4, <2>5 DEF Promise!Return, Promise!Open
    <2> QED
      BY <2>6 DEF Promise!Next, Promise!Verdicts
  <1>11. CASE Cancel
    <2>1. cancelled' = TRUE /\ UNCHANGED <<plan, pc, index, calls, terminal>>
      BY <1>11 DEF Cancel, history
    <2>2. CallerVerdict' = CallerVerdict /\ LastCall' = LastCall
      BY <2>1 DEF CallerVerdict, Exhausted, LastCall, Called
    <2>3. Promise!Stop
      BY <2>1, <2>2 DEF Promise!Stop
    <2> QED
      BY <2>3 DEF Promise!Next
  <1>12. CASE UNCHANGED vars
    <2>1. UNCHANGED <<plan, pc, index, calls, terminal, cancelled>>
      BY <1>12 DEF vars, history
    <2>2. CallerVerdict' = CallerVerdict /\ LastCall' = LastCall
      BY <2>1 DEF CallerVerdict, Exhausted, LastCall, Called
    <2> QED
      BY <2>1, <2>2 DEF Promise!pvars
  <1> QED
    BY <1>5, <1>6, <1>7, <1>8, <1>9, <1>10, <1>11, <1>12 DEF Next, RouterStep

\* Seen by its caller, the router does what RoutePromise allows and no more.
THEOREM Refinement == Spec => KeepsPromise
  <1>1. TypeOK /\ RouterInv /\ [Next]_vars => [Promise!Next]_(Promise!pvars)
    BY PromiseStep
  <1> QED
    BY <1>1, PromiseInit, Invariance, PTL DEF Spec, KeepsPromise, Promise!Spec

\* A step of the promise keeps the calls in order and in bounds.
LEMMA PromiseInvStep ==
  ASSUME Promise!PromiseInv, [Promise!Next]_(Promise!pvars)
  PROVE  Promise!PromiseInv'
  <1> DEFINE One  == [candidate : 1 .. plan.size, cancelled : BOOLEAN]
             Same == UNCHANGED <<plan.size, plan.maxAttempts, calls>>
  <1>1. ASSUME NEW c \in 1 .. plan.size, Promise!Call(c)
        PROVE  Promise!PromiseInv'
    <2> DEFINE call == [candidate |-> c, cancelled |-> cancelled]
    <2>1. /\ plan.size' = plan.size /\ plan.maxAttempts' = plan.maxAttempts
          /\ cancelled' = cancelled /\ CallerVerdict' = CallerVerdict
          /\ LastCall' = "out" /\ CallerVerdict = "none"
          /\ Len(calls) < plan.maxAttempts
          /\ calls' = Append(calls, call)
          /\ \A k \in DOMAIN calls : calls[k].candidate < c /\ ~calls[k].cancelled
      BY <1>1 DEF Promise!Call, Promise!Open
    <2>2. /\ calls \in Seq(One) /\ call \in One
          /\ plan.size \in Nat /\ plan.maxAttempts \in Nat
      BY DEF Promise!PromiseInv
    <2>3. /\ calls' \in Seq(One) /\ calls' # <<>> /\ Len(calls') = Len(calls) + 1
          /\ DOMAIN calls' = DOMAIN calls \cup {Len(calls) + 1}
          /\ \A k \in DOMAIN calls : calls'[k] = calls[k] /\ k < Len(calls) + 1
          /\ calls'[Len(calls) + 1] = call
      <3> HIDE DEF One, call
      <3> QED
        BY <2>1, <2>2
    <2>4. Promise!CallsAreOrdered'
      <3>1. Len(calls') <= plan.maxAttempts'
        BY <2>1, <2>2, <2>3
      <3>2. \A k \in DOMAIN calls' : calls'[k].candidate \in 1 .. plan'.size
        BY <2>1, <2>3 DEF Promise!PromiseInv, Promise!CallsAreOrdered
      <3>3. \A j, k \in DOMAIN calls' :
              j < k => calls'[j].candidate < calls'[k].candidate /\ ~calls'[j].cancelled
        BY <2>1, <2>2, <2>3 DEF Promise!PromiseInv, Promise!CallsAreOrdered
      <3> QED
        BY <2>1, <3>1, <3>2, <3>3 DEF Promise!CallsAreOrdered
    <2>5. \A k \in DOMAIN calls' : calls'[k].cancelled => cancelled'
      BY <2>1, <2>3 DEF Promise!PromiseInv
    <2> QED
      BY <2>1, <2>2, <2>3, <2>4, <2>5 DEF Promise!PromiseInv
  <1>2. CASE \/ Promise!Answer \/ Promise!PassOver \/ Promise!Stop
             \/ \E v \in Promise!Verdicts : Promise!Return(v)
             \/ UNCHANGED Promise!pvars
    <2>1. /\ plan.size' = plan.size /\ plan.maxAttempts' = plan.maxAttempts
          /\ calls' = calls
          /\ cancelled' \in BOOLEAN /\ (cancelled => cancelled')
          /\ LastCall' # "none" => LastCall # "none" /\ CallerVerdict' = CallerVerdict
      BY <1>2 DEF Promise!Answer, Promise!PassOver, Promise!Stop, Promise!Return,
         Promise!PromiseInv, Promise!pvars
    <2>2. calls # <<>> => Len(calls) \in DOMAIN calls
      BY DEF Promise!PromiseInv
    <2>3. LastCall' = "answered" => ~calls[Len(calls)].cancelled
      BY <1>2, <2>2 DEF Promise!Answer, Promise!PassOver, Promise!Stop, Promise!Return,
         Promise!PromiseInv, Promise!pvars
    <2>4. CallerVerdict' = "success" => calls # <<>> /\ ~calls[Len(calls)].cancelled
      BY <1>2 DEF Promise!Answer, Promise!PassOver, Promise!Stop, Promise!Return,
         Promise!PromiseInv, Promise!CallsAreOrdered, Promise!pvars
    <2>5. Promise!CallsAreOrdered'
      BY <2>1, <2>4 DEF Promise!PromiseInv, Promise!CallsAreOrdered
    <2> QED
      BY <2>1, <2>3, <2>5 DEF Promise!PromiseInv
  <1> QED
    BY <1>1, <1>2 DEF Promise!Next

\* Whatever keeps the promise calls in order and in bounds, and takes no answer of a
\* call that started after the cancellation.
THEOREM PromiseOrdersCalls == KeepsPromise => []Promise!CallsAreOrdered
  <1>1. Promise!Init => Promise!PromiseInv
    <2> SUFFICES ASSUME Promise!Init
                 PROVE  Promise!PromiseInv
      OBVIOUS
    <2>1. /\ plan.size \in Nat /\ plan.maxAttempts \in Nat /\ cancelled \in BOOLEAN
          /\ calls = <<>> /\ LastCall = "none" /\ CallerVerdict = "none"
      BY DEF Promise!Init
    <2>2. /\ Len(calls) = 0 /\ DOMAIN calls = {}
          /\ calls \in Seq([candidate : 1 .. plan.size, cancelled : BOOLEAN])
      BY <2>1
    <2> QED
      BY <2>1, <2>2 DEF Promise!PromiseInv, Promise!CallsAreOrdered
  <1>2. Promise!PromiseInv /\ [Promise!Next]_(Promise!pvars) => Promise!PromiseInv'
    BY PromiseInvStep
  <1>3. Promise!PromiseInv => Promise!CallsAreOrdered
    BY DEF Promise!PromiseInv
  <1> QED
    BY <1>1, <1>2, <1>3, PTL DEF KeepsPromise, Promise!Spec
==============================================================================
