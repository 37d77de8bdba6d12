----------------------------- MODULE HistoryProofs -----------------------------
(***************************************************************************)
(* Proofs about what an invocation leaves behind, for every set of plans,  *)
(* codes and times: exhaustion is reported only when it is earned, with    *)
(* the right counts, and telemetry tells what the traces tell.  Both are   *)
(* inductive with the router's invariant (module RouterProofs).            *)
(***************************************************************************)
EXTENDS RouterProofs

------------------------------------------------------------------------------
(***************************************************************************)
(* Counting.                                                               *)
(***************************************************************************)
\* The traces of attempts and those of skips, by position.
Attempts == {k \in DOMAIN traces : ~IsSkip(traces[k])}
Skips    == {k \in DOMAIN traces : IsSkip(traces[k])}

\* The sets counted are finite.
LEMMA CountedAreFinite ==
  ASSUME traces \in Seq(Trace)
  PROVE  IsFiniteSet(Attempts) /\ IsFiniteSet(Skips)
  <1>1. IsFiniteSet(1 .. Len(traces))
    BY FS_Interval
  <1>2. /\ Attempts \in SUBSET (1 .. Len(traces))
        /\ Skips \in SUBSET (1 .. Len(traces))
    BY DEF Attempts, Skips
  <1> QED
    BY <1>1, <1>2, FS_Subset

\* No trace, no attempt and no skip.
LEMMA CountNothing ==
  ASSUME traces = <<>>
  PROVE  AttemptCount = 0 /\ SkippedCount = 0
  <1>1. Attempts = {} /\ Skips = {}
    BY DEF Attempts, Skips
  <1> QED
    BY <1>1, FS_EmptySet DEF Attempts, Skips, AttemptCount, SkippedCount

\* A further trace adds one to one of the two counts.
LEMMA CountOneMore ==
  ASSUME traces \in Seq(Trace), NEW t \in Trace, traces' = Append(traces, t)
  PROVE  /\ AttemptCount' = IF IsSkip(t) THEN AttemptCount ELSE AttemptCount + 1
         /\ SkippedCount' = IF IsSkip(t) THEN SkippedCount + 1 ELSE SkippedCount
  <1> DEFINE n == Len(traces) + 1
  <1>1. /\ DOMAIN traces' = DOMAIN traces \cup {n}
        /\ n \notin DOMAIN traces
        /\ traces'[n] = t
        /\ \A k \in DOMAIN traces : traces'[k] = traces[k]
    OBVIOUS
  <1>2. /\ Attempts' = IF IsSkip(t) THEN Attempts ELSE Attempts \cup {n}
        /\ Skips' = IF IsSkip(t) THEN Skips \cup {n} ELSE Skips
        /\ n \notin Attempts /\ n \notin Skips
    BY <1>1 DEF Attempts, Skips, IsSkip
  <1>3. /\ AttemptCount = Cardinality(Attempts)
        /\ SkippedCount = Cardinality(Skips)
        /\ AttemptCount' = Cardinality(Attempts')
        /\ SkippedCount' = Cardinality(Skips')
    BY DEF Attempts, Skips, AttemptCount, SkippedCount
  <1> QED
    BY <1>2, <1>3, CountedAreFinite, FS_AddElement

\* The counts depend on the traces alone.
LEMMA CountKept ==
  ASSUME UNCHANGED traces
  PROVE  AttemptCount' = AttemptCount /\ SkippedCount' = SkippedCount
  BY DEF AttemptCount, SkippedCount, IsSkip

\* Every trace is counted once.
LEMMA CountTotal ==
  ASSUME TypeOK, AttemptCount + SkippedCount = Len(traces),
         \/ UNCHANGED traces
         \/ \E t \in Trace : traces' = Append(traces, t)
  PROVE  (AttemptCount + SkippedCount = Len(traces))'
  <1>1. traces \in Seq(Trace) /\ AttemptCount \in Nat /\ SkippedCount \in Nat
    BY CountType DEF TypeOK
  <1>2. CASE UNCHANGED traces
    BY <1>2, CountKept
  <1>3. ASSUME NEW t \in Trace, traces' = Append(traces, t)
        PROVE  (AttemptCount + SkippedCount = Len(traces))'
    BY <1>1, <1>3, CountOneMore
  <1> QED
    BY <1>2, <1>3

\* No trace of an attempt is one of a skip; that of a retryable failure is
\* recorded as such.
LEMMA AttemptTraceStatus ==
  ASSUME NEW code \in FailureCode \cup {Ok}, NEW b \in Nat, NEW t \in Nat
  PROVE  /\ ~IsSkip(AttemptTrace(code, b, t))
         /\ code \in RetryableCode => Retryable(AttemptTrace(code, b, t))
  <1>1. StatusOf(code) # "skipped_suppressed"
    BY DEF StatusOf
  <1>2. code \in RetryableCode => StatusOf(code) = "retryable_failure"
    BY Codes DEF StatusOf
  <1> QED
    BY <1>1, <1>2 DEF AttemptTrace, IsSkip, Retryable

\* As long as the call goes on there is no verdict to earn.
LEMMA NothingToEarn ==
  ASSUME RouterInv', pc' # "done"
  PROVE  ExhaustionIsEarned'
  <1>1. terminal'.code = NoCode
    BY DEF RouterInv, ControlInv, NoTerminal
  <1> QED
    BY <1>1, Codes DEF ExhaustionIsEarned, Exhausted

\* A return other than the router's own exhaustion keeps the account.
LEMMA CountReturn ==
  ASSUME TypeOK, CountInv, NEW code \in FailureCode \cup {Ok}, NEW c,
         Return(code, c), c # 0 \/ code # "POOL_EXHAUSTED",
         \/ UNCHANGED traces
         \/ \E t \in Trace : traces' = Append(traces, t)
  PROVE  CountInv' /\ ExhaustionIsEarned'
  <1>1. pc' = "done" /\ ~Exhausted'
    BY DEF Return, Exhausted
  <1>2. (AttemptCount + SkippedCount = Len(traces))'
    BY CountTotal DEF CountInv
  <1> QED
    BY <1>1, <1>2 DEF CountInv, ExhaustionIsEarned

\* The end of an attempt keeps the account.
LEMMA CountAttemptEnds ==
  ASSUME TypeOK, RouterInv, RouterInv', CountInv, AttemptEnds
  PROVE  CountInv' /\ ExhaustionIsEarned'
  <1>1. PICK out \in Output : AttemptCancelled(out) \/ AttemptAnswered(out)
    BY DEF AttemptEnds
  <1>2. index \in Nat \ {0} /\ budget \in Nat /\ elapsed + out.elapsed \in Nat
    BY OutputType DEF AttemptOutput, TypeOK
  <1>3. CASE AttemptCancelled(out)
    <2>1. AttemptTrace("CANCELLED", budget, elapsed + out.elapsed) \in Trace
      BY <1>2, Codes, RecordTypes
    <2> QED
      BY <1>2, <1>3, <2>1, Codes, CountReturn DEF AttemptCancelled, Record
  <1>4. CASE AttemptAnswered(out)
    <2>1. /\ pc \in {"credential", "adapter"} /\ pc' = "answered"
          /\ UNCHANGED <<plan, index, attempted, traces, calls>>
      BY <1>4 DEF AttemptAnswered, Settle, Output
    <2>2. pc = "credential" => ~Called'
      BY <2>1, CallType DEF RouterInv, CallInv, Called, Last
    <2>3. CountInv'
      BY <2>1, <2>2, CountKept DEF CountInv
    <2> QED
      BY <2>1, <2>3, NothingToEarn
  <1> QED
    BY <1>1, <1>3, <1>4

\* So does what the router makes of an answer.
LEMMA CountAnswerHandled ==
  ASSUME TypeOK, RouterInv, RouterInv', CountInv, AnswerHandled
  PROVE  CountInv' /\ ExhaustionIsEarned'
  <1>1. /\ pc = "answered"
        /\ UNCHANGED <<plan, attempted, budget, output, calls>>
    BY DEF AnswerHandled, LateResponse, Success, FailOver, GiveUp, FailFast,
           InTime, loop
  <1>2. /\ index \in Nat \ {0} /\ budget \in Nat /\ elapsed \in Nat
        /\ output.elapsed \in Nat /\ ResultCode \in FailureCode \cup {Ok}
    <2>1. output \in AttemptOutput /\ plan.mode \in Mode
      BY <1>1, PlansAssumption DEF TypeOK, WellFormedPlan
    <2> QED
      BY <2>1, TerminalCodeType DEF ResultCode, TypeOK
  <1> DEFINE T == AttemptTrace(ResultCode, budget, output.elapsed)
  <1>3. T \in Trace /\ ~IsSkip(T)
    BY <1>2, RecordTypes, AttemptTraceStatus
  <1>4. CASE LateResponse
    <2>1. AttemptTrace("LATE_RESPONSE_DISCARDED", budget, elapsed) \in Trace
      BY <1>2, Codes, RecordTypes
    <2> QED
      BY <1>2, <1>4, <2>1, Codes, CountReturn DEF LateResponse, Record
  <1>5. CASE Success \/ FailFast
    BY <1>2, <1>3, <1>5, CountReturn DEF Success, FailFast, InTime, Record
  <1>6. ASSUME FailOver \/ GiveUp
        PROVE  /\ traces' = Append(traces, T)
               /\ ResultCode \in RetryableCode
               /\ AttemptCount' = AttemptCount + 1
               /\ (AttemptCount + SkippedCount = Len(traces))'
               /\ attempted = AttemptCount' /\ attempted = Len(calls)
    <2>1. traces' = Append(traces, T) /\ ResultCode \in RetryableCode
      BY <1>6 DEF FailOver, GiveUp, InTime, Record, FailoverRetryable
    <2>2. AttemptCount' = AttemptCount + 1
      BY <1>3, <2>1, CountOneMore DEF TypeOK
    <2>3. (AttemptCount + SkippedCount = Len(traces))'
      BY <1>3, <2>1, CountTotal DEF CountInv
    <2>4. Called
      BY <1>1, <2>1 DEF RouterInv, CallInv
    <2> QED
      BY <1>1, <2>1, <2>2, <2>3, <2>4 DEF CountInv
  <1>7. CASE FailOver
    <2>1. pc' = "candidate"
      BY <1>7 DEF FailOver
    <2> QED
      BY <1>1, <1>6, <1>7, <2>1, NothingToEarn DEF CountInv
  <1>8. CASE GiveUp
    <2>1. /\ pc' = "exhausted" /\ lastRetryable' = ResultCode
          /\ ~HasFailoverCandidate
      BY <1>8 DEF GiveUp
    <2>2. /\ Len(traces) = index - 1 /\ traces \in Seq(Trace)
          /\ index \in 1 .. plan.size
          /\ \A k \in DOMAIN traces : IsSkip(traces[k]) \/ Retryable(traces[k])
      BY <1>1 DEF RouterInv, ControlInv, OrderedFailover, InLoop, Candidate, TypeOK
    <2>3. plan.size \in Nat /\ plan.maxAttempts \in Nat /\ attempted \in Nat
          /\ AttemptCount \in Nat
      BY PlansAssumption, CountType DEF TypeOK, WellFormedPlan
    <2>4. Retryable(T)
      BY <1>2, <1>6, <1>8, AttemptTraceStatus
    <2>5. \A k \in DOMAIN traces' : IsSkip(traces'[k]) \/ Retryable(traces'[k])
      <3>1. \A k \in DOMAIN traces' :
              \/ k \in DOMAIN traces /\ traces'[k] = traces[k]
              \/ traces'[k] = T
        BY <1>6, <1>8, <2>2
      <3> QED
        BY <2>2, <2>4, <3>1 DEF IsSkip, Retryable
    <2>6. attempted \in 1 .. plan.maxAttempts
      BY <1>1, <2>3 DEF CountInv
    <2>7. attempted = plan.maxAttempts \/ Len(traces') = plan.size
      BY <1>6, <1>8, <2>1, <2>2, <2>3, <2>6 DEF HasFailoverCandidate
    <2>8. Earned'
      BY <1>1, <1>6, <1>8, <2>1, <2>5, <2>6, <2>7 DEF Earned
    <2> QED
      BY <1>1, <1>6, <1>8, <2>1, <2>8, NothingToEarn DEF CountInv
  <1> QED
    BY <1>4, <1>5, <1>7, <1>8 DEF AnswerHandled

\* The account is kept by every step.
LEMMA CountStep ==
  TypeOK /\ RouterInv /\ RouterInv' /\ CountInv /\ ExhaustionIsEarned /\ [Next]_vars
    => CountInv' /\ ExhaustionIsEarned'
  <1> SUFFICES ASSUME TypeOK, RouterInv, RouterInv', CountInv, ExhaustionIsEarned,
                      [Next]_vars
               PROVE  CountInv' /\ ExhaustionIsEarned'
    OBVIOUS
  <1>1. CASE SchemaReady
    <2>1. pc = "schema" /\ pc' = "candidate" /\ UNCHANGED <<plan, attempted, traces, calls>>
      BY <1>1 DEF SchemaReady, loop, history
    <2> QED
      BY <2>1, CountKept, NothingToEarn DEF CountInv
  <1>2. CASE SchemaUnavailable \/ CancelledAtHead \/ DeadlineElapsed
    BY <1>2, Codes, CountReturn DEF SchemaUnavailable, CancelledAtHead,
                                    DeadlineElapsed
  <1>3. CASE SkipCandidate
    <2>1. /\ pc = "candidate" /\ pc' = "candidate"
          /\ UNCHANGED <<plan, attempted, calls>>
          /\ traces' = Append(traces, SkipTrace)
      BY <1>3 DEF SkipCandidate, NextCandidate, loop
    <2>2. SkipTrace \in Trace /\ IsSkip(SkipTrace)
      BY RecordTypes DEF SkipTrace, IsSkip
    <2>3. AttemptCount' = AttemptCount
      BY <2>1, <2>2, CountOneMore DEF TypeOK
    <2>4. (AttemptCount + SkippedCount = Len(traces))'
      BY <2>1, <2>2, CountTotal DEF CountInv
    <2> QED
      BY <2>1, <2>3, <2>4, NothingToEarn DEF CountInv
  <1>4. CASE AdapterMissing
    <2>1. WellFormedPlan(plan)
      BY PlansAssumption DEF TypeOK
    <2>2. plan.deadline \in Nat /\ elapsed \in Nat /\ index # 0
      BY <2>1 DEF WellFormedPlan, TypeOK
    <2>3. Remaining > 0
      BY <1>4 DEF AdapterMissing
    <2>4. Remaining \in Nat \ {0}
      BY <2>2, <2>3 DEF Remaining
    <2>5. AttemptTrace("UNSUPPORTED_PROVIDER_FORMAT",
                       CandidateBudget(plan, index, Remaining), 0) \in Trace
      BY <2>1, <2>2, <2>4, Codes, CandidateBudgetBounds, RecordTypes
    <2> QED
      BY <1>4, <2>2, <2>5, Codes, CountReturn DEF AdapterMissing
  <1>5. CASE StartAttempt
    <2>1. /\ pc = "candidate" /\ pc' = "credential" /\ attempted' = attempted + 1
          /\ attempted < plan.maxAttempts
          /\ UNCHANGED <<plan, traces, calls>>
      BY <1>5 DEF StartAttempt, NextCandidate, history
    <2>2. attempted \in Nat /\ plan.maxAttempts \in Nat
      BY PlansAssumption DEF TypeOK, WellFormedPlan
    <2> QED
      BY <2>1, <2>2, CountKept, NothingToEarn DEF CountInv
  <1>6. CASE CallAdapter
    <2>1. /\ pc = "credential" /\ pc' = "adapter" /\ Len(calls') = Len(calls) + 1
          /\ UNCHANGED <<plan, attempted, traces>>
      BY <1>6 DEF CallAdapter, loop, TypeOK
    <2> QED
      BY <2>1, CountKept, NothingToEarn DEF CountInv
  <1>7. CASE AttemptEnds \/ AnswerHandled
    BY <1>7, CountAttemptEnds, CountAnswerHandled
  <1>8. CASE PoolExhausted
    <2>0. attempted \in Nat /\ plan.maxAttempts \in Nat
      BY PlansAssumption DEF TypeOK, WellFormedPlan
    <2>1. pc = "exhausted" /\ UNCHANGED <<plan, traces, calls>>
      BY <1>8, <2>0 DEF PoolExhausted, LoopOver, RouterInv, ControlInv, InLoop, loop
    <2>2. /\ pc' = "done"
          /\ terminal' = [code |-> "POOL_EXHAUSTED", candidate |-> 0,
                          attempts |-> AttemptCount, skipped |-> SkippedCount,
                          last |-> lastRetryable]
      BY <1>8 DEF PoolExhausted
    <2>3. CountInv'
      BY <2>1, <2>2, CountKept DEF CountInv
    <2>4. ExhaustionIsEarned'
      BY <2>1, <2>2 DEF CountInv, Earned, ExhaustionIsEarned, IsSkip, Retryable
    <2> QED
      BY <2>3, <2>4
  <1>9. CASE Cancel \/ UNCHANGED vars
    <2>1. UNCHANGED <<plan, pc, index, attempted, lastRetryable, traces, calls, terminal>>
      BY <1>9 DEF Cancel, vars, loop, history
    <2> QED
      BY <2>1, CountKept DEF CountInv, Earned, Called, ExhaustionIsEarned, Exhausted,
                             IsSkip, Retryable, Last
  <1> QED
    BY <1>1, <1>2, <1>3, <1>4, <1>5, <1>6, <1>7, <1>8, <1>9 DEF Next, RouterStep

\* The account holds in every reachable state.
LEMMA CountInit == Init => CountInv /\ ExhaustionIsEarned
  <1> SUFFICES ASSUME Init
               PROVE  CountInv /\ ExhaustionIsEarned
    OBVIOUS
  <1>1. /\ pc = "schema" /\ attempted = 0 /\ traces = <<>> /\ calls = <<>>
        /\ terminal.code = NoCode
    BY DEF Init, NoTerminal
  <1>2. CountInv
    BY <1>1, CountNothing DEF CountInv
  <1> QED
    BY <1>1, <1>2, Codes DEF ExhaustionIsEarned, Exhausted

------------------------------------------------------------------------------
(***************************************************************************)
(* Telemetry and traces.                                                   *)
(***************************************************************************)
\* An event that a step other than a return adds, for the trace it adds.
Tells(e, t) ==
  /\ IsAttemptEvent(e)
  /\ e.candidate = t.candidate
  /\ e.family = "endpoint_suppressed" <=> IsSkip(t)

\* An event and a trace added together keep the story.
LEMMA StoryGoesOn ==
  ASSUME TypeOK, StoryInv, pc # "done", pc' # "done",
         NEW e \in EventType, NEW t \in Trace, Tells(e, t),
         events' = Append(events, e), traces' = Append(traces, t)
  PROVE  StoryInv'
  <1>1. /\ events \in Seq(EventType) /\ traces \in Seq(Trace)
        /\ Len(events) = Len(traces)
    BY DEF TypeOK, EventType, StoryInv
  <1>2. Len(events') = Len(traces')
    BY <1>1
  <1>3. ASSUME NEW k \in DOMAIN events'
        PROVE  Tells(events'[k], traces'[k])
    <2>1. CASE k \in DOMAIN events
      <3>1. events'[k] = events[k] /\ traces'[k] = traces[k]
        BY <1>1, <2>1
      <3> QED
        BY <2>1, <3>1 DEF StoryInv, Tells
    <2>2. CASE k = Len(events) + 1
      <3>1. events'[k] = e /\ traces'[k] = t
        BY <1>1, <2>2
      <3> QED
        BY <3>1
    <2> QED
      BY <1>1, <1>3, <2>1, <2>2
  <1> QED
    BY <1>2, <1>3 DEF StoryInv, Tells, IsAttemptEvent, IsSkip

\* While the call goes on its events are those of its traces.
LEMMA StoryIsTold ==
  ASSUME TypeOK', StoryInv', pc' # "done"
  PROVE  EventsMirrorTraces'
  <1>1. /\ Len(events') = Len(traces') /\ DOMAIN events' = 1 .. Len(traces')
        /\ \A k \in DOMAIN events' : IsAttemptEvent(events'[k])
    BY DEF TypeOK, StoryInv, IsAttemptEvent
  <1>2. {k \in DOMAIN events' : IsAttemptEvent(events'[k])} = 1 .. Len(traces')
    BY <1>1
  <1>3. {k \in DOMAIN events' : IsClosingEvent(events'[k])} = {}
    BY <1>1 DEF IsAttemptEvent, IsClosingEvent
  <1> QED
    BY <1>2, <1>3 DEF EventsMirrorTraces, StoryInv, IsAttemptEvent,
                      IsClosingEvent, IsSkip

\* The events of a return: one for the last trace, if the step adds it, and others
\* of which the last, and no other, closes the story.
Closes(s, first) ==
  /\ s \in Seq(EventType) /\ s # <<>>
  /\ \A k \in DOMAIN s : IsClosingEvent(s[k]) <=> k = Len(s)
  /\ \A k \in DOMAIN s : IsAttemptEvent(s[k]) <=> first /\ k = 1

\* The events of a sequence that is added to another.
LEMMA Added ==
  ASSUME NEW u \in Seq(EventType), NEW s \in Seq(EventType)
  PROVE  /\ Len(u \o s) = Len(u) + Len(s)
         /\ DOMAIN (u \o s) = 1 .. Len(u) + Len(s)
         /\ \A k \in 1 .. Len(u) : (u \o s)[k] = u[k]
         /\ \A k \in Len(u) + 1 .. Len(u) + Len(s) : (u \o s)[k] = s[k - Len(u)]
  <1>1. u \o s \in Seq(EventType) /\ Len(u) \in Nat /\ Len(s) \in Nat
    OBVIOUS
  <1>2. Len(u \o s) = Len(u) + Len(s)
    OBVIOUS
  <1>3. DOMAIN (u \o s) = 1 .. Len(u) + Len(s)
    BY <1>1, <1>2
  <1>4. \A k \in 1 .. Len(u) : (u \o s)[k] = u[k]
    BY <1>1
  <1>5. \A k \in Len(u) + 1 .. Len(u) + Len(s) : (u \o s)[k] = s[k - Len(u)]
    BY <1>1
  <1> QED
    BY <1>2, <1>3, <1>4, <1>5

\* A return that adds no trace, or one that no event tells of.
LEMMA StoryEndsUntold ==
  ASSUME TypeOK, StoryInv, pc # "done", pc' = "done",
         NEW s, Closes(s, FALSE), events' = events \o s,
         \/ UNCHANGED traces
         \/ /\ \E t \in Trace : traces' = Append(traces, t)
            /\ terminal'.code = "UNSUPPORTED_PROVIDER_FORMAT"
  PROVE  EventsMirrorTraces'
  <1>1. /\ events \in Seq(EventType) /\ traces \in Seq(Trace)
        /\ s \in Seq(EventType) /\ Len(s) \in Nat \ {0}
        /\ Len(events) = Len(traces)
    BY DEF TypeOK, EventType, StoryInv, Closes
  <1> DEFINE n == Len(traces)
  <1>2. /\ DOMAIN events' = 1 .. n + Len(s) /\ Len(events') = n + Len(s)
        /\ \A k \in 1 .. n : events'[k] = events[k]
        /\ \A k \in n + 1 .. n + Len(s) : events'[k] = s[k - n]
    <2>1. /\ Len(events \o s) = Len(events) + Len(s)
          /\ DOMAIN (events \o s) = 1 .. Len(events) + Len(s)
          /\ \A k \in 1 .. Len(events) : (events \o s)[k] = events[k]
          /\ \A k \in Len(events) + 1 .. Len(events) + Len(s) :
               (events \o s)[k] = s[k - Len(events)]
      BY <1>1, Added
    <2> QED
      BY <1>1, <2>1, Zenon
  <1>3. \A k \in 1 .. n : /\ IsAttemptEvent(events'[k])
                          /\ ~IsClosingEvent(events'[k])
                          /\ traces'[k] = traces[k]
    <2> SUFFICES ASSUME NEW k \in 1 .. n
                 PROVE  /\ IsAttemptEvent(events'[k])
                        /\ ~IsClosingEvent(events'[k])
                        /\ traces'[k] = traces[k]
      OBVIOUS
    <2>1. IsAttemptEvent(events[k]) /\ events'[k] = events[k]
      BY <1>1, <1>2 DEF StoryInv
    <2>2. traces'[k] = traces[k]
      <3>1. ASSUME NEW t \in Trace, traces' = Append(traces, t)
            PROVE  traces'[k] = traces[k]
        BY <1>1, <3>1
      <3> QED
        BY <3>1
    <2> QED
      BY <2>1, <2>2 DEF IsAttemptEvent, IsClosingEvent
  <1>4. \A k \in n + 1 .. n + Len(s) :
          /\ ~IsAttemptEvent(events'[k])
          /\ IsClosingEvent(events'[k]) <=> k = n + Len(s)
    <2> SUFFICES ASSUME NEW k \in n + 1 .. n + Len(s)
                 PROVE  /\ ~IsAttemptEvent(events'[k])
                        /\ IsClosingEvent(events'[k]) <=> k = n + Len(s)
      OBVIOUS
    <2>1. k - n \in DOMAIN s /\ events'[k] = s[k - n]
      BY <1>1, <1>2
    <2>2. k - n = Len(s) <=> k = n + Len(s)
      BY <1>1
    <2>3. k - n = 1 <=> k = n + 1
      BY <1>1
    <2>4. /\ IsClosingEvent(s[k - n]) <=> k - n = Len(s)
          /\ IsAttemptEvent(s[k - n]) <=> FALSE /\ k - n = 1
      BY <2>1 DEF Closes
    <2> QED
      BY <2>1, <2>2, <2>3, <2>4 DEF IsAttemptEvent, IsClosingEvent
  <1>5. {k \in DOMAIN events' : IsAttemptEvent(events'[k])} = 1 .. n
    BY <1>1, <1>2, <1>3, <1>4
  <1>6. {k \in DOMAIN events' : IsClosingEvent(events'[k])} = {Len(events')}
    BY <1>1, <1>2, <1>3, <1>4
  <1>7. \/ 1 .. n = 1 .. Len(traces')
        \/ /\ terminal'.code = "UNSUPPORTED_PROVIDER_FORMAT"
           /\ 1 .. n = 1 .. Len(traces') - 1
    BY <1>1
  <1>8. \A k \in 1 .. n :
          /\ events'[k].candidate = traces'[k].candidate
          /\ events'[k].family = "endpoint_suppressed" <=> IsSkip(traces'[k])
    BY <1>1, <1>2, <1>3 DEF StoryInv, IsSkip
  <1> QED
    BY <1>5, <1>6, <1>7, <1>8 DEF EventsMirrorTraces, IsAttemptEvent, IsClosingEvent, IsSkip

\* A return with a trace and its event.
LEMMA StoryEndsTold ==
  ASSUME TypeOK, StoryInv, pc # "done", pc' = "done",
         NEW s, Closes(s, TRUE), events' = events \o s,
         NEW t \in Trace, traces' = Append(traces, t), Tells(s[1], t)
  PROVE  EventsMirrorTraces'
  <1>1. /\ events \in Seq(EventType) /\ traces \in Seq(Trace)
        /\ s \in Seq(EventType) /\ Len(s) \in Nat \ {0}
        /\ Len(events) = Len(traces)
    BY DEF TypeOK, EventType, StoryInv, Closes
  <1> DEFINE n == Len(traces)
  <1>2. /\ DOMAIN events' = 1 .. n + Len(s) /\ Len(events') = n + Len(s)
        /\ \A k \in 1 .. n : events'[k] = events[k]
        /\ \A k \in n + 1 .. n + Len(s) : events'[k] = s[k - n]
    <2>1. /\ Len(events \o s) = Len(events) + Len(s)
          /\ DOMAIN (events \o s) = 1 .. Len(events) + Len(s)
          /\ \A k \in 1 .. Len(events) : (events \o s)[k] = events[k]
          /\ \A k \in Len(events) + 1 .. Len(events) + Len(s) :
               (events \o s)[k] = s[k - Len(events)]
      BY <1>1, Added
    <2> QED
      BY <1>1, <2>1, Zenon
  <1>3. \A k \in 1 .. n : /\ Tells(events'[k], traces'[k])
                          /\ ~IsClosingEvent(events'[k])
    <2> SUFFICES ASSUME NEW k \in 1 .. n
                 PROVE  Tells(events'[k], traces'[k]) /\ ~IsClosingEvent(events'[k])
      OBVIOUS
    <2>1. Tells(events[k], traces[k]) /\ events'[k] = events[k]
      BY <1>1, <1>2 DEF StoryInv, Tells
    <2>2. traces'[k] = traces[k]
      BY <1>1
    <2> QED
      BY <2>1, <2>2 DEF Tells, IsAttemptEvent, IsClosingEvent
  <1>4. Tells(events'[n + 1], traces'[n + 1]) /\ Len(traces') = n + 1
    <2>1. events'[n + 1] = s[1] /\ traces'[n + 1] = t /\ Len(traces') = n + 1
      BY <1>1, <1>2
    <2> QED
      BY <2>1
  <1>5. \A k \in n + 1 .. n + Len(s) :
          /\ IsAttemptEvent(events'[k]) <=> k = n + 1
          /\ IsClosingEvent(events'[k]) <=> k = n + Len(s)
    <2> SUFFICES ASSUME NEW k \in n + 1 .. n + Len(s)
                 PROVE  /\ IsAttemptEvent(events'[k]) <=> k = n + 1
                        /\ IsClosingEvent(events'[k]) <=> k = n + Len(s)
      OBVIOUS
    <2>1. k - n \in DOMAIN s /\ events'[k] = s[k - n]
      BY <1>1, <1>2
    <2>2. k - n = Len(s) <=> k = n + Len(s)
      BY <1>1
    <2>3. k - n = 1 <=> k = n + 1
      BY <1>1
    <2>4. /\ IsClosingEvent(s[k - n]) <=> k - n = Len(s)
          /\ IsAttemptEvent(s[k - n]) <=> TRUE /\ k - n = 1
      BY <2>1 DEF Closes
    <2> QED
      BY <2>1, <2>2, <2>3, <2>4 DEF IsAttemptEvent, IsClosingEvent
  <1>6. \A k \in 1 .. n + 1 : Tells(events'[k], traces'[k])
    BY <1>1, <1>3, <1>4
  <1>7. {k \in DOMAIN events' : IsAttemptEvent(events'[k])} = 1 .. n + 1
    BY <1>1, <1>2, <1>5, <1>6 DEF Tells
  <1>8. {k \in DOMAIN events' : IsClosingEvent(events'[k])} = {Len(events')}
    BY <1>1, <1>2, <1>3, <1>5
  <1> QED
    BY <1>4, <1>6, <1>7, <1>8
       DEF EventsMirrorTraces, Tells, IsAttemptEvent, IsClosingEvent, IsSkip

\* The end of an attempt keeps the story.
LEMMA StoryAttemptEnds ==
  ASSUME TypeOK, RouterInv, StoryInv, AttemptEnds
  PROVE  \/ pc' # "done" /\ StoryInv'
         \/ pc' = "done" /\ EventsMirrorTraces'
  <1>1. PICK out \in Output : AttemptCancelled(out) \/ AttemptAnswered(out)
    BY DEF AttemptEnds
  <1>2. index \in Nat /\ budget \in Nat /\ elapsed + out.elapsed \in Nat
    BY OutputType DEF AttemptOutput, TypeOK
  <1>3. CASE AttemptCancelled(out)
    <2> DEFINE t == AttemptTrace("CANCELLED", budget, elapsed + out.elapsed)
               s == <<Event("pool_attempt", index), Event("cancellation", index),
                      Event("late_response_discarded", index),
                      Event("failure", index)>>
    <2>1. t \in Trace /\ ~IsSkip(t) /\ t.candidate = index
      BY <1>2, Codes, RecordTypes, AttemptTraceStatus DEF AttemptTrace
    <2>2. pc # "done" /\ pc' = "done" /\ traces' = Append(traces, t)
          /\ events' = events \o s
      BY <1>3 DEF AttemptCancelled, Settle, Output, Return, Record
    <2>3. Closes(s, TRUE)
      BY <1>2 DEF Closes, EventType, EventFamily, Event, IsAttemptEvent, IsClosingEvent
    <2>4. Tells(s[1], t)
      BY <2>1 DEF Tells, Event, IsAttemptEvent
    <2> QED
      BY <2>1, <2>2, <2>3, <2>4, StoryEndsTold
  <1>4. CASE AttemptAnswered(out)
    BY <1>4 DEF AttemptAnswered, Settle, Output, StoryInv, IsAttemptEvent, IsSkip
  <1> QED
    BY <1>1, <1>3, <1>4

\* So does what the router makes of an answer.
LEMMA StoryAnswerHandled ==
  ASSUME TypeOK, RouterInv, StoryInv, AnswerHandled
  PROVE  \/ pc' # "done" /\ StoryInv'
         \/ pc' = "done" /\ EventsMirrorTraces'
  <1>1. pc = "answered"
    BY DEF AnswerHandled, LateResponse, Success, FailOver, GiveUp, FailFast, InTime
  <1>2. /\ index \in Nat /\ budget \in Nat /\ elapsed \in Nat
        /\ output.elapsed \in Nat /\ ResultCode \in FailureCode \cup {Ok}
    <2>1. output \in AttemptOutput /\ plan.mode \in Mode
      BY <1>1, PlansAssumption DEF TypeOK, WellFormedPlan
    <2> QED
      BY <2>1, TerminalCodeType DEF ResultCode, TypeOK
  <1> DEFINE T == AttemptTrace(ResultCode, budget, output.elapsed)
             E == Event("pool_attempt", index)
  <1>3. T \in Trace /\ ~IsSkip(T) /\ T.candidate = index
    BY <1>2, RecordTypes, AttemptTraceStatus DEF AttemptTrace
  <1>4. CASE LateResponse
    <2> DEFINE t == AttemptTrace("LATE_RESPONSE_DISCARDED", budget, elapsed)
               s == <<E, Event("late_response_discarded", index),
                      Event("failure", index)>>
    <2>1. t \in Trace /\ ~IsSkip(t) /\ t.candidate = index
      BY <1>2, Codes, RecordTypes, AttemptTraceStatus DEF AttemptTrace
    <2>2. pc' = "done" /\ traces' = Append(traces, t) /\ events' = events \o s
      BY <1>4 DEF LateResponse, Return, Record
    <2>3. Closes(s, TRUE)
      BY <1>2 DEF Closes, EventType, EventFamily, Event, IsAttemptEvent, IsClosingEvent
    <2>4. Tells(s[1], t)
      BY <2>1 DEF Tells, Event, IsAttemptEvent
    <2> QED
      BY <1>1, <2>1, <2>2, <2>3, <2>4, StoryEndsTold
  <1>5. ASSUME NEW f \in {"success", "failure"}, pc' = "done",
               traces' = Append(traces, T), events' = events \o <<E, Event(f, index)>>
        PROVE  EventsMirrorTraces'
    <2> DEFINE s == <<E, Event(f, index)>>
    <2>1. Closes(s, TRUE)
      BY <1>2 DEF Closes, EventType, EventFamily, Event, IsAttemptEvent, IsClosingEvent
    <2>2. Tells(s[1], T)
      BY <1>3 DEF Tells, Event, IsAttemptEvent
    <2> QED
      BY <1>1, <1>3, <1>5, <2>1, <2>2, StoryEndsTold
  <1>6. CASE Success \/ FailFast
    BY <1>5, <1>6 DEF Success, FailFast, InTime, Record, Return
  <1>7. CASE FailOver \/ GiveUp
    <2>1. /\ pc' # "done" /\ traces' = Append(traces, T) /\ events' = Append(events, E)
      BY <1>7 DEF FailOver, GiveUp, InTime, Record
    <2>2. E \in EventType /\ Tells(E, T)
      BY <1>2, <1>3 DEF EventType, EventFamily, Event, Tells, IsAttemptEvent
    <2> QED
      BY <1>1, <1>3, <2>1, <2>2, StoryGoesOn
  <1> QED
    BY <1>4, <1>6, <1>7 DEF AnswerHandled

\* The story is kept by every step.
LEMMA StoryStep ==
  TypeOK /\ TypeOK' /\ RouterInv /\ StoryInv /\ EventsMirrorTraces /\ [Next]_vars
    => StoryInv' /\ EventsMirrorTraces'
  <1> SUFFICES ASSUME TypeOK, TypeOK', RouterInv, StoryInv, EventsMirrorTraces,
                      [Next]_vars
               PROVE  StoryInv' /\ EventsMirrorTraces'
    OBVIOUS
  <1>1. SUFFICES \/ pc' # "done" /\ StoryInv'
                 \/ pc' = "done" /\ EventsMirrorTraces'
    <2>1. ASSUME pc' # "done", StoryInv'
          PROVE  EventsMirrorTraces'
      BY <2>1, StoryIsTold
    <2> QED
      BY <2>1 DEF StoryInv
  <1>2. index \in Nat
    BY DEF TypeOK
  <1>3. CASE SchemaReady \/ StartAttempt \/ CallAdapter
    BY <1>3 DEF SchemaReady, StartAttempt, CallAdapter, NextCandidate, history,
                StoryInv, IsAttemptEvent, IsSkip
  <1>4. CASE SchemaUnavailable
    <2> DEFINE s == <<Event("failure", 0)>>
    <2>1. Closes(s, FALSE)
      BY DEF Closes, EventType, EventFamily, Event, IsAttemptEvent, IsClosingEvent
    <2>2. pc # "done" /\ pc' = "done" /\ UNCHANGED traces /\ events' = events \o s
      BY <1>4 DEF SchemaUnavailable, Return, TypeOK
    <2> QED
      BY <2>1, <2>2, StoryEndsUntold
  <1>5. CASE CancelledAtHead
    <2> DEFINE s == <<Event("cancellation", 0), Event("failure", 0)>>
    <2>1. Closes(s, FALSE)
      BY DEF Closes, EventType, EventFamily, Event, IsAttemptEvent, IsClosingEvent
    <2>2. pc # "done" /\ pc' = "done" /\ UNCHANGED traces /\ events' = events \o s
      BY <1>5 DEF CancelledAtHead, Return
    <2> QED
      BY <2>1, <2>2, StoryEndsUntold
  <1>6. CASE DeadlineElapsed
    <2> DEFINE s == <<Event("deadline_exceeded", index), Event("failure", index)>>
    <2>1. Closes(s, FALSE)
      BY <1>2 DEF Closes, EventType, EventFamily, Event, IsAttemptEvent, IsClosingEvent
    <2>2. pc # "done" /\ pc' = "done" /\ UNCHANGED traces /\ events' = events \o s
      BY <1>6 DEF DeadlineElapsed, NextCandidate, Return
    <2> QED
      BY <2>1, <2>2, StoryEndsUntold
  <1>7. CASE AdapterMissing
    <2> DEFINE t == AttemptTrace("UNSUPPORTED_PROVIDER_FORMAT",
                                 CandidateBudget(plan, index, Remaining), 0)
               s == <<Event("failure", index)>>
    <2>0. WellFormedPlan(plan) /\ plan.deadline \in Nat /\ elapsed \in Nat
      BY PlansAssumption DEF TypeOK, WellFormedPlan
    <2>1. Remaining \in Nat \ {0}
      BY <1>7, <2>0 DEF AdapterMissing, Remaining
    <2>2. t \in Trace
      BY <1>2, <2>0, <2>1, Codes, CandidateBudgetBounds, RecordTypes
    <2>3. Closes(s, FALSE)
      BY <1>2 DEF Closes, EventType, EventFamily, Event, IsAttemptEvent, IsClosingEvent
    <2>4. /\ pc # "done" /\ pc' = "done" /\ traces' = Append(traces, t)
          /\ events' = events \o s
          /\ terminal'.code = "UNSUPPORTED_PROVIDER_FORMAT"
      BY <1>7 DEF AdapterMissing, NextCandidate, Return, TypeOK
    <2> QED
      BY <2>2, <2>3, <2>4, StoryEndsUntold
  <1>8. CASE SkipCandidate
    <2> DEFINE e == Event("endpoint_suppressed", index)
    <2>1. e \in EventType /\ Tells(e, SkipTrace) /\ SkipTrace \in Trace
      BY <1>2, RecordTypes DEF EventType, EventFamily, Event, Tells, IsAttemptEvent,
                               SkipTrace, IsSkip
    <2>2. /\ pc # "done" /\ pc' # "done" /\ traces' = Append(traces, SkipTrace)
          /\ events' = Append(events, e)
      BY <1>8 DEF SkipCandidate, NextCandidate
    <2> QED
      BY <2>1, <2>2, StoryGoesOn
  <1>9. CASE AttemptEnds \/ AnswerHandled
    BY <1>9, StoryAttemptEnds, StoryAnswerHandled
  <1>10. CASE PoolExhausted
    <2> DEFINE s == <<Event("pool_exhausted", 0)>>
    <2>1. Closes(s, FALSE)
      BY DEF Closes, EventType, EventFamily, Event, IsAttemptEvent, IsClosingEvent
    <2>2. pc # "done" /\ pc' = "done" /\ UNCHANGED traces /\ events' = events \o s
      BY <1>10 DEF PoolExhausted, LoopOver, TypeOK
    <2> QED
      BY <2>1, <2>2, StoryEndsUntold
  <1>11. CASE Cancel \/ UNCHANGED vars
    <2>1. UNCHANGED <<pc, traces, events, terminal>>
      BY <1>11 DEF Cancel, vars, loop, history
    <2> QED
      BY <2>1 DEF StoryInv, EventsMirrorTraces, IsAttemptEvent, IsClosingEvent, IsSkip
  <1> QED
    BY <1>3, <1>4, <1>5, <1>6, <1>7, <1>8, <1>9, <1>10, <1>11 DEF Next, RouterStep

\* A call that has not begun has no story.
LEMMA StoryInit == Init => StoryInv /\ EventsMirrorTraces
  <1> SUFFICES ASSUME Init
               PROVE  StoryInv /\ EventsMirrorTraces
    OBVIOUS
  <1>1. pc = "schema" /\ traces = <<>> /\ events = <<>>
    BY DEF Init
  <1>2. StoryInv
    BY <1>1 DEF StoryInv
  <1>3. /\ {k \in DOMAIN events : IsAttemptEvent(events[k])} = {}
        /\ {k \in DOMAIN events : IsClosingEvent(events[k])} = {}
        /\ 1 .. Len(traces) = {}
    BY <1>1
  <1> QED
    BY <1>1, <1>2, <1>3 DEF EventsMirrorTraces

------------------------------------------------------------------------------
(***************************************************************************)
(* The closing event and the verdict.                                      *)
(***************************************************************************)
\* A return whose last event is the one for its verdict announces it.
LEMMA Announced ==
  ASSUME TypeOK, NEW s \in Seq(EventType), s # <<>>, events' = events \o s,
         s[Len(s)] = Event(ClosingFamily, terminal.candidate)'
  PROVE  VerdictIsAnnounced'
  <1>1. events \in Seq(EventType)
    BY DEF TypeOK, EventType
  <1>2. Len(events') = Len(events) + Len(s) /\ Len(s) \in Nat \ {0}
    BY <1>1
  <1>3. events'[Len(events')] = s[Len(s)]
    BY <1>1, <1>2
  <1> QED
    BY <1>3 DEF VerdictIsAnnounced, Last, Event

\* What a verdict is announced as.
LEMMA ClosingFamilies ==
  ASSUME NEW code, NEW c, Return(code, c)
  PROVE  /\ terminal'.candidate = c
         /\ code = Ok => ClosingFamily' = "success"
         /\ code \in FailureCode /\ (c # 0 \/ code # "POOL_EXHAUSTED")
              => ClosingFamily' = "failure"
  <1>1. terminal'.code = code /\ terminal'.candidate = c
    BY DEF Return
  <1> QED
    BY <1>1, Codes DEF ClosingFamily, Exhausted

\* The call's last event is the one for its verdict.
LEMMA AnnouncedStep ==
  ASSUME TypeOK, RouterInv, VerdictIsAnnounced, [Next]_vars
  PROVE  VerdictIsAnnounced'
  <1>0. index \in Nat /\ index # 0
    BY DEF TypeOK
  <1>1. ASSUME NEW code \in FailureCode, NEW c \in Nat, Return(code, c),
               c # 0 \/ code # "POOL_EXHAUSTED",
               NEW s \in Seq(EventType), s # <<>>, events' = events \o s,
               s[Len(s)] = Event("failure", c)
        PROVE  VerdictIsAnnounced'
    BY <1>1, Announced, ClosingFamilies DEF Event
  <1>2. \A f \in EventFamily, c \in Nat : Event(f, c) \in EventType
    BY DEF EventType, Event
  <1>3. CASE SchemaUnavailable
    <2>1. PICK code \in {"MISSING_SCHEMA_CONTRACT", "UNKNOWN_SCHEMA_CONTRACT"} :
            Return(code, 0)
      BY <1>3 DEF SchemaUnavailable
    <2> DEFINE s == <<Event("failure", 0)>>
    <2>2. s \in Seq(EventType) /\ s # <<>> /\ s[Len(s)] = Event("failure", 0)
      BY <1>2 DEF EventFamily
    <2>3. events' = events \o s
      BY <1>3 DEF SchemaUnavailable, TypeOK
    <2> QED
      BY <1>1, <2>1, <2>2, <2>3, Codes
  <1>4. CASE CancelledAtHead
    <2> DEFINE s == <<Event("cancellation", 0), Event("failure", 0)>>
    <2>1. s \in Seq(EventType) /\ s # <<>> /\ s[Len(s)] = Event("failure", 0)
      BY <1>2 DEF EventFamily
    <2>2. events' = events \o s /\ Return("CANCELLED", 0)
      BY <1>4 DEF CancelledAtHead
    <2> QED
      BY <1>1, <2>1, <2>2, Codes
  <1>5. CASE DeadlineElapsed
    <2> DEFINE s == <<Event("deadline_exceeded", index), Event("failure", index)>>
    <2>1. s \in Seq(EventType) /\ s # <<>> /\ s[Len(s)] = Event("failure", index)
      BY <1>2, <1>0 DEF EventFamily
    <2>2. events' = events \o s /\ Return("DEADLINE_EXCEEDED", index)
      BY <1>5 DEF DeadlineElapsed
    <2> QED
      BY <1>1, <1>0, <2>1, <2>2, Codes
  <1>6. CASE AdapterMissing
    <2> DEFINE s == <<Event("failure", index)>>
    <2>1. s \in Seq(EventType) /\ s # <<>> /\ s[Len(s)] = Event("failure", index)
      BY <1>2, <1>0 DEF EventFamily
    <2>2. events' = events \o s /\ Return("UNSUPPORTED_PROVIDER_FORMAT", index)
      BY <1>6 DEF AdapterMissing, TypeOK
    <2> QED
      BY <1>1, <1>0, <2>1, <2>2, Codes
  <1>7. CASE AttemptEnds
    <2>1. CASE \E out \in Output : AttemptCancelled(out)
      <3> DEFINE s == <<Event("pool_attempt", index), Event("cancellation", index),
                        Event("late_response_discarded", index),
                        Event("failure", index)>>
      <3>1. s \in Seq(EventType) /\ s # <<>> /\ s[Len(s)] = Event("failure", index)
        BY <1>2, <1>0 DEF EventFamily
      <3>2. events' = events \o s /\ Return("CANCELLED", index)
        BY <2>1 DEF AttemptCancelled
      <3> QED
        BY <1>1, <1>0, <3>1, <3>2, Codes
    <2>2. CASE \E out \in Output : AttemptAnswered(out)
      BY <2>2 DEF AttemptAnswered, VerdictIsAnnounced
    <2> QED
      BY <1>7, <2>1, <2>2 DEF AttemptEnds
  <1>8. CASE LateResponse
    <2> DEFINE s == <<Event("pool_attempt", index),
                      Event("late_response_discarded", index),
                      Event("failure", index)>>
    <2>1. s \in Seq(EventType) /\ s # <<>> /\ s[Len(s)] = Event("failure", index)
      BY <1>2, <1>0 DEF EventFamily
    <2>2. events' = events \o s /\ Return("LATE_RESPONSE_DISCARDED", index)
      BY <1>8 DEF LateResponse
    <2> QED
      BY <1>1, <1>0, <2>1, <2>2, Codes
  <1>9. CASE Success
    <2> DEFINE s == <<Event("pool_attempt", index), Event("success", index)>>
    <2>1. s \in Seq(EventType) /\ s # <<>> /\ s[Len(s)] = Event("success", index)
      BY <1>2, <1>0 DEF EventFamily
    <2>2. events' = events \o s /\ Return(Ok, index)
      BY <1>9 DEF Success
    <2>3. ClosingFamily' = "success" /\ terminal'.candidate = index
      BY <2>2, ClosingFamilies
    <2> HIDE DEF s
    <2>4. s[Len(s)] = Event(ClosingFamily, terminal.candidate)'
      BY <2>1, <2>3 DEF Event
    <2> QED
      BY <2>1, <2>2, <2>4, Announced
  <1>10. CASE FailFast
    <2> DEFINE s == <<Event("pool_attempt", index), Event("failure", index)>>
    <2>1. s \in Seq(EventType) /\ s # <<>> /\ s[Len(s)] = Event("failure", index)
      BY <1>2, <1>0 DEF EventFamily
    <2>2. events' = events \o s /\ Return(ResultCode, index) /\ ResultCode # Ok
      BY <1>10 DEF FailFast
    <2>3. ResultCode \in FailureCode \cup {Ok}
      <3>1. output \in AttemptOutput /\ plan.mode \in Mode
        BY <1>10, PlansAssumption DEF FailFast, InTime, TypeOK, WellFormedPlan
      <3> QED
        BY <3>1, TerminalCodeType DEF ResultCode
    <2> QED
      BY <1>1, <1>0, <2>1, <2>2, <2>3
  <1>11. CASE PoolExhausted
    <2> DEFINE s == <<Event("pool_exhausted", 0)>>
    <2>1. s \in Seq(EventType) /\ s # <<>> /\ s[Len(s)] = Event("pool_exhausted", 0)
      BY <1>2 DEF EventFamily
    <2>2. events' = events \o s
      BY <1>11 DEF PoolExhausted, TypeOK
    <2>3. terminal'.code = "POOL_EXHAUSTED" /\ terminal'.candidate = 0
      BY <1>11 DEF PoolExhausted
    <2>4. ClosingFamily' = "pool_exhausted"
      BY <2>3, Codes DEF ClosingFamily, Exhausted
    <2> HIDE DEF s
    <2>5. s[Len(s)] = Event(ClosingFamily, terminal.candidate)'
      BY <2>1, <2>3, <2>4 DEF Event
    <2> QED
      BY <2>1, <2>2, <2>5, Announced
  <1>12. CASE FailOver \/ GiveUp \/ SchemaReady \/ StartAttempt \/ CallAdapter \/ SkipCandidate
    BY <1>12 DEF FailOver, GiveUp, SchemaReady, StartAttempt, CallAdapter, SkipCandidate,
                 NextCandidate, VerdictIsAnnounced
  <1>13. CASE Cancel \/ UNCHANGED vars
    <2>1. UNCHANGED <<pc, events, terminal>>
      BY <1>13 DEF Cancel, vars, history
    <2> QED
      BY <2>1 DEF VerdictIsAnnounced, ClosingFamily, Exhausted, Last, Event
  <1> QED
    BY <1>3, <1>4, <1>5, <1>6, <1>7, <1>8, <1>9, <1>10, <1>11, <1>12, <1>13
       DEF Next, RouterStep, AnswerHandled

------------------------------------------------------------------------------
\* What the call leaves behind is right in every reachable state.
THEOREM HistoryInvariance == Spec => []HistoryInv
  <1>1. Init => HistoryInv
    BY CountInit, StoryInit DEF HistoryInv, VerdictIsAnnounced, Init
  <1>2. TypeOK /\ RouterInv /\ TypeOK' /\ RouterInv' /\ HistoryInv /\ [Next]_vars
          => HistoryInv'
    BY CountStep, StoryStep, AnnouncedStep DEF HistoryInv
  <1> QED
    BY <1>1, <1>2, Invariance, PTL DEF Spec

\* Exhaustion is reported only when nothing is left to do, with the right counts.
THEOREM ExhaustionHasItsReasons == Spec => []ExhaustionIsEarned
  BY HistoryInvariance, PTL DEF HistoryInv

\* Telemetry tells what the traces tell, and closes with the verdict returned.
THEOREM TelemetryIsFaithful == Spec => []TelemetryMirrorsTraces
  <1>1. HistoryInv => TelemetryMirrorsTraces
    BY DEF HistoryInv, TelemetryMirrorsTraces
  <1> QED
    BY <1>1, HistoryInvariance, PTL
==============================================================================
