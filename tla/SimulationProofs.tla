--------------------------- MODULE SimulationProofs ---------------------------
(***************************************************************************)
(* What the offline smoke's budget simulation accepts comes true in every  *)
(* invocation of the plan.  The invariant: at the loop's current candidate *)
(* the router has at least the time that the simulation had there.  It is  *)
(* kept because having had more before a candidate means having more after *)
(* it (StaysAhead in module BudgetProofs).                                 *)
(***************************************************************************)
EXTENDS RouterProofs

------------------------------------------------------------------------------
\* The router is ahead of a walk of the simulation.
Ahead(left) ==
  /\ InLoop => Left >= left[index]
  /\ Quiet(events)

\* It is ahead of all of them: inductive with the router's own invariant.
SimulationInv == \A left \in AcceptedWalks(plan) : Ahead(left)

\* Before the loop nothing is spent.
LEMMA AheadInit == Init => SimulationInv
  BY DEF Init, SimulationInv, Ahead, InLoop, Quiet

\* Only the deadline check emits the deadline's event.
LEMMA QuietStep ==
  ASSUME TypeOK, [Next]_vars, ~DeadlineElapsed, Quiet(events)
  PROVE  Quiet(events')
  <1>1. events \in Seq(EventType) /\ index \in Nat
    BY DEF TypeOK, EventType
  <1>2. \A f \in EventFamily, c \in Nat :
          /\ Event(f, c) \in EventType
          /\ Event(f, c).family = f
    BY DEF Event, EventType
  <1>3. CASE \/ SchemaUnavailable \/ SkipCandidate \/ AdapterMissing
             \/ PoolExhausted
    <2>1. PICK f \in EventFamily \ {"deadline_exceeded"}, c \in Nat :
            events' = Append(events, Event(f, c))
      BY <1>1, <1>3 DEF SchemaUnavailable, SkipCandidate, AdapterMissing,
                        PoolExhausted, EventFamily
    <2> QED
      BY <1>1, <1>2, <2>1, QuietAppend
  <1>4. CASE CancelledAtHead
    <2> DEFINE t == <<Event("cancellation", 0), Event("failure", 0)>>
    <2>1. /\ Event("cancellation", 0) \in EventType
          /\ Event("cancellation", 0).family = "cancellation"
          /\ Event("failure", 0) \in EventType
          /\ Event("failure", 0).family = "failure"
      BY <1>2 DEF EventFamily
    <2>2. t \in Seq(EventType) /\ Quiet(t)
      BY <2>1 DEF Quiet
    <2>3. events' = events \o t
      BY <1>4 DEF CancelledAtHead
    <2> QED
      BY <1>1, <2>2, <2>3, QuietConcat
  <1>5. CASE AttemptEnds \/ AnswerHandled
    BY <1>5, AttemptEndsQuietly
  <1>6. CASE \/ SchemaReady \/ StartAttempt \/ CallAdapter \/ Cancel
             \/ UNCHANGED vars
    <2>1. UNCHANGED events
      BY <1>6 DEF SchemaReady, StartAttempt, CallAdapter, Cancel, vars, history
    <2> QED
      BY <2>1 DEF Quiet
  <1> QED
    BY <1>3, <1>4, <1>5, <1>6 DEF Next, RouterStep

\* A failover leaves at least what the walk has left: the answer came within a
\* budget that the time it was taken from made up for.
LEMMA FailOverAhead ==
  ASSUME TypeOK, TypeOK', RouterInv, RouterInv', FailOver,
         NEW left \in AcceptedWalks(plan), Ahead(left)
  PROVE  Left' >= left[index']
  <1>1. WellFormedPlan(plan)
    BY PlansAssumption DEF TypeOK
  <1>2. /\ pc = "answered" /\ pc' = "candidate" /\ index' = index + 1
        /\ UNCHANGED <<plan, elapsed>> /\ output.elapsed <= budget
    BY DEF FailOver, InTime, Late, TypeOK, AttemptOutput
  <1>3. /\ index \in 1 .. plan.size - 1 /\ plan.size \in Nat
    BY <1>1, <1>2 DEF FailOver, HasFailoverCandidate, RouterInv, ControlInv,
                      InLoop, Candidate, WellFormedPlan
  <1>4. /\ plan.deadline \in Nat /\ elapsed \in Nat /\ output.elapsed \in Nat
    BY <1>1, <1>2 DEF TypeOK, AttemptOutput, WellFormedPlan
  <1>5. /\ Left = plan.deadline - elapsed + output.elapsed
        /\ Left' = plan.deadline - elapsed
        /\ Left \in Int
    BY <1>2, <1>4 DEF Left, Remaining
  <1>6. Left \in Nat \ {0} /\ budget = CandidateBudget(plan, index, Left)
    BY <1>2, <1>5 DEF RouterInv, TimeInv
  <1>7. Left >= left[index]
    BY <1>2 DEF Ahead, InLoop
  <1>8. Left - output.elapsed >= left[index + 1]
    BY <1>1, <1>2, <1>3, <1>4, <1>6, <1>7, SameArithmetic, StaysAhead
  <1> QED
    BY <1>2, <1>4, <1>5, <1>8

\* Every step keeps the router ahead of every walk.
LEMMA AheadStep ==
  ASSUME TypeOK, TypeOK', RouterInv, RouterInv', SimulationInv, [Next]_vars
  PROVE  SimulationInv'
  <1>1. UNCHANGED plan
    BY DEF Next, RouterStep, SchemaReady, SchemaUnavailable, CancelledAtHead,
           SkipCandidate, DeadlineElapsed, AdapterMissing, StartAttempt,
           CallAdapter, AttemptEnds, AttemptCancelled, AttemptAnswered, Settle,
           AnswerHandled, LateResponse, Success, FailOver, GiveUp, FailFast,
           InTime, PoolExhausted, Cancel, vars
  <1> SUFFICES ASSUME NEW left \in AcceptedWalks(plan), Ahead(left)
               PROVE  Ahead(left)'
    BY <1>1 DEF SimulationInv
  <1>2. WellFormedPlan(plan)
    BY PlansAssumption DEF TypeOK
  <1>3. /\ plan.size \in Nat \ {0} /\ plan.deadline \in Nat \ {0}
        /\ elapsed \in Nat /\ Remaining \in Int
    BY <1>2 DEF TypeOK, WellFormedPlan, Remaining
  <1>4. \A c \in 1 .. plan.size : left[c] \in Nat \ {0}
    BY <1>2, WalkStep
  <1>5. ~DeadlineElapsed
    <2> SUFFICES ASSUME DeadlineElapsed
                 PROVE  FALSE
      OBVIOUS
    <2>1. pc = "candidate" /\ index \in 1 .. plan.size /\ Remaining <= 0
      BY DEF DeadlineElapsed, NextCandidate, Candidate
    <2>2. Left = Remaining /\ Left >= left[index]
      BY <2>1 DEF Ahead, InLoop, Left
    <2> QED
      BY <1>3, <1>4, <2>1, <2>2
  <1>6. Quiet(events')
    BY <1>5, QuietStep DEF Ahead
  <1>7. InLoop' => Left' >= left[index']
    <2>1. CASE SchemaReady
      <3>1. index' = 1 /\ elapsed' = 0 /\ pc' = "candidate"
        BY <2>1 DEF SchemaReady, loop, RouterInv, ControlInv
      <3> QED
        BY <1>1, <1>2, <1>3, <3>1, WalkStep DEF Left, Remaining
    <2>2. CASE \/ SchemaUnavailable \/ CancelledAtHead \/ DeadlineElapsed
               \/ AdapterMissing \/ PoolExhausted \/ LateResponse \/ Success
               \/ FailFast \/ \E out \in Output : AttemptCancelled(out)
      BY <2>2 DEF SchemaUnavailable, CancelledAtHead, DeadlineElapsed,
                  AdapterMissing, PoolExhausted, LateResponse, Success,
                  FailFast, AttemptCancelled, Return, InLoop
    <2>3. CASE SkipCandidate
      <3>1. /\ pc = "candidate" /\ pc' = "candidate" /\ index' = index + 1
            /\ index \in 1 .. plan.size - 1 /\ UNCHANGED elapsed
        BY <1>3, <2>3 DEF SkipCandidate, NextCandidate, SkipSuppressed,
                          Candidate, loop
      <3>2. Left = Remaining /\ Left' = Remaining /\ Left >= left[index]
        BY <1>1, <3>1 DEF Ahead, InLoop, Left, Remaining
      <3>3. left[index + 1] < left[index]
        BY <1>2, <3>1, WalkStep
      <3>4. left[index] \in Nat /\ left[index + 1] \in Nat
        BY <1>3, <1>4, <3>1
      <3> QED
        BY <1>3, <3>1, <3>2, <3>3, <3>4
    <2>4. CASE StartAttempt \/ CallAdapter
      <3>1. /\ pc \in {"candidate", "credential"}
            /\ pc' \in {"credential", "adapter"} /\ UNCHANGED <<index, elapsed>>
        BY <2>4 DEF StartAttempt, CallAdapter, NextCandidate, loop
      <3> QED
        BY <1>1, <3>1 DEF Ahead, InLoop, Left, Remaining
    <2>5. CASE \E out \in Output : AttemptAnswered(out)
      <3>1. PICK out \in Output : AttemptAnswered(out)
        BY <2>5
      <3>2. /\ pc \in {"credential", "adapter"} /\ pc' = "answered"
            /\ UNCHANGED index
            /\ output' = out /\ elapsed' = elapsed + out.elapsed
        BY <3>1 DEF AttemptAnswered, Settle, Output
      <3>3. out.elapsed \in Nat
        BY <3>1, OutputType DEF AttemptOutput
      <3>4. Left = Remaining /\ Left' = Remaining
        BY <1>1, <1>3, <3>2, <3>3 DEF Left, Remaining
      <3> QED
        BY <3>2, <3>4 DEF Ahead, InLoop
    <2>6. CASE FailOver
      BY <2>6, FailOverAhead
    <2>7. CASE GiveUp
      BY <2>7 DEF GiveUp, InLoop
    <2>8. CASE Cancel \/ UNCHANGED vars
      BY <2>8 DEF Cancel, vars, loop, history, Ahead, InLoop, Left, Remaining
    <2> QED
      BY <2>1, <2>2, <2>3, <2>4, <2>5, <2>6, <2>7, <2>8
         DEF Next, RouterStep, AttemptEnds, AnswerHandled
  <1> QED
    BY <1>6, <1>7 DEF Ahead

------------------------------------------------------------------------------
\* A plan that passed the offline smoke's simulation is never short of time: at
\* every candidate the router has the simulated time and budget at least, and
\* the deadline check never ends the invocation.
THEOREM SimulationIsTrue == Spec => []SimulationComesTrue
  <1>1. TypeOK /\ RouterInv /\ SimulationInv => SimulationComesTrue
    <2> SUFFICES ASSUME TypeOK, RouterInv, NEW left \in AcceptedWalks(plan),
                        Ahead(left)
                 PROVE  /\ pc = "candidate" => Remaining >= left[index]
                        /\ InAttempt =>
                             budget >= SimulatedBudget(plan, index, left[index])
                        /\ \A k \in DOMAIN events :
                             events[k].family # "deadline_exceeded"
      BY DEF SimulationInv, SimulationComesTrue
    <2>1. pc = "candidate" => Remaining >= left[index]
      BY DEF Ahead, InLoop, Left
    <2>2. ASSUME InAttempt
          PROVE  budget >= SimulatedBudget(plan, index, left[index])
      <3>1. WellFormedPlan(plan)
        BY PlansAssumption DEF TypeOK
      <3>2. /\ index \in 1 .. plan.size
            /\ Left = plan.deadline - elapsed
            /\ Left > 0 /\ budget = CandidateBudget(plan, index, Left)
            /\ Left >= left[index]
        BY <2>2 DEF InAttempt, RouterInv, ControlInv, TimeInv, InLoop,
                    Candidate, Ahead, Left, Remaining
      <3>3. Left \in Nat \ {0} /\ left[index] \in Nat \ {0}
        <4>1. plan.deadline \in Nat /\ elapsed \in Nat
          BY <3>1 DEF TypeOK, WellFormedPlan
        <4>2. left[index] \in Nat \ {0}
          BY <3>1, <3>2, WalkStep
        <4> QED
          BY <3>2, <4>1, <4>2
      <3>4. /\ SimulatedBudget(plan, index, left[index])
                 <= SimulatedBudget(plan, index, Left)
            /\ SimulatedBudget(plan, index, left[index]) \in Nat
            /\ SimulatedBudget(plan, index, Left) \in Nat
        BY <3>1, <3>2, <3>3, BudgetIsMonotone, SimulatedBudgetBounds
      <3> QED
        BY <3>2, <3>4, SameArithmetic
    <2> QED
      BY <2>1, <2>2 DEF Ahead, Quiet
  <1>2. Init => SimulationInv
    BY AheadInit
  <1>3. /\ TypeOK /\ RouterInv /\ (TypeOK /\ RouterInv)'
        /\ SimulationInv /\ [Next]_vars
        => SimulationInv'
    BY AheadStep
  <1> QED
    BY <1>1, <1>2, <1>3, Invariance, PTL DEF Spec
==============================================================================
