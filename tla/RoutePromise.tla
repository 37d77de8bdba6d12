----------------------------- MODULE RoutePromise -----------------------------
(***************************************************************************)
(* What route_invocation promises its caller, with time, budgets, traces,  *)
(* telemetry and the reasons for a failure left out: endpoints are called  *)
(* one at a time and in pool order, never more than the policy's number of *)
(* attempts; a verdict is given once and ends the invocation; success      *)
(* comes from the last call's answer, taken before any cancellation; of    *)
(* the calls made, at most the last one started after the caller had       *)
(* cancelled, and its answer is never taken.  This is the code's promise:  *)
(* the requirements would have no call start then (PRD line 466).          *)
(***************************************************************************)
EXTENDS Naturals, Sequences

VARIABLES
  size,     \* number of endpoints in the pool
  limit,    \* attempts the policy allows
  tried,    \* the calls made: endpoint, and whether the caller had cancelled
  last,     \* the last of them: "out", "answered", or "none" if done with
  stopped,  \* whether the caller has cancelled
  verdict   \* "none" until the invocation returns

pvars == <<size, limit, tried, last, stopped, verdict>>

Open == verdict = "none"

Verdicts == {"success", "failure", "exhausted"}

Init ==
  /\ size \in Nat \ {0}
  /\ limit \in Nat \ {0}
  /\ tried = <<>>
  /\ last = "none"
  /\ stopped = FALSE
  /\ verdict = "none"

Call(c) ==
  /\ Open
  /\ last = "none"
  /\ Len(tried) < limit
  /\ \A k \in DOMAIN tried : tried[k].candidate < c /\ ~tried[k].cancelled
  /\ tried' = Append(tried, [candidate |-> c, cancelled |-> stopped])
  /\ last' = "out"
  /\ UNCHANGED <<size, limit, stopped, verdict>>

Answer ==
  /\ Open
  /\ last = "out"
  /\ ~stopped
  /\ last' = "answered"
  /\ UNCHANGED <<size, limit, tried, stopped, verdict>>

PassOver ==
  /\ Open
  /\ last = "answered"
  /\ last' = "none"
  /\ UNCHANGED <<size, limit, tried, stopped, verdict>>

Return(v) ==
  /\ Open
  /\ v = "success" => last = "answered"
  /\ v = "exhausted" => last = "none" /\ tried # <<>>
  /\ verdict' = v
  /\ last' = "none"
  /\ UNCHANGED <<size, limit, tried, stopped>>

Stop ==
  /\ stopped' = TRUE
  /\ UNCHANGED <<size, limit, tried, last, verdict>>

Next ==
  \/ \E c \in 1 .. size : Call(c)
  \/ Answer
  \/ PassOver
  \/ \E v \in Verdicts : Return(v)
  \/ Stop

Spec == Init /\ [][Next]_pvars

------------------------------------------------------------------------------
\* What the promise comes to.  No more calls are made than the policy allows, in the
\* order of the pool and each endpoint at most once; only the last of them can
\* have started after the caller had cancelled, and its answer is no success.
CallsAreOrdered ==
  /\ Len(tried) <= limit
  /\ \A k \in DOMAIN tried : tried[k].candidate \in 1 .. size
  /\ \A j, k \in DOMAIN tried :
       j < k => tried[j].candidate < tried[k].candidate /\ ~tried[j].cancelled
  /\ verdict = "success" => tried # <<>> /\ ~tried[Len(tried)].cancelled

\* Inductive: the call that is out has not been answered, and one that was answered
\* started before the cancellation.
PromiseInv ==
  /\ size \in Nat /\ limit \in Nat /\ stopped \in BOOLEAN
  /\ tried \in Seq([candidate : 1 .. size, cancelled : BOOLEAN])
  /\ last # "none" => tried # <<>>
  /\ last = "answered" => ~tried[Len(tried)].cancelled
  /\ \A k \in DOMAIN tried : tried[k].cancelled => stopped
  /\ CallsAreOrdered
==============================================================================
