------------------------------ MODULE ServedRole ------------------------------
(***************************************************************************)
(* A role whose health was asked for, and an invocation of it, in the same *)
(* circumstances: the report goes by the adapters, the suppressed UIDs and *)
(* the missing secrets that the router then meets.  The two parts of the   *)
(* program share no code, and each has its own idea of what serves.        *)
(***************************************************************************)
EXTENDS RouterProperties, RoleHealth

CONSTANT
  Circumstances  \* what the host says of a pool's endpoints, and may be silent about

\* "misfiled" endpoints have an adapter registered for their format that speaks
\* another one: the report cannot tell.
ASSUME CircumstancesAssumption ==
  \A said \in Circumstances :
    /\ said.unregistered \subseteq Nat /\ said.missing \subseteq Nat
    /\ said.failing \subseteq Nat /\ said.uncertified \subseteq Nat
    /\ said.suppressed \subseteq Nat /\ said.misfiled \subseteq Nat

VARIABLE said

servedVars == <<vars, said>>

Health(c) == EndpointHealth(said, c)
Report    == RoleHealth(said, plan.size)

\* The router cannot get to the provider of such a candidate.
Blocked == said.unregistered \cup said.missing \cup said.misfiled

ServedInit ==
  /\ Init
  /\ said \in Circumstances
  /\ said.suppressed = plan.suppressed

------------------------------------------------------------------------------
PassedOver ==  \* slip: a candidate without an adapter is left for the next one
  /\ NextCandidate /\ ~SkipSuppressed /\ index \in said.unregistered
  /\ index' = index + 1
  /\ traces' = Append(traces, SkipTrace)
  /\ UNCHANGED <<plan, pc, loop, events, calls, terminal, cancelled>>

\* adapters.get(endpoint.provider_format) finds nothing.
NoAdapter == AdapterMissing /\ index \in said.unregistered

HasAdapter == StartAttempt /\ index \notin said.unregistered

\* The secret resolver has no such secret, or the adapter found is of another
\* format: looked at in this order.
RefusalCode ==
  IF index \in said.missing THEN "CREDENTIAL_UNAVAILABLE"
                            ELSE "UNSUPPORTED_PROVIDER_FORMAT"

AttemptRefused ==
  /\ pc = "credential"
  /\ index \in said.missing \cup said.misfiled
  /\ LET out == Typed(RefusalCode) IN AttemptCancelled(out) \/ AttemptAnswered(out)

CallWithoutSecret ==  \* slip: an unresolved secret keeps no adapter from being called
  CallAdapter /\ index \notin said.misfiled

ProviderCalled == CallAdapter /\ index \notin said.missing \cup said.misfiled

ProviderAnswers == pc = "adapter" /\ AttemptEnds

ServedStep ==
  /\ \/ SchemaReady
     \/ SchemaUnavailable
     \/ CancelledAtHead
     \/ SkipCandidate
     \/ DeadlineElapsed
     \/ NoAdapter
     \/ HasAdapter
     \/ AttemptRefused
     \/ ProviderCalled
     \/ ProviderAnswers
     \/ AnswerHandled
     \/ PoolExhausted
  /\ UNCHANGED said

CallerCancels == Cancel /\ UNCHANGED said

ServedNext == ServedStep \/ CallerCancels

ServedSpec == ServedInit /\ [][ServedNext]_servedVars

\* As for the router alone: the call goes on, its callbacks return.
FairServedSpec == ServedSpec /\ WF_servedVars(ServedStep)

------------------------------------------------------------------------------
\* No provider is ever called for an endpoint that the report calls
\* unavailable or without its secret; a suppressed one is called only as the
\* pool's last.
CallsFollowTheReport ==
  \A k \in DOMAIN calls :
    LET c == calls[k].candidate
    IN /\ Health(c) \notin {"unavailable", "missing_secret"}
       /\ Health(c) = "suppressed" => c = plan.size

\* A role reported available gets to a provider with every candidate that the
\* router takes up: what fails, fails there, or has an adapter filed under a
\* format it does not speak, which the report cannot see.
AvailableRoleReachesProviders ==
  Report = "available" =>
    \A k \in DOMAIN traces :
      traces[k].candidate \in said.misfiled
        \/ \E j \in DOMAIN calls : calls[j].candidate = traces[k].candidate

\* The report looks at each endpoint by itself, the router at the pool in
\* order: a candidate that it cannot get through to, unless skipped as
\* suppressed, is final, and an endpoint after it is never called, however
\* available the report says it is.
BlockedCandidateIsFinal ==
  \A k \in DOMAIN calls : \A c \in 1 .. calls[k].candidate :
    c \in Blocked => c \in plan.suppressed /\ c < plan.size

\* A role reported fallback-only because all but its last endpoint are
\* suppressed is served by that one: no other provider is called, and no
\* invocation with a schema and without a cancellation ends before it is.
FallbackOnlyIsServedByTheFallback ==
  Report = "fallback_only" /\ said.misfiled = {}
    /\ (\A c \in 1 .. plan.size - 1 : c \in plan.suppressed) =>
    /\ \A k \in DOMAIN calls : calls[k].candidate = plan.size
    /\ pc = "done" /\ ~cancelled /\ traces # <<>> => calls # <<>>

\* An available role whose adapters are filed correctly gets its provider call,
\* unless the caller cancels or the schema is not to be had.
AvailableRoleIsCalled ==
  Report = "available" /\ said.misfiled = {}
    ~> (calls # <<>> \/ cancelled \/ (pc = "done" /\ traces = <<>>))

------------------------------------------------------------------------------
(***************************************************************************)
(* The inductive invariant behind the safety properties above.             *)
(***************************************************************************)
\* The current candidate is not one to skip, and there is an adapter for it; once
\* that one has been called, there was a secret for it as well.
CurrentInv ==
  /\ pc \in {"credential", "adapter", "answered"} =>
       /\ index \notin said.unregistered
       /\ index \in plan.suppressed => index = plan.size
  /\ pc = "adapter" => index \notin said.missing \cup said.misfiled
  /\ pc = "answered" => index \in said.missing \cup said.misfiled \/ Called

\* Candidates left behind that could not be got through to were skipped.
BehindInv ==
  InLoop => \A c \in 1 .. index - 1 :
              c \in Blocked => c \in plan.suppressed /\ c < plan.size

\* A suppressed candidate is called only as the last.
LastResortInv ==
  \A k \in DOMAIN calls :
    /\ calls[k].candidate \in Candidate
    /\ calls[k].candidate \in plan.suppressed => calls[k].candidate = plan.size

Accounted(c) ==
  \/ c \in Blocked \cup plan.suppressed
  \/ \E j \in DOMAIN calls : calls[j].candidate = c

\* A candidate with a trace was called, or there was a reason not to.
AccountInv ==
  \A k \in DOMAIN traces :
    traces[k].candidate \in Candidate /\ Accounted(traces[k].candidate)

\* The conjunction of these is inductive with the router's invariant.
ServedInv ==
  /\ said \in Circumstances /\ said.suppressed = plan.suppressed
  /\ CurrentInv
  /\ BehindInv
  /\ LastResortInv
  /\ AccountInv
  /\ BlockedCandidateIsFinal

\* The pool's last endpoint is the only one to be tried, and nothing is in the way.
LastServes ==
  /\ plan.size \notin Blocked
  /\ \A c \in 1 .. plan.size - 1 : c \in plan.suppressed

\* Then no time is lost before it, and it is called unless the caller cancels.
FallbackInv ==
  LastServes =>
    /\ pc \in {"schema", "candidate", "credential"} => elapsed = 0
    /\ pc = "done" /\ ~cancelled /\ traces # <<>> => calls # <<>>

------------------------------------------------------------------------------
\* "Every candidate is suppressed or ineligible": the module returns
\* no_eligible_candidate or pool_exhausted.  The router calls the last one all the
\* same, and its answer may well be a success.
SuppressedPoolIsRefused ==
  plan.suppressed = Candidate => terminal.code # Ok
==============================================================================
