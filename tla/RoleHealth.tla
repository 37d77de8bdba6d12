------------------------------ MODULE RoleHealth ------------------------------
(***************************************************************************)
(* The role-health report (role_health.py): what an operator is told of a  *)
(* role before anything is called.  It is computed from what the host says *)
(* of the role's endpoints; the lists of reasons and the event that goes   *)
(* with the report decide nothing and are left out.                        *)
(*                                                                         *)
(* Endpoints are named by their position in the role's pool, from 1.  What *)
(* the host says of them is a record of sets of positions:                 *)
(*   unregistered  no adapter for the endpoint's provider format           *)
(*   missing       its credential ref is among missing_secret_refs         *)
(*   failing, uncertified, suppressed   as the argument of that name       *)
(*                                                                         *)
(* A definition marked "slip" is a plausible mistake in the definition     *)
(* after it, for a property to catch.                                      *)
(***************************************************************************)
EXTENDS Integers

\* _more_severe.
Severity ==
  [available |-> 0, suppressed |-> 1, uncertified |-> 2, failing_smoke |-> 3,
   missing_secret |-> 4, unavailable |-> 5]

EndpointState == DOMAIN Severity

RoleState == EndpointState \cup {"degraded", "fallback_only"}

If(condition, state) == IF condition THEN {state} ELSE {}

SecretsUnread(said, c) ==  \* slip: the missing secrets not looked up
  {"available"} \cup If(c \in said.unregistered, "unavailable")
                \cup If(c \in said.suppressed, "suppressed")

\* What holds of one endpoint, besides its being there.
Findings(said, c) ==
  {"available"} \cup If(c \in said.unregistered, "unavailable")
                \cup If(c \in said.missing, "missing_secret")
                \cup If(c \in said.failing, "failing_smoke")
                \cup If(c \in said.uncertified, "uncertified")
                \cup If(c \in said.suppressed, "suppressed")

\* _endpoint_health: the most severe finding.
EndpointHealth(said, c) ==
  CHOOSE state \in Findings(said, c) :
    \A other \in Findings(said, c) : Severity[other] <= Severity[state]

AvailableIn(said, size) == { c \in 1 .. size : EndpointHealth(said, c) = "available" }

\* The states a role has when all of its endpoints have them.
Uniform == {"missing_secret", "failing_smoke", "uncertified", "suppressed"}

\* _role_state, and "unavailable" for a role that is not in the registry: no
\* endpoints either way.
RoleHealth(said, size) ==
  LET up == AvailableIn(said, size)
      uniform(state) == size > 0 /\ \A c \in 1 .. size : EndpointHealth(said, c) = state
  IN  CASE up = 1 .. size /\ size > 0              -> "available"
        [] up = {size} /\ size > 1                 -> "fallback_only"
        [] up \notin {{}, {size}, 1 .. size}       -> "degraded"
        [] up = {} /\ (\E s \in Uniform : uniform(s)) -> CHOOSE s \in Uniform : uniform(s)
        [] OTHER                                   -> "unavailable"
==============================================================================
