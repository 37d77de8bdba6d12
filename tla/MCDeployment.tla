----------------------------- MODULE MCDeployment -----------------------------
(***************************************************************************)
(* An instance of the deployment for TLC: two endpoints of families with   *)
(* different limits, a third UID that no configuration has, and a family   *)
(* that is in no catalog.                                                  *)
(***************************************************************************)
EXTENDS Deployment

MCUid       == {"a", "b", "stale"}
MCFamily    == {"large", "small", "unknown"}
MCRole      == {"writer", "reader", "nobody"}
MCOperation == {"draft", "unlisted"}
MCPolicyRef == {"p", "q"}

MCCatalog ==
  [family \in {"large", "small"} |->
    IF family = "large"
    THEN [maxOutput |-> 2, maxDeadline |-> {}, reasoning |-> Reasoning,
          modes |-> Mode]
    ELSE [maxOutput |-> 1, maxDeadline |-> {4}, reasoning |-> {"disabled"},
          modes |-> {"none", "tool_call"}]]

\* The lifecycle may be given another catalog than invoke_plan.
MCActivatable == MCFamily

Endpoint(u, f) == [uid |-> u, family |-> f]

\* Budgets by UID: none; legal under every deadline or only under a long one;
\* for an endpoint of another role's pool.
MCBudgets == { <<>>, [u \in {"a"} |-> 3], [u \in {"a", "b"} |-> 2],
               [u \in {"stale"} |-> 1] }

OnePolicy ==
  [deadline |-> 3, maxOutput |-> 1, reasoning |-> "disabled", base |-> {2},
   overrides |-> <<>>, protect |-> TRUE, mode |-> "none",
   allowOverrides |-> TRUE, failover |-> TRUE, maxAttempts |-> 2]

MCPolicies ==
  [deadline : {3, 5}, maxOutput : {1}, reasoning : {"disabled", "low"},
   base : {{}, {2}}, overrides : MCBudgets, protect : {TRUE},
   mode : {"none", "tool_call"}, allowOverrides : BOOLEAN, failover : {TRUE},
   maxAttempts : {2}]

BrokenPolicies ==
  { [OnePolicy EXCEPT !.deadline = 0], [OnePolicy EXCEPT !.base = {0}],
    [OnePolicy EXCEPT !.overrides = [u \in {"b"} |-> 4]],
    [OnePolicy EXCEPT !.maxAttempts = 0] }

MCConfigOf(endpoints, writers, policy, ref) ==
  [sound |-> TRUE, endpoints |-> endpoints,
   roles |-> [r \in {"writer", "reader"} |-> IF r = "writer" THEN writers ELSE <<"b">>],
   policies |-> [p \in {"p"} |-> policy],
   operations |-> [o \in {"draft"} |-> [policy |-> ref, schema |-> FALSE]]]

TwoEndpoints == <<Endpoint("a", "large"), Endpoint("b", "small")>>

\* Sound configurations with every policy, and broken ones.
SoundConfigs ==
  { MCConfigOf(TwoEndpoints, <<"a", "b">>, policy, "p") : policy \in MCPolicies }

BrokenConfigs ==
  { MCConfigOf(TwoEndpoints, <<"a", "b">>, policy, "p") : policy \in BrokenPolicies }
  \cup
  { MCConfigOf(<<Endpoint("a", "large"), Endpoint("a", "small"), Endpoint("b", "small")>>,
               <<"a">>, OnePolicy, "p"),
    MCConfigOf(<<Endpoint("a", "large"), Endpoint("b", "unknown")>>, <<"a">>, OnePolicy, "p"),
    MCConfigOf(TwoEndpoints, <<"a", "stale">>, OnePolicy, "p"),
    MCConfigOf(TwoEndpoints, <<"a", "a">>, OnePolicy, "p"),
    MCConfigOf(TwoEndpoints, <<>>, OnePolicy, "p"),
    MCConfigOf(TwoEndpoints, <<"a">>, OnePolicy, "q"),
    [MCConfigOf(TwoEndpoints, <<"a">>, OnePolicy, "p") EXCEPT !.sound = FALSE] }

MCConfigs == SoundConfigs \cup BrokenConfigs

\* Two that are valid, one of a family only the lifecycle's catalog knows, and
\* the broken ones.
MCLoaded ==
  BrokenConfigs \cup
    { MCConfigOf(TwoEndpoints, <<"a", "b">>, [OnePolicy EXCEPT !.overrides = budgets], "p") :
        budgets \in {<<>>, [u \in {"a"} |-> 3]} }

SoundRequests ==
  [role : {"writer", "reader", "nobody"}, operation : {"draft", "unlisted"},
   deadline : {2, 3, 5}, wellFormed : {TRUE}, schema : BOOLEAN,
   overrides : [deadline : {{}, {3}}, maxOutput : {{}, {2}},
                reasoning : {{}}, base : {{}, {0}, {5}}]]

MCRequests ==
  LET request == [role |-> "writer", operation |-> "draft", deadline |-> 3,
                  wellFormed |-> TRUE, schema |-> TRUE, overrides |-> NoOverrides]
  IN SoundRequests \cup { [request EXCEPT !.wellFormed = FALSE],
                          [request EXCEPT !.deadline = 0] }

MCControls ==
  [disabled : SUBSET {"a", "b"}, forced : {{}, {"a"}, {"stale"}}, testMode : BOOLEAN]
==============================================================================
