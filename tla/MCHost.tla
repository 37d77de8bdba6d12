-------------------------------- MODULE MCHost ---------------------------------
(***************************************************************************)
(* An instance of the host for TLC: two configurations that follow each    *)
(* other, the second without endpoint "b" and with another provider behind *)
(* "a", and a third that is never loaded and whose policy asks for more    *)
(* than its endpoints have.  The candidates of one operation share the     *)
(* deadline, those of the other may each use up all of it.  A third        *)
(* operation is structured and has a schema ref, which one smoke passes on *)
(* and the other does not; no invocation of it is planned.                 *)
(***************************************************************************)
EXTENDS Host

MCUid       == {"a", "b"}
MCFamily    == {"large", "small"}
MCRole      == {"writer"}
MCInvoked   == {"shared", "greedy"}
MCOperation == MCInvoked \cup {"formatted"}
MCPolicyRef == {"p", "q", "r"}

MCCatalog ==
  [family \in MCFamily |->
    IF family = "large"
    THEN [maxOutput |-> 2, maxDeadline |-> {}, reasoning |-> Reasoning,
          modes |-> Mode]
    ELSE [maxOutput |-> 1, maxDeadline |-> {4}, reasoning |-> {"disabled"},
          modes |-> {"none", "prompt_json"}]]

Policy(deadline, base, protect, overrides, mode) ==
  [deadline |-> deadline, maxOutput |-> 1, reasoning |-> "disabled", base |-> base,
   overrides |-> overrides, protect |-> protect, mode |-> mode,
   allowOverrides |-> TRUE, failover |-> TRUE, maxAttempts |-> 2]

Endpoint(u, f) == [uid |-> u, family |-> f]

MCConfigOf(endpoints, writers, deadline, overrides, operations) ==
  [sound |-> TRUE, endpoints |-> endpoints,
   roles |-> [r \in MCRole |-> writers],
   policies |-> [p \in MCPolicyRef |->
     CASE p = "p" -> Policy(deadline, {2}, TRUE, overrides, "none")
       [] p = "q" -> Policy(deadline, {}, FALSE, <<>>, "none")
       [] p = "r" -> Policy(deadline, {2}, TRUE, <<>>, "prompt_json")],
   operations |-> [o \in operations |->
     [policy |-> CASE o = "shared" -> "p" [] o = "greedy" -> "q" [] OTHER -> "r",
      schema |-> o = "formatted"]]]

BothEndpoints == MCConfigOf(<<Endpoint("a", "large"), Endpoint("b", "small")>>,
                            <<"a", "b">>, 4, <<>>, MCOperation)

OneEndpoint == MCConfigOf(<<Endpoint("a", "small")>>, <<"a">>, 4, [u \in {"a"} |-> 4],
                          {"shared", "formatted"})

TooLong == MCConfigOf(<<Endpoint("a", "large"), Endpoint("b", "small")>>,
                      <<"a", "b">>, 6, [u \in {"b"} |-> 5], MCOperation)

MCConfigs == {BothEndpoints, OneEndpoint, TooLong}
MCLoaded  == {BothEndpoints, OneEndpoint}

\* The policy's deadline, one that is shorter, and one beyond a hard limit.
MCRequests ==
  { [role |-> "writer", operation |-> "shared", deadline |-> 3, wellFormed |-> TRUE,
     schema |-> FALSE, overrides |-> NoOverrides] }
  \cup
  [role : MCRole, operation : MCInvoked, deadline : {4, 5},
   wellFormed : {TRUE}, schema : {FALSE}, overrides : {NoOverrides}]

\* One forced, either one disabled, and one both disabled and forced.
MCControls ==
  { [disabled |-> {}, forced |-> {"b"}, testMode |-> TRUE],
    [disabled |-> {"a"}, forced |-> {}, testMode |-> FALSE],
    [disabled |-> {"b"}, forced |-> {}, testMode |-> FALSE],
    [disabled |-> {"b"}, forced |-> {"b"}, testMode |-> TRUE] }

MCCodes == {"PROVIDER_5XX"}
MCTimes == {2, 4}
==============================================================================
