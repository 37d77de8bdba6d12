----------------------------- MODULE MCServedRole -----------------------------
(***************************************************************************)
(* Instances of a served role for TLC: pools of one and of three.          *)
(***************************************************************************)
EXTENDS ServedRole

MCSuppressed(size) == {{}, {1}, 1 .. size - 1, 1 .. size, {size}}

MCPlans ==
  UNION { { [size |-> size, deadline |-> 4, base |-> 2,
             overrides |-> IF size = 3 THEN [c \in {3} |-> 4] ELSE <<>>,
             protect |-> TRUE, maxAttempts |-> 3, failover |-> TRUE,
             mode |-> mode, suppressed |-> suppressed] :
              suppressed \in MCSuppressed(size), mode \in {"none", "tool_call"} } :
          size \in {1, 3} }

MCCircumstances ==
  [unregistered : {{}, {1}, {2}, {1, 2}}, missing : {{}, {1}, {3}, 1 .. 3},
   failing : {{}, {1}}, uncertified : {{}, {3}}, misfiled : {{}, {2}},
   suppressed : UNION { MCSuppressed(size) : size \in {1, 3} }]

MCCodes == {"PROVIDER_5XX"}
MCTimes == {1, 3}
==============================================================================
