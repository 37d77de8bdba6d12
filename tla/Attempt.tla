------------------------------- MODULE Attempt -------------------------------
(***************************************************************************)
(* One provider attempt: what adapters.execute_provider_attempt can hand   *)
(* back to the router, and the public terminal result that normalization   *)
(* (plain text) or the structured-output pipeline makes of it.             *)
(*                                                                         *)
(* Messages, credentials, token usage and diagnostics are left out: no     *)
(* decision of the router reads them.  A definition marked "slip" is a     *)
(* plausible mistake in the definition after it, for a property to catch.  *)
(***************************************************************************)
EXTENDS Naturals, Results

CONSTANTS
  ProviderCode,  \* failure codes the host's adapters put into an outcome
  Elapsed        \* elapsed_ms values the host's adapters report

ASSUME ProviderCodeAssumption == ProviderCode \subseteq FailureCode

ASSUME ElapsedAssumption == Elapsed \subseteq Nat

\* A success payload, as far as the pipelines tell payloads apart: a string;
\* a mapping that satisfies the schema and its validator; such a mapping
\* delivered through another tool than the schema's; a mapping that the JSON
\* schema or the host validator rejects (or on which the validator raises).
Payload == {"text", "conforming", "wrong_tool", "nonconforming"}

NoPayload == "none"

\* ProviderOutcome: its constructor ties SUCCESS (here: no code) to a payload
\* and every other kind to a code; a failure may carry a payload as well.
ProviderOutcome ==
  { o \in [code : ProviderCode \cup {NoCode},
           payload : Payload \cup {NoPayload},
           elapsed : Elapsed] : o.code = NoCode => o.payload # NoPayload }

\* The two shapes of an attempt's output.  A TypedFailure reports no elapsed
\* time, which _elapsed_ms reads as 0.
Typed(code) ==
  [typed |-> TRUE, code |-> code, payload |-> NoPayload, elapsed |-> 0]

Reported(o) ==
  [typed |-> FALSE, code |-> o.code, payload |-> o.payload,
   elapsed |-> o.elapsed]

AttemptOutput ==
  { out \in [typed : BOOLEAN, code : FailureCode \cup {NoCode},
             payload : Payload \cup {NoPayload}, elapsed : Nat] :
      out.typed => out.code # NoCode }

\* What one adapter.invoke can come to: its outcome; an exception, turned into
\* a provider failure that took no time; or an outcome for another endpoint,
\* of which nothing but the mistake is kept.
InvokeOutput ==
  { Reported(o) : o \in ProviderOutcome }
    \cup {Reported([code |-> "PROVIDER_FAILURE", payload |-> NoPayload,
                    elapsed |-> 0])}
    \cup {Typed("PROVIDER_FAILURE")}

------------------------------------------------------------------------------
GenericFailure(out) ==  \* slip: the provider's own code dropped
  IF out.payload = "text" /\ out.code = NoCode THEN Ok ELSE "PROVIDER_FAILURE"

\* normalize_provider_outcome, with plain text allowed.
NormalizedPlainText(out) ==
  IF out.code # NoCode THEN out.code
  ELSE IF out.payload = "text" THEN Ok
  ELSE "INVALID_STRUCTURED_OUTPUT_PAYLOAD"

\* The payloads normalize_structured_provider_outcome turns into a
\* StructuredResult: only the tool-call mode looks at the tool's name.
AcceptedPayload(mode) ==
  IF mode = "tool_call" THEN {"conforming"} ELSE {"conforming", "wrong_tool"}

\* normalize_structured_provider_outcome: it looks at the payload only, never
\* at the outcome's kind or failure code.
NormalizedStructured(mode, out) ==
  IF out.payload \in AcceptedPayload(mode) THEN Ok
  ELSE "INVALID_STRUCTURED_OUTPUT_PAYLOAD"

\* _terminal_result: a typed failure passes, an outcome goes through the
\* pipeline of the operation's mode.
TerminalCode(mode, out) ==
  IF out.typed THEN out.code
  ELSE IF mode = "none" THEN NormalizedPlainText(out)
  ELSE NormalizedStructured(mode, out)
==============================================================================
