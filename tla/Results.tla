------------------------------- MODULE Results -------------------------------
(***************************************************************************)
(* The public failure taxonomy (results.py).  A code is named by its enum  *)
(* member; its wire string, message and diagnostics carry no control.      *)
(***************************************************************************)

\* Codes a host may try again on another endpoint: the RETRYABLE rows of
\* RETRYABILITY_BY_CODE.
RetryableCode ==
  {"ENDPOINT_SUPPRESSED", "INVOCATION_RATE_LIMITED",
   "INVOCATION_QUOTA_EXHAUSTED", "TRANSIENT_NETWORK", "PROVIDER_5XX",
   "LOCAL_CANDIDATE_TIMEOUT"}

\* The other rows of the table.
NonRetryableCode ==
  {"INVALID_ENDPOINT_CONFIG", "CREDENTIAL_UNAVAILABLE", "UNKNOWN_ROLE",
   "UNKNOWN_ENTRYPOINT", "UNSUPPORTED_PROVIDER_FORMAT",
   "UNSUPPORTED_RUNTIME_KNOB", "CAPABILITY_MISMATCH",
   "UNSUPPORTED_REASONING_MODE", "OUTPUT_BUDGET_EXCEEDS_HARD_CAP",
   "CANDIDATE_BUDGET_UNALLOCATABLE", "OPERATION_REF_REQUIRED",
   "INVALID_MESSAGES", "CANCELLED", "MISSING_SCHEMA_CONTRACT",
   "UNKNOWN_SCHEMA_CONTRACT", "INVALID_STRUCTURED_OUTPUT_PAYLOAD",
   "STRUCTURED_OUTPUT_REFUSAL", "PROVIDER_FAILURE",
   "LATE_RESPONSE_DISCARDED", "DEADLINE_EXCEEDED", "NO_ELIGIBLE_CANDIDATE",
   "POOL_EXHAUSTED", "SMOKE_SKIPPED", "SMOKE_FAILED", "BUDGET_VIOLATION",
   "MODULE_UNSUPPORTED_VERSION"}

FailureCode == RetryableCode \cup NonRetryableCode

\* The code slot of a terminal result that is a PlainTextResult or a
\* StructuredResult, and the slot of something that has no code at all.
Ok     == "ok"
NoCode == "none"
==============================================================================
