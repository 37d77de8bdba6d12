\* A retryable failure of a structured operation ends the invocation.
SPECIFICATION Spec
CONSTANTS
  Plans <- StructuredPlans
  ProviderCode <- StructuredCodes
  Elapsed <- StructuredTimes
PROPERTIES
  RetryableFallsThrough
CHECK_DEADLOCK FALSE
