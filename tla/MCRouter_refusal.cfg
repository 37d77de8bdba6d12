\* A refusal of a structured operation is not reported as one.
SPECIFICATION Spec
CONSTANTS
  Plans <- StructuredPlans
  ProviderCode <- StructuredCodes
  Elapsed <- StructuredTimes
INVARIANTS
  RefusalIsReported
CHECK_DEADLOCK FALSE
