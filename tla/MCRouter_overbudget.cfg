\* A candidate over its budget ends the invocation.
SPECIFICATION Spec
CONSTANTS
  Plans <- PlainPlans
  ProviderCode <- PlainCodes
  Elapsed <- PlainTimes
PROPERTIES
  OverBudgetFallsThrough
CHECK_DEADLOCK FALSE
