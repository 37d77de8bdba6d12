\* An exhausted pool emits no failure event.
SPECIFICATION Spec
CONSTANTS
  Plans <- PlainPlans
  ProviderCode <- PlainCodes
  Elapsed <- PlainTimes
INVARIANTS
  FailureIsAnnounced
CHECK_DEADLOCK FALSE
