\* A provider is called although the caller has cancelled.
SPECIFICATION Spec
CONSTANTS
  Plans <- PlainPlans
  ProviderCode <- PlainCodes
  Elapsed <- PlainTimes
INVARIANTS
  CancelledStartsNoCall
CHECK_DEADLOCK FALSE
