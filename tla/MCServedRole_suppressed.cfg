\* A pool that is suppressed as a whole is served by its last endpoint.
SPECIFICATION ServedSpec
CONSTANTS
  Plans <- MCPlans
  Circumstances <- MCCircumstances
  ProviderCode <- MCCodes
  Elapsed <- MCTimes
INVARIANTS
  SuppressedPoolIsRefused
CHECK_DEADLOCK FALSE
