\* The role-health report next to what the router does with the role.
SPECIFICATION FairServedSpec
CONSTANTS
  Plans <- MCPlans
  Circumstances <- MCCircumstances
  ProviderCode <- MCCodes
  Elapsed <- MCTimes
INVARIANTS
  CallsFollowTheReport
  AvailableRoleReachesProviders
  BlockedCandidateIsFinal
  FallbackOnlyIsServedByTheFallback
  ServedInv
PROPERTIES
  AvailableRoleIsCalled
CHECK_DEADLOCK FALSE
