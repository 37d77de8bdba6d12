\* Plain-text invocations: ordered failover, budgets, cancellation, telemetry.
SPECIFICATION Spec
CONSTANTS
  Plans <- PlainPlans
  ProviderCode <- PlainCodes
  Elapsed <- PlainTimes
INVARIANTS
  TypeOK
  OrderedFailover
  BudgetFitsDeadline
  SuccessInTime
  AtMostOneCallAfterCancel
  ExhaustionIsEarned
  ProtectedPoolNeverStarves
  SimulationComesTrue
  TelemetryMirrorsTraces
  RouterInv
  HistoryInv
PROPERTIES
  NoSuccessAfterCancel
  RetryableFallsThrough
CHECK_DEADLOCK FALSE
