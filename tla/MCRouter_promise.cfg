\* The router implements RoutePromise and always returns.
SPECIFICATION FairSpec
CONSTANTS
  Plans <- PromisePlans
  ProviderCode <- PlainCodes
  Elapsed <- PromiseTimes
PROPERTIES
  KeepsPromise
  Termination
  CancellationIsFinal
CHECK_DEADLOCK FALSE
