\* Configurations replaced while invocations are planned, rolled out and routed.
SPECIFICATION FairSpec
CONSTANTS
  Uid <- MCUid
  Family <- MCFamily
  Role <- MCRole
  Operation <- MCOperation
  PolicyRef <- MCPolicyRef
  Catalog <- MCCatalog
  Activatable <- MCFamily
  Configs <- MCConfigs
  Loaded <- MCLoaded
  Requests <- MCRequests
  Controls <- MCControls
  ProviderCode <- MCCodes
  Elapsed <- MCTimes
  MaxForeign = 1
  FallbackDeadline = 3
INVARIANTS
  TypeOK
  RaisesOnlyWithAnotherRegistry
  ProviderLimitsHold
  DisabledIsLastResort
  SmokedRoleKeepsItsDeadline
  SmokesAgree
  TelemetryIsComplete
  FingerprintNamesThePlan
  HostInv
  RoutingInv
PROPERTIES
  InvocationEnds
