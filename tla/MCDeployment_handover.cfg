\* From a written configuration to the plan the router is handed.
SPECIFICATION Spec
CONSTANTS
  Uid <- MCUid
  Family <- MCFamily
  Role <- MCRole
  Operation <- MCOperation
  PolicyRef <- MCPolicyRef
  Catalog <- MCCatalog
  Activatable <- MCActivatable
  Configs <- MCConfigs
  Loaded <- MCLoaded
  Requests <- MCRequests
  Controls <- MCControls
INVARIANTS
  TypeOK
  ActiveIsRestorable
  HandoverIsWellFormed
  CandidatesWithinLimits
  PolicyIsBinding
  RolloutLeavesACandidate
  DeploymentInv
