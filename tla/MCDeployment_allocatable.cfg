\* Protected plans whose fallback has no time reserved for it.
SPECIFICATION Spec
CONSTANTS
  Uid <- MCUid
  Family <- MCFamily
  Role <- MCRole
  Operation <- MCOperation
  PolicyRef <- MCPolicyRef
  Catalog <- MCCatalog
  Activatable <- MCActivatable
  Configs <- MCConfigs
  Loaded <- MCLoaded
  Requests <- MCRequests
  Controls <- MCControls
INVARIANTS
  FallbackReserveFits
