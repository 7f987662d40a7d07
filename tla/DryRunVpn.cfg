SPECIFICATION Spec
CONSTANTS
  None = "none"
  Type <- MCType
  Async <- MCAsync
  Unawaited <- MCUnawaited
  Retryable <- MCRetryable
  Deleter <- MCDeleter
  DelOrder <- MCDelOrder
  Object <- VpnObject
  TypeOf <- VpnTypeOf
  ParentOf <- VpnParentOf
  Marks <- VpnMarks
  Blockers <- VpnBlockers
  Cascade <- VpnCascade
  Replaces <- VpnReplaces
  ResMaps <- VpnResMaps
  Configs <- AllConfigs
  NumMaxRetries = 1
  MaxFaults = 1
INVARIANTS
  DryRunTouchesNothing
