SPECIFICATION Spec
CONSTANTS
  None = "none"
  Type <- MCType
  Async <- MCAsync
  Unawaited <- MCUnawaited
  Retryable <- MCRetryable
  Deleter <- MCDeleter
  DelOrder <- MCDelOrder
  Object <- AsgObject
  TypeOf <- AsgTypeOf
  ParentOf <- AsgParentOf
  Marks <- AsgMarks
  Blockers <- AsgBlockers
  Cascade <- AsgCascade
  Replaces <- AsgReplaces
  ResMaps <- AsgResMaps
  Configs <- AllConfigs
  NumMaxRetries = 1
  MaxFaults = 1
INVARIANTS
  NothingForgotten
  StopsExactlyAtErrors
  LogIsTruthful
  DryRunTouchesNothing
PROPERTIES
  ImplementsSafeDelete
  DroppedForAReason
