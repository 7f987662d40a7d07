SPECIFICATION FairSpec
CONSTANTS
  None = "none"
  Type <- MCType
  Async <- MCAsync
  Unawaited <- MCUnawaited
  Retryable <- MCRetryable
  Deleter <- MCDeleter
  DelOrder <- MCDelOrder
  Object <- NetObject
  TypeOf <- NetTypeOf
  ParentOf <- NetParentOf
  Marks <- NetMarks
  Blockers <- NetBlockers
  Cascade <- NetCascade
  Replaces <- NetReplaces
  ResMaps <- NetResMaps
  Configs <- AllConfigs
  NumMaxRetries = 1
  MaxFaults = 1
INVARIANTS
  TypeOK
  TouchesOnlyWhatItMay
  BlockersGoFirst
  UndisturbedRunSucceeds
PROPERTIES
  Terminates
