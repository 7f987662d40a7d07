SPECIFICATION GraphSpec
CONSTANTS
  None = "none"
  Type <- MCType
  Async <- MCAsync
  Unawaited <- MCUnawaited
  Retryable <- MCRetryable
  Deleter <- MCDeleter
  DelOrder <- MCDelOrder
  Object <- SharedObject
  TypeOf <- SharedTypeOf
  ParentOf <- SharedParentOf
  Marks <- SharedMarks
  Blockers <- SharedBlockers
  Cascade <- SharedCascade
  Replaces <- SharedReplaces
  Linked <- SharedLinked
  ResMaps <- SharedResMaps
  Configs <- RealConfigs
  NumMaxRetries = 1
  MaxFaults = 1
INVARIANTS
  NothingDeletedTwice
