SPECIFICATION GraphSpec
CONSTANTS
  None = "none"
  Type <- MCType
  Object <- AccountObject
  TypeOf <- AccountTypeOf
  ParentOf <- AccountParentOf
  Marks <- AccountMarks
  Blockers <- AccountBlockers
  Cascade <- AccountCascade
  Replaces <- AccountReplaces
  Linked <- AccountLinked
  Async <- MCAsync
  Unawaited <- MCUnawaited
  Retryable <- MCRetryable
  Deleter <- MCDeleter
  DelOrder <- MCDelOrder
  ResMaps <- AccountResMaps
  Configs <- RealConfigs
  NumMaxRetries = 1
  MaxFaults = 1
INVARIANTS
  Closed
  PulledInByItsOwner
  UndisturbedRunSucceeds
