SPECIFICATION ReportSpec
CONSTANTS
  None = "none"
  Type <- MCType
  Async = {"NatGateway"}
  Unawaited = {}
  Retryable = {}
  Deleter <- MCDeleter
  DelOrder <- MCDelOrder
  Object <- MCObject
  TypeOf <- MCTypeOf
  ParentOf <- NoParent
  Marks <- NoObjects
  Blockers <- MCBlockers
  Cascade <- NoObjects
  Replaces <- NoParent
  ResMaps <- MCResMaps
  Configs <- MCConfigs
  NumMaxRetries = 1
  MaxFaults = 1
INVARIANTS
  ReportShowsFailures
