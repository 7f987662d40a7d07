SPECIFICATION FairFilterSpec
CONSTANTS
  f1 = f1
  f2 = f2
  balancer = balancer
  instance = instance
  asg = asg
  asg2 = asg2
  zone1 = zone1
  zone2 = zone2
  Nothing = Nothing
  Resource = {balancer, instance, asg, asg2, zone1, zone2}
  Type <- MCType
  TypeOf <- MCTypeOf
  ServiceOf <- MCServiceOf
  Filter = {f1, f2}
  Carries <- MCCarries
  Streams <- AllStreams
  ParseOutputs <- MCParseOutputs
  FilterFiles = {FALSE}
  ResourceTypes <- SomeTypes
  Configs = {TRUE, FALSE}
  PageSize = 1
  ChunkSize = 1
  EmptyPages = FALSE
  MaxFaults = 1
INVARIANTS
  FilterTypeOK
  FoundWasAskedFor
  NothingMissed
  NothingIgnoredIsForwarded
  RestIsForwarded
PROPERTIES
  FilterEnds
