SPECIFICATION FairSpec
CONSTANTS
  nat1 = nat1
  nat2 = nat2
  nat3 = nat3
  Gateway = {nat1, nat2, nat3}
  Listings <- MCListings
  ChunkSize = 2
  ValuesLimit = 2
  PageSize = 1
  MaxSleeps = 3
  Configs = {TRUE, FALSE}
INVARIANTS
  TypeOK
  EachReportedOnce
PROPERTIES
  ImplementsAwaitNatGateways
  Ends
