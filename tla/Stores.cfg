SPECIFICATION FairSpec
CONSTANTS
  bucket1 = bucket1
  bucket2 = bucket2
  inner = inner
  outer = outer
  other = other
  innerX = innerX
  outerX = outerX
  otherX = otherX
  otherY = otherY
  outerNS = outerNS
  NoBucket = NoBucket
  NoZone = NoZone
  Bucket = {bucket1, bucket2}
  Key = {1, 2, 3}
  PageSize = 2
  MaxKeys = 2
  Zone = {inner, outer, other}
  Given = {inner, outer}
  Private = {inner}
  Record = {innerX, outerX, otherX, otherY, outerNS}
  ZoneOf <- MCZoneOf
  NameOf <- MCNameOf
  Delegations = {outerNS}
  Contents <- MCContents
  Records <- MCRecords
  Configs <- AllConfigs
  MaxFaults = 1
INVARIANTS
  TypeOK
  LeftBehindIsReported
  OnlyRecordsOfGivenNames
  NoNameLeftBehind
  UndisturbedRunSucceeds
PROPERTIES
  Ends
