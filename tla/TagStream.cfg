SPECIFICATION FairSpec
CONSTANTS
  None = None
  arn1 = arn1
  arn2 = arn2
  arn3 = arn3
  asg1 = asg1
  asg2 = asg2
  zone = zone
  eni = eni
  k1 = k1
  v1 = v1
  v2 = v2
  Resource = {arn1, arn2, asg1, asg2, zone, eni}
  ClassOf <- MCClassOf
  Key = {k1}
  Value = {v1, v2}
  TagSets <- WithNoTags
  Configs <- AllConfigs
  ArnEject = 2
  NameEject = 2
  EjectLimit = 1
  MaxInputs = 4
  MaxAge = 1
  MaxFaults = 1
  Malformed = {"mistyped", "broken"}
INVARIANTS
  TypeOK
  BucketsBounded
  NothingDropped
  DoneMeansTagged
PROPERTIES
  Terminates
