SPECIFICATION PipeSpec
CONSTANTS
  None = None
  Event <- MCEvent
  ResourcesOf <- MCResourcesOf
  Identified <- MCIdentified
  NoResource = "no resource"
  TypeIn <- MCTypeIn
  Nameless = {"lost"}
  Filtered <- MCFiltered
  Setups <- MCSetups
  MaxLookupFaults = 1
  TagsOf <- MCTagsOf
  Resource <- MCResource
  ClassOf <- MCClassOf
  Key = {"k1"}
  Value = {"v1", "v2"}
  TagSets <- MCTagSets
  Configs <- AllConfigs
  ArnEject = 2
  NameEject = 2
  EjectLimit = 1
  MaxInputs = 8
  MaxAge = 1
  MaxFaults = 1
  Malformed = {}
INVARIANTS
  ParseTypeOK
  WindowIsPrinted
  WindowIsTagged
  TagsComeFromItsEvents
PROPERTIES
  BothEnd
