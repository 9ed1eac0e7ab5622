SPECIFICATION FairSpec
CONSTANTS
  PageSize = 2
  NPages = 3
  NFrames = 6
  HostFrames = {0, 1}
  InitPages <- ThreePages
  PatchSets <- PatchChoices
  Kinds = {"read", "write", "locked"}
  Starts = {3}
  Sizes = {2, 3}
  Tags = {1}
  InvalidHooks = {"unmapped", "prot"}
  Notify = TRUE
  Attempts = 2
  Calls = {"map", "unmap", "protect", "raise"}
  MaxCalls = 2
PROPERTIES
  AllOrNothing
  ReadsWhatIsThere
  ReportedOnce
  FaultTruthful
  AccessEnds
