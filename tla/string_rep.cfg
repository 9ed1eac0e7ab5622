SPECIFICATION FairSpec
CONSTANTS
  Span <- Spans
  PageSize = 4
  CanonLow = 12
  SegBase <- Bases
  Programs <- StringPrograms
  InitMems <- Mems
  InitPerms <- Pages
  Protects <- PageChanges
  RegValues = {9}
  MaxCalls = 2
INVARIANTS
  
  EndsWhenDue
PROPERTIES
  RunEnds
