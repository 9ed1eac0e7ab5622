SPECIFICATION Spec
CONSTANTS
  B = 2
  CountBits = 5
  MaxChanges = 1
  Descriptors <- MCDescriptors
  Programs <- SegmentPrograms
PROPERTY
  ReplayMatchesFresh
CHECK_DEADLOCK FALSE
