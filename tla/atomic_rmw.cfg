SPECIFICATION FairSpec
CONSTANTS
  Threads = {"e1", "e2"}
  Modulus = 4
  RmwOps = {"inc", "xchg"}
  Callback <- CallbackTable
  CmpOps = {"cmpxchg"}
  Accumulator <- AccumulatorTable
  Source <- SourceTable
  PlainOps = {"add"}
  PlainResult <- PlainTable
  MaxOps = 2
INVARIANTS
  TypeOK
PROPERTIES
  ImplementsCell
  RmwEnds
