SPECIFICATION Spec
CONSTANTS
  B = 2
  CountBits = 5
  MaxChanges = 2
  Descriptors <- MCDescriptors
  Programs <- MCPrograms
INVARIANTS
  ArithmeticExact
  ConditionsAgree
  ShiftsExact
  BitsExact
  StackDiscipline
PROPERTIES
  FaultsLeaveNothing
  ReplayMatchesFresh
CHECK_DEADLOCK FALSE
