SPECIFICATION FairSpec
CONSTANTS
  NAddrs = 7
  CacheSlots = 2
  Setups <- StepSetups
  HookChoices = {"PRE", "POST", "MEM_WRITE"}
  StoreCells = {1}
  StoreOps = {"cpuid"}
  Attempts = 2
  MaxCalls = 3
INVARIANTS
  EscapesHonoured
PROPERTIES
  UdOnlyForUndefined
  FaultAtomic
  AdvancesByLength
  StopHonoured
  CountHonoured
