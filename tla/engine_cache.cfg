SPECIFICATION Spec
CONSTANTS
  NAddrs = 4
  CacheSlots = 2
  Setups <- CacheSetups
  HookChoices = {"PRE", "POST", "MEM_FETCH", "MEM_WRITE"}
  StoreCells = {1}
  StoreOps = {"alu", "x40"}
  Attempts = 2
  MaxCalls = 3
INVARIANTS
  ModeKeyCurrent
  CacheSound
  DispatchCurrent
