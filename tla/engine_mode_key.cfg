SPECIFICATION Spec
CONSTANTS
  NAddrs = 3
  CacheSlots = 4
  Setups <- ModeSetups
  HookChoices = {}
  StoreCells = {}
  StoreOps = {}
  Attempts = 2
  MaxCalls = 1
INVARIANTS
  ModeKeyCurrent
