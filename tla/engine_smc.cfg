SPECIFICATION Spec
CONSTANTS
  NAddrs = 4
  CacheSlots = 4
  Setups <- SmcSetups
  HookChoices = {}
  StoreCells = {1}
  StoreOps = {"lea"}
  Attempts = 2
  MaxCalls = 0
INVARIANTS
  NeverStale
