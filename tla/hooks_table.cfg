SPECIFICATION FairSpec
CONSTANTS
  MaxHooks = 3
  CodeTypes = {"PRE"}
  MemTypes = {"MEM_WRITE"}
  InvalidTypes = {"MEM_WRITE_UNMAPPED"}
  EscapeIds = {"cpuid", "rdtsc"}
  MaxEscapes = 2
  Addresses = {1, 2}
  Ranges <- HookRanges
  MaxHandle = 4
  Reentrant <- Callbacks
INVARIANTS
  TableSound
PROPERTIES
  NotCalledOnceDeleted
  WalkComplete
  WalkEnds
