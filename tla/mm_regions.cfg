CONSTANTS
  NPages = 3
  PageSize = 1
  CacheSlots = 2
  VersionMod = 3
  InitialRegionCapacity = 2
  InitialPatchCapacity = 1
  b1 = b1
  b2 = b2
  b3 = b3
  b4 = b4
  BufIds <- MCBufs
  Host = Host
  Byte = {0, 1}
  MapPages = {0, 1, 2}
  MapSizes = {1, 2}
  PermChoices <- MCPerms
  HostPtrs = {1}
  PassChoices = {}
  UserChoices = {FALSE}
  AccessPages = {1}
  PatchRanges = {}
  StoreAddrs = {1}
  StoreVals = {1}
  MaxRegions = 2
  MaxHandle = 0
SPECIFICATION Spec
SYMMETRY BufSymmetry
INVARIANTS TypeOK SearchExact PageCacheCoherent HeapOwnership
PROPERTIES VersionTracksView RangeCallsExact ImplementsAddressSpace
