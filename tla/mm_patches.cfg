CONSTANTS
  NPages = 4
  PageSize = 2
  CacheSlots = 2
  VersionMod = 3
  InitialRegionCapacity = 1
  InitialPatchCapacity = 1
  b1 = b1
  b2 = b2
  b3 = b3
  b4 = b4
  BufIds <- MCBufs
  Host = Host
  Byte = {0, 1}
  MapPages = {1}
  MapSizes = {1}
  PermChoices <- MCOnePerm
  HostPtrs = {}
  PassChoices <- MCPass
  UserChoices = {FALSE}
  AccessPages = {0, 1, 2, 3}
  PatchRanges <- MCPatches
  StoreAddrs = {3}
  StoreVals = {0, 1}
  MaxRegions = 4
  MaxHandle = 3
SPECIFICATION Spec
SYMMETRY BufSymmetry
INVARIANT PatchLookupExact
PROPERTY ImplementsAddressSpace
