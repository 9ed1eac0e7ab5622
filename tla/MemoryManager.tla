--------------------------- MODULE MemoryManager ---------------------------
(***************************************************************************)
(* The virtual memory manager of cpueaxh (cpueaxh/memory/manager.hpp): a   *)
(* sorted array of page-aligned regions, a direct-mapped page cache, the   *)
(* host passthrough fallback, byte-granular patches that shadow the host,  *)
(* and the code_version counter the instruction cache compares.            *)
(*                                                                         *)
(* Regions are counted in pages (the code rejects every unaligned base or  *)
(* size); patches and stores are counted in bytes.  All arithmetic on      *)
(* addresses is modulo the size of the address space, as uint64_t is.      *)
(*                                                                         *)
(* mm_unmap, mm_protect and mm_set_cpu_attrs walk a range region by        *)
(* region.  One iteration of that loop is one step of the model; while a   *)
(* walk is in progress (op.pc = "walk") nothing else can happen.           *)
(***************************************************************************)
EXTENDS Integers, Sequences, FiniteSets

CONSTANTS
  NPages,         \* pages in the address space (2^52 in the code)
  PageSize,       \* bytes in a page (0x1000 in the code)
  CacheSlots,     \* MM_PAGE_CACHE_SIZE
  VersionMod,     \* code_version is an integer modulo this (2^64 in the code)
  InitialRegionCapacity,  \* first size of the region array (16 in the code)
  InitialPatchCapacity,   \* first size of the patch array (8 in the code)
  BufIds,         \* names of the heap blocks CPUEAXH_ALLOC_ZEROED can return
  Host,           \* the host's own address space, as a block
  Byte,           \* values of a byte
  MapPages,       \* pages callers pass as the base of a mapping or a range
  MapSizes,       \* sizes in pages that callers pass
  PermChoices,    \* permissions callers pass
  PassChoices,    \* permissions cpueaxh_set_memory_mode passes through to the host
  UserChoices,    \* values of MM_CPU_ATTR_USER callers set
  HostPtrs,       \* host pages callers hand to mm_map_host
  PatchRanges,    \* <<address, size>> pairs callers patch
  AccessPages,    \* pages that are read or fetched from
  StoreAddrs,     \* byte addresses that are stored to
  StoreVals,      \* byte values that are stored
  MaxRegions,     \* bound: regions in the array
  MaxHandle       \* bound: patches ever added between mm_init and mm_destroy

Rights == {"R", "W", "X"}

ASSUME SizesAssumption ==
  /\ NPages \in Nat \ {0} /\ PageSize \in Nat \ {0}
  /\ CacheSlots \in Nat \ {0} /\ VersionMod \in Nat /\ VersionMod > 2
  /\ InitialRegionCapacity \in Nat \ {0} /\ InitialPatchCapacity \in Nat \ {0}
  /\ MaxHandle \in Nat /\ MaxRegions \in Nat

ASSUME InputsAssumption ==
  /\ Host \notin BufIds
  /\ 0 \in Byte
  /\ MapPages \subseteq 0..NPages-1 /\ MapSizes \subseteq 1..NPages
  /\ PermChoices \subseteq SUBSET Rights /\ PassChoices \subseteq SUBSET Rights
  /\ UserChoices \subseteq BOOLEAN /\ AccessPages \subseteq 0..NPages-1
  /\ HostPtrs \subseteq 0..NPages-1
  /\ PatchRanges \subseteq (0..NPages*PageSize-1) \X (1..NPages*PageSize)
  /\ StoreAddrs \subseteq 0..NPages*PageSize-1
  /\ StoreVals \subseteq Byte

VARIABLES
  regions,           \* MEMORY_MANAGER.regions[0..region_count)
  region_capacity,
  patches,           \* MEMORY_MANAGER.patches[0..patch_count)
  patch_capacity,
  patch_bounds,      \* [min, max]: patch_min_address, patch_max_address
  next_patch_handle,
  passthrough,       \* host_{read,write,exec}_passthrough, as a set of rights
  page_cache,
  code_version,
  heap,              \* allocated block -> its bytes; Host is always allocated
  op                 \* the range walk in progress, or "idle", or "closed"

vars == <<regions, region_capacity, patches, patch_capacity, patch_bounds,
          next_patch_handle, passthrough, page_cache, code_version, heap, op>>

Pages == 0..NPages-1
Addrs == 0..NPages*PageSize-1
Slots == 0..CacheSlots-1
Ptr   == [buf : BufIds \cup {Host}, off : Nat]

Region == {r \in [base : Pages, size : 1..NPages, data : Ptr,
                  perms : SUBSET Rights, user : BOOLEAN, external : BOOLEAN] :
             r.external <=> r.data.buf = Host}

NoEntry    == [valid |-> FALSE]
CacheEntry == [valid : {TRUE}, page : Pages, ptr : Ptr,
               perms : SUBSET Rights, user : BOOLEAN]

Patch == {q \in [handle : Nat \ {0}, address : Addrs,
                 size : 1..NPages*PageSize, data : BufIds] :
            q.address + q.size - 1 \in Addrs}

RangeKinds == {"unmap", "protect", "attrs"}
Idle(ok)   == [pc |-> "idle", ok |-> ok]
Walk(kind, first, current, end, arg, before) ==
  [pc |-> "walk", kind |-> kind, first |-> first, current |-> current,
   end |-> end, arg |-> arg, before |-> before]
Closed     == [pc |-> "closed"]

-----------------------------------------------------------------------------
(* Addresses, regions and the searches over the region array.              *)

PageOf(a)      == a \div PageSize
RegionEnd(r)   == (r.base + r.size) % NPages
RangeOverflows(p, n) == (p + n - 1) % NPages < p

\* mm_find_insertion_index and mm_find_region_index, as the code computes
\* them; positions count from 1 here and 0 stands for (size_t)-1.
InsertionBinarySearch(regs, p) ==
  LET search[w \in (0..Len(regs)) \X (0..Len(regs))] ==  \* w = <<left, right>>
        LET mid == w[1] + ((w[2] - w[1]) \div 2)
        IN  IF w[1] >= w[2] THEN w[1] + 1
            ELSE IF regs[mid+1].base < p THEN search[<<mid+1, w[2]>>]
            ELSE search[<<w[1], mid>>]
  IN  search[<<0, Len(regs)>>]

RegionBinarySearch(regs, p) ==
  LET search[w \in (0..Len(regs)) \X (0..Len(regs))] ==  \* w = <<left, right>>
        LET mid == w[1] + ((w[2] - w[1]) \div 2)
        IN  IF w[1] >= w[2] THEN 0
            ELSE IF p < regs[mid+1].base THEN search[<<w[1], mid>>]
            ELSE IF p >= RegionEnd(regs[mid+1]) THEN search[<<mid+1, w[2]>>]
            ELSE mid + 1
  IN  search[<<0, Len(regs)>>]

\* What the two searches answer, without the loop.  The operations below use
\* these; SearchExact ties the loops to them in every reachable state.
FindInsertionIndex(regs, p) == 1 + Cardinality({i \in DOMAIN regs : regs[i].base < p})

Holders(regs, p) == {i \in DOMAIN regs : regs[i].base <= p /\ p < RegionEnd(regs[i])}

FindRegionIndex(regs, p) ==
  IF Holders(regs, p) = {} THEN 0 ELSE CHOOSE i \in Holders(regs, p) : TRUE

HasOverlap_PreviousOnly(regs, p, n) ==  \* mutant: the next region is not compared
  LET i == FindInsertionIndex(regs, p)
  IN  RangeOverflows(p, n) \/ (i > 1 /\ RegionEnd(regs[i-1]) > p)

\* Only the two neighbours of the insertion point are compared.
HasOverlap(regs, p, n) ==
  LET i == FindInsertionIndex(regs, p)
  IN  \/ RangeOverflows(p, n)
      \/ i > 1 /\ RegionEnd(regs[i-1]) > p
      \/ i <= Len(regs) /\ regs[i].base < (p + n) % NPages

\* Every page of the range is in a region; a range that ends at the top of
\* the address space has end = 0, so the code's loop body never runs.
CheckRangeMapped(regs, p, n) ==
  /\ ~RangeOverflows(p, n)
  /\ \A q \in p..((p + n) % NPages) - 1 : FindRegionIndex(regs, q) # 0

\* Arrays grow by doubling from their first capacity.
GrowthNeeded(count, capacity) == count > capacity
Grown(count, capacity, initial) ==
  IF ~GrowthNeeded(count, capacity) THEN capacity
  ELSE IF capacity = 0 THEN initial ELSE 2 * capacity

-----------------------------------------------------------------------------
(* The page cache, the patches and the version counter.                    *)

EmptyCache == [s \in Slots |-> NoEntry]

BumpedVersion(v) ==
  LET w == (v + 1) % VersionMod IN IF w = 0 THEN 1 ELSE w

InvalidateCache_CacheKept ==  \* mutant: only the version moves
  /\ UNCHANGED page_cache
  /\ code_version' = BumpedVersion(code_version)

InvalidateCache_NoBump ==  \* mutant: only the page cache is emptied
  /\ page_cache' = EmptyCache
  /\ UNCHANGED code_version

\* mm_invalidate_cache: the page cache is emptied and code_version bumped.
InvalidateCache ==
  /\ page_cache' = EmptyCache
  /\ code_version' = BumpedVersion(code_version)

CacheSlot(p) == p % CacheSlots

\* What the regions and the passthrough say about page p: the entry mm_query
\* puts in the cache, or NoEntry when the page is unmapped.
LookupPage(regs, pass, p) ==
  LET i == FindRegionIndex(regs, p)
  IN  IF i # 0
      THEN [valid |-> TRUE, page |-> p,
            ptr |-> [buf |-> regs[i].data.buf,
                     off |-> regs[i].data.off + (p - regs[i].base) * PageSize],
            perms |-> regs[i].perms, user |-> regs[i].user]
      ELSE IF pass # {}
      THEN [valid |-> TRUE, page |-> p, ptr |-> [buf |-> Host, off |-> p * PageSize],
            perms |-> pass, user |-> TRUE]
      ELSE NoEntry

CacheHit(p) == LET e == page_cache[CacheSlot(p)] IN e.valid /\ e.page = p

\* mm_query: the entry it answers with, and the cache it leaves behind.
Query(p) == IF CacheHit(p) THEN page_cache[CacheSlot(p)]
            ELSE LookupPage(regions, passthrough, p)

QueryFill(p) ==
  IF CacheHit(p) \/ ~Query(p).valid THEN page_cache
  ELSE [page_cache EXCEPT ![CacheSlot(p)] = Query(p)]

PatchEnd(q) == q.address + q.size - 1
Covers(q, a) == q.address <= a /\ a <= PatchEnd(q)

PatchBoundsMayContain(a) ==
  Len(patches) # 0 /\ patch_bounds.min <= a /\ a <= patch_bounds.max

\* mm_find_patch: the first patch that holds a, if the bounds let it look.
PatchIndexes(a) ==
  IF PatchBoundsMayContain(a)
  THEN {i \in DOMAIN patches : Covers(patches[i], a)} ELSE {}

RebuiltBounds_MaxStart(ps) ==  \* mutant: the maximum is a start, not an end
  IF ps = <<>> THEN [min |-> 0, max |-> 0]
  ELSE LET lo == CHOOSE m \in {ps[i].address : i \in DOMAIN ps} :
                   \A i \in DOMAIN ps : m <= ps[i].address
           hi == CHOOSE m \in {ps[i].address : i \in DOMAIN ps} :
                   \A i \in DOMAIN ps : ps[i].address <= m
       IN  [min |-> lo, max |-> hi]

\* mm_rebuild_patch_bounds; a minimum of 2^64-1 is stored as 0.
RebuiltBounds(ps) ==
  IF ps = <<>> THEN [min |-> 0, max |-> 0]
  ELSE LET lo == CHOOSE m \in {ps[i].address : i \in DOMAIN ps} :
                   \A i \in DOMAIN ps : m <= ps[i].address
           hi == CHOOSE m \in {PatchEnd(ps[i]) : i \in DOMAIN ps} :
                   \A i \in DOMAIN ps : PatchEnd(ps[i]) <= m
       IN  [min |-> IF lo = NPages*PageSize-1 THEN 0 ELSE lo, max |-> hi]

ByteAt_AnyMode(entry, a) ==  \* mutant: patches also shadow without passthrough
  LET found == PatchIndexes(a)
  IN  IF found # {}
      THEN LET i == CHOOSE k \in found : \A j \in found : k <= j
           IN  [buf |-> patches[i].data, off |-> a - patches[i].address]
      ELSE [buf |-> entry.ptr.buf, off |-> entry.ptr.off + (a % PageSize)]

\* mm_get_ptr_checked: the byte that an access to a really touches.
ByteAt(entry, a) ==
  LET found == IF passthrough # {} THEN PatchIndexes(a) ELSE {}
  IN  IF found # {}
      THEN LET i == CHOOSE k \in found : \A j \in found : k <= j
           IN  [buf |-> patches[i].data, off |-> a - patches[i].address]
      ELSE [buf |-> entry.ptr.buf, off |-> entry.ptr.off + (a % PageSize)]

-----------------------------------------------------------------------------
(* Operations.                                                             *)

Init ==
  /\ regions = <<>> /\ region_capacity = 0
  /\ patches = <<>> /\ patch_capacity = 0
  /\ patch_bounds = [min |-> 0, max |-> 0]
  /\ next_patch_handle = 1
  /\ passthrough = {}
  /\ page_cache = EmptyCache
  /\ code_version = 1
  /\ heap = [b \in {Host} |-> [i \in 0..NPages*PageSize-1 |-> 0]]
  /\ op = Idle(TRUE)

UnchangedPatches ==
  UNCHANGED <<patches, patch_capacity, patch_bounds, next_patch_handle>>

InsertRegion(r) ==
  LET i == FindInsertionIndex(regions, r.base)
  IN  /\ regions' = SubSeq(regions, 1, i-1) \o <<r>> \o SubSeq(regions, i, Len(regions))
      /\ region_capacity' = Grown(Len(regions)+1, region_capacity, InitialRegionCapacity)

CanMap(p, n) ==
  op.pc = "idle" /\ Len(regions) < MaxRegions /\ ~HasOverlap(regions, p, n)

\* mm_map_internal: a fresh zeroed block; a failed allocation changes nothing.
MapInternal(p, n, perms) ==
  /\ CanMap(p, n)
  /\ \E b \in BufIds \ DOMAIN heap :
       /\ heap' = [c \in DOMAIN heap \cup {b} |->
                     IF c = b THEN [i \in 0..n*PageSize-1 |-> 0] ELSE heap[c]]
       /\ InsertRegion([base |-> p, size |-> n, data |-> [buf |-> b, off |-> 0],
                        perms |-> perms, user |-> TRUE, external |-> FALSE])
  /\ InvalidateCache
  /\ op' = Idle(TRUE)
  /\ UnchangedPatches /\ UNCHANGED passthrough

\* mm_map_host: the region points into memory the caller owns.
MapHost(p, n, perms, h) ==
  /\ CanMap(p, n)
  /\ h + n <= NPages
  /\ InsertRegion([base |-> p, size |-> n,
                   data |-> [buf |-> Host, off |-> h * PageSize],
                   perms |-> perms, user |-> TRUE, external |-> TRUE])
  /\ InvalidateCache
  /\ op' = Idle(TRUE)
  /\ UnchangedPatches /\ UNCHANGED <<passthrough, heap>>

\* mm_set_host_passthrough.
SetHostPassthrough(perms) ==
  /\ op.pc = "idle"
  /\ passthrough' = perms
  /\ InvalidateCache
  /\ UnchangedPatches /\ UNCHANGED <<regions, region_capacity, heap, op>>

\* What the view of page p is, seen through the regions only (for op.before).
PageView(regs, h, p) ==
  LET i == FindRegionIndex(regs, p)
  IN  IF i = 0 THEN [mapped |-> FALSE]
      ELSE [mapped |-> TRUE, perms |-> regs[i].perms, user |-> regs[i].user,
            bytes |-> [k \in 0..PageSize-1 |->
              h[regs[i].data.buf][regs[i].data.off + (p - regs[i].base)*PageSize + k]]]

\* mm_unmap, mm_protect and mm_set_cpu_attrs up to their loop.
BeginRange(kind, p, n, arg) ==
  /\ op.pc = "idle"
  /\ CheckRangeMapped(regions, p, n)
  /\ op' = Walk(kind, p, p, (p + n) % NPages, arg,
                [q \in Pages |-> PageView(regions, heap, q)])
  /\ UnchangedPatches
  /\ UNCHANGED <<regions, region_capacity, passthrough, page_cache, code_version, heap>>

WalkRegion   == FindRegionIndex(regions, op.current)
ChunkEnd(r)  == IF RegionEnd(r) < op.end THEN RegionEnd(r) ELSE op.end

\* The pieces that replace region r: what is left of the chunk, the chunk
\* itself unless it is being unmapped, and what is right of it.
Segment(base, end, perms, user) ==
  [base |-> base, size |-> end - base, perms |-> perms, user |-> user]

Segments_EmptyLeft(r) ==  \* mutant: the left piece is built even when empty
  <<Segment(r.base, op.current, r.perms, r.user)>>
  \o (IF op.kind = "unmap" THEN <<>>
      ELSE <<Segment(op.current, ChunkEnd(r), op.arg, r.user)>>)
  \o (IF ChunkEnd(r) < RegionEnd(r)
      THEN <<Segment(ChunkEnd(r), RegionEnd(r), r.perms, r.user)>> ELSE <<>>)

Segments(r) ==
  (IF r.base < op.current
   THEN <<Segment(r.base, op.current, r.perms, r.user)>> ELSE <<>>)
  \o (CASE op.kind = "unmap"   -> <<>>
        [] op.kind = "protect" -> <<Segment(op.current, ChunkEnd(r), op.arg, r.user)>>
        [] op.kind = "attrs"   -> <<Segment(op.current, ChunkEnd(r), r.perms, op.arg)>>)
  \o (IF ChunkEnd(r) < RegionEnd(r)
      THEN <<Segment(ChunkEnd(r), RegionEnd(r), r.perms, r.user)>> ELSE <<>>)

SegmentOffset_Start(r, s) == r.data.off  \* mutant: always the start of the source

\* mm_build_region_segment: an external piece points into its source, an
\* internal one is a fresh copy.
SegmentOffset(r, s) == r.data.off + (s.base - r.base) * PageSize

BuildRegionSegment_SamePtr(r, s, buf) ==  \* mutant: external pointer not advanced
  [base |-> s.base, size |-> s.size,
   data |-> IF r.external THEN r.data ELSE [buf |-> buf, off |-> 0],
   perms |-> s.perms, user |-> s.user, external |-> r.external]

BuildRegionSegment(r, s, buf) ==
  [base |-> s.base, size |-> s.size,
   data |-> IF r.external THEN [buf |-> r.data.buf, off |-> SegmentOffset(r, s)]
            ELSE [buf |-> buf, off |-> 0],
   perms |-> s.perms, user |-> s.user, external |-> r.external]

Allocations(r) ==
  (IF r.external THEN 0 ELSE Len(Segments(r)))
  + (IF GrowthNeeded(Len(regions) - 1 + Len(Segments(r)), region_capacity) THEN 1 ELSE 0)

\* The loop ends before its first iteration: a range that ends at the top of the
\* address space has end = 0, and the call returns true having changed nothing.
RangeEmpty ==
  /\ op.pc = "walk" /\ op.current >= op.end
  /\ op' = Idle(TRUE)
  /\ UnchangedPatches
  /\ UNCHANGED <<regions, region_capacity, passthrough, page_cache, code_version, heap>>

\* One iteration: the pieces are built, then mm_replace_region swaps them in,
\* frees the original's block and invalidates the cache.
RangeStep ==
  /\ op.pc = "walk" /\ op.current < op.end /\ WalkRegion # 0
  /\ LET i    == WalkRegion
         r    == regions[i]
         segs == Segments(r)
         need == IF r.external THEN {} ELSE DOMAIN segs
     IN  /\ \E bufs \in [need -> BufIds \ DOMAIN heap] :
              /\ \A j, k \in need : bufs[j] = bufs[k] => j = k
              /\ heap' = [b \in (DOMAIN heap \ (IF r.external THEN {} ELSE {r.data.buf}))
                                \cup {bufs[k] : k \in need} |->
                            IF \E k \in need : bufs[k] = b
                            THEN LET k == CHOOSE j \in need : bufs[j] = b
                                 IN  [x \in 0..segs[k].size*PageSize-1 |->
                                        heap[r.data.buf][SegmentOffset(r, segs[k]) + x]]
                            ELSE heap[b]]
              /\ regions' = SubSeq(regions, 1, i-1)
                            \o [k \in DOMAIN segs |->
                                  BuildRegionSegment(r, segs[k],
                                    IF r.external THEN Host ELSE bufs[k])]
                            \o SubSeq(regions, i+1, Len(regions))
         /\ region_capacity' = Grown(Len(regions) - 1 + Len(segs), region_capacity,
                                     InitialRegionCapacity)
         /\ op' = IF ChunkEnd(r) < op.end
                  THEN Walk(op.kind, op.first, ChunkEnd(r), op.end, op.arg, op.before)
                  ELSE Idle(TRUE)
  /\ InvalidateCache
  /\ UnchangedPatches /\ UNCHANGED passthrough

RangeFail_Leak ==  \* mutant: the pieces already built are not released
  /\ op.pc = "walk" /\ op.current < op.end /\ WalkRegion # 0
  /\ ~regions[WalkRegion].external /\ Len(Segments(regions[WalkRegion])) > 1
  /\ \E b \in BufIds \ DOMAIN heap :
       heap' = [c \in DOMAIN heap \cup {b} |->
                  IF c = b THEN [i \in 0..PageSize-1 |-> 0] ELSE heap[c]]
  /\ op' = Idle(FALSE)
  /\ UnchangedPatches
  /\ UNCHANGED <<regions, region_capacity, passthrough, page_cache, code_version>>

\* An allocation of this iteration fails: its pieces are released and the
\* call returns false.  Chunks already replaced stay replaced.
RangeFail ==
  /\ op.pc = "walk" /\ op.current < op.end
  /\ WalkRegion = 0 \/ Allocations(regions[WalkRegion]) > 0
  /\ op' = Idle(FALSE)
  /\ UnchangedPatches
  /\ UNCHANGED <<regions, region_capacity, passthrough, page_cache, code_version, heap>>

\* mm_add_patch; the range must not overflow nor meet another patch.
AddPatch(a, n, v) ==
  /\ op.pc = "idle" /\ next_patch_handle <= MaxHandle
  /\ (a + n - 1) % (NPages*PageSize) >= a
  /\ \A i \in DOMAIN patches : PatchEnd(patches[i]) < a \/ a + n - 1 < patches[i].address
  /\ \E b \in BufIds \ DOMAIN heap :
       /\ heap' = [c \in DOMAIN heap \cup {b} |->
                     IF c = b THEN [i \in 0..n-1 |-> v] ELSE heap[c]]
       /\ patches' = Append(patches, [handle |-> next_patch_handle, address |-> a,
                                      size |-> n, data |-> b])
  /\ patch_capacity' = Grown(Len(patches)+1, patch_capacity, InitialPatchCapacity)
  /\ patch_bounds' = IF patches = <<>> THEN [min |-> a, max |-> a + n - 1]
       ELSE [min |-> IF a < patch_bounds.min THEN a ELSE patch_bounds.min,
             max |-> IF a + n - 1 > patch_bounds.max THEN a + n - 1 ELSE patch_bounds.max]
  /\ next_patch_handle' = next_patch_handle + 1
  /\ code_version' = BumpedVersion(code_version)
  /\ UNCHANGED <<regions, region_capacity, passthrough, page_cache, op>>

\* mm_del_patch.
DelPatch(i) ==
  /\ op.pc = "idle"
  /\ heap' = [b \in DOMAIN heap \ {patches[i].data} |-> heap[b]]
  /\ patches' = SubSeq(patches, 1, i-1) \o SubSeq(patches, i+1, Len(patches))
  /\ patch_bounds' = RebuiltBounds(patches')
  /\ code_version' = BumpedVersion(code_version)
  /\ UNCHANGED <<regions, region_capacity, patch_capacity, next_patch_handle,
                 passthrough, page_cache, op>>

\* mm_query on its own: a read or fetch that only warms the page cache.
Access(p) ==
  /\ op.pc = "idle"
  /\ page_cache' = QueryFill(p)
  /\ UnchangedPatches
  /\ UNCHANGED <<regions, region_capacity, passthrough, code_version, heap, op>>

\* mm_write_byte_checked on a writable byte; code_version does not move.
WriteByte(a, v) ==
  /\ op.pc = "idle"
  /\ LET e == Query(PageOf(a))
     IN  /\ e.valid /\ "W" \in e.perms
         /\ LET at == ByteAt(e, a)
            IN  heap' = [heap EXCEPT ![at.buf][at.off] = v]
  /\ page_cache' = QueryFill(PageOf(a))
  /\ UnchangedPatches
  /\ UNCHANGED <<regions, region_capacity, passthrough, code_version, op>>

\* mm_destroy releases every block the manager owns and zeroes the structure.
Destroy ==
  /\ op.pc = "idle"
  /\ regions' = <<>> /\ region_capacity' = 0
  /\ patches' = <<>> /\ patch_capacity' = 0
  /\ patch_bounds' = [min |-> 0, max |-> 0]
  /\ next_patch_handle' = 0
  /\ passthrough' = {}
  /\ page_cache' = EmptyCache
  /\ code_version' = 0
  /\ heap' = [b \in DOMAIN heap \ ({regions[i].data.buf : i \in {k \in DOMAIN regions : ~regions[k].external}}
                                   \cup {patches[i].data : i \in DOMAIN patches}) |-> heap[b]]
  /\ op' = Closed

\* mm_init on a manager that was destroyed.
Reopen ==
  /\ op.pc = "closed"
  /\ next_patch_handle' = 1
  /\ code_version' = 1
  /\ op' = Idle(TRUE)
  /\ UNCHANGED <<regions, region_capacity, patches, patch_capacity, patch_bounds,
                 passthrough, page_cache, heap>>

Next ==
  \/ \E p \in MapPages, n \in MapSizes, perms \in PermChoices : MapInternal(p, n, perms)
  \/ \E p \in MapPages, n \in MapSizes, perms \in PermChoices, h \in HostPtrs :
       MapHost(p, n, perms, h)
  \/ \E perms \in PassChoices : SetHostPassthrough(perms)
  \/ \E p \in MapPages, n \in MapSizes : BeginRange("unmap", p, n, TRUE)
  \/ \E p \in MapPages, n \in MapSizes, perms \in PermChoices : BeginRange("protect", p, n, perms)
  \/ \E p \in MapPages, n \in MapSizes, user \in UserChoices : BeginRange("attrs", p, n, user)
  \/ RangeEmpty
  \/ RangeStep
  \/ RangeFail
  \/ \E r \in PatchRanges, v \in StoreVals : AddPatch(r[1], r[2], v)
  \/ \E i \in DOMAIN patches : DelPatch(i)
  \/ \E p \in AccessPages : Access(p)
  \/ \E a \in StoreAddrs, v \in StoreVals : WriteByte(a, v)
  \/ Destroy
  \/ Reopen

Spec == Init /\ [][Next]_vars

-----------------------------------------------------------------------------
(* Properties.                                                             *)

\* manager.hpp, MEMORY_MANAGER: every field keeps its shape through every call, and a
\* range walk in progress stands inside its range, so the loop never runs past its
\* end; only a range that ends at the top of the address space, whose end is 0, has
\* no step to take.
TypeOK ==
  /\ regions \in Seq(Region) /\ region_capacity \in Nat
  /\ patches \in Seq(Patch) /\ patch_capacity \in Nat
  /\ patch_bounds \in [min : Addrs, max : Addrs]
  /\ next_patch_handle \in Nat
  /\ op.pc # "closed" => next_patch_handle # 0 /\ code_version # 0
  /\ passthrough \in SUBSET Rights
  /\ page_cache \in [Slots -> CacheEntry \cup {NoEntry}]
  /\ code_version \in 0..VersionMod-1
  /\ DOMAIN heap \subseteq BufIds \cup {Host} /\ Host \in DOMAIN heap
  /\ op.pc \in {"idle", "walk", "closed"}
  /\ op.pc = "walk" => /\ op.kind \in RangeKinds
                       /\ op.first \in Pages /\ op.current \in Pages /\ op.end \in Pages
                       /\ \/ op.first <= op.current /\ op.current < op.end
                          \/ op.current = op.first /\ op.end = 0
                       /\ op.kind = "protect" => op.arg \in SUBSET Rights
                       /\ op.kind = "attrs" => op.arg \in BOOLEAN

\* The pages of a region, counted without the wrap of RegionEnd.
Contains(r, p) == r.base <= p /\ p < r.base + r.size
EndsAtTop(r)   == r.base + r.size = NPages

\* The regions below the top of the address space that contain page p.
RegionsBelowTop(p) == {i \in DOMAIN regions : Contains(regions[i], p) /\ ~EndsAtTop(regions[i])}

\* mm_find_region_index, mm_find_insertion_index: after any sequence of insertions,
\* splits and half-done range calls the array is sorted, and disjoint, enough for
\* the searches: they answer the one region below the top that contains the page,
\* and the one place where a base belongs.  A region that ends at the top is the
\* exception: its end wraps to 0, so no search ever answers it, mm_has_overlap lets
\* its pages be mapped again, and what the search says of the others must not suffer.
SearchExact ==
  \A p \in Pages :
    LET found == RegionBinarySearch(regions, p)
    IN  /\ IF RegionsBelowTop(p) = {} THEN found = 0 ELSE RegionsBelowTop(p) = {found}
        /\ InsertionBinarySearch(regions, p) = FindInsertionIndex(regions, p)

\* mm_query: a valid page cache entry says what the regions and the passthrough
\* say now; an entry that survives a remap, protect or passthrough switch would
\* let an access use freed memory or lost permissions.
PageCacheCoherent ==
  \A s \in Slots :
    page_cache[s].valid =>
      /\ CacheSlot(page_cache[s].page) = s
      /\ page_cache[s] = LookupPage(regions, passthrough, page_cache[s].page)

OwnedBy(r) == ~r.external
RegionBlocks == {i \in DOMAIN regions : OwnedBy(regions[i])}

\* mm_replace_region: every allocated block is the data of exactly one internal
\* region or patch and is as long as its owner says: nothing leaks, nothing is
\* freed twice or used after free, also when an allocation fails halfway through
\* a walk.
HeapOwnership ==
  /\ DOMAIN heap = {Host} \cup {regions[i].data.buf : i \in RegionBlocks}
                         \cup {patches[i].data : i \in DOMAIN patches}
  /\ Cardinality(DOMAIN heap) = 1 + Cardinality(RegionBlocks) + Len(patches)
  /\ \A i \in RegionBlocks :
       DOMAIN heap[regions[i].data.buf] = 0..regions[i].size*PageSize-1
  /\ \A i \in DOMAIN patches :
       DOMAIN heap[patches[i].data] = 0..patches[i].size-1

\* The bounds kept beside the patch array never hide a patch from
\* mm_find_patch, and no address is held by two patches.
PatchLookupExact ==
  \A a \in Addrs :
    LET holders == {i \in DOMAIN patches : Covers(patches[i], a)}
    IN  PatchIndexes(a) = holders /\ Cardinality(holders) <= 1

\* What decides which bytes an instruction fetch sees.
ExecView == <<regions, passthrough, patches>>

\* mm_bump_code_version: what a fetch can see moves only together with
\* code_version, which is what lets the instruction cache trust it.
VersionTracksView ==
  [][ExecView' # ExecView => code_version' # code_version]_vars

\* What a range call that returns owes page q.
RangeEffect(q) ==
  IF ~(op.first <= q /\ q < (IF op'.ok THEN op.end ELSE op.current))
  THEN op.before[q]
  ELSE CASE op.kind = "unmap"   -> [mapped |-> FALSE]
         [] op.kind = "protect" -> [op.before[q] EXCEPT !.perms = op.arg]
         [] op.kind = "attrs"   -> [op.before[q] EXCEPT !.user = op.arg]

\* mm_unmap, mm_protect, mm_set_cpu_attrs: on success every page of the range
\* has its new state and every other page is untouched; on failure that is
\* true of the pages before the chunk that failed.  Bytes survive every split
\* and copy.  A range that ends at the top of the address space is the exception:
\* the call answers true and no page has changed.
RangeCallsExact ==
  [][op.pc = "walk" /\ op'.pc = "idle" =>
       /\ op.end = 0 => op'.ok
       /\ \A q \in Pages : PageView(regions', heap', q) =
                            IF op.end = 0 THEN op.before[q] ELSE RangeEffect(q)]_vars

\* The refinement mapping: regions, blocks and offsets become one descriptor
\* per page; the page cache and code_version disappear.
PageDescriptor(p) ==
  LET i == FindRegionIndex(regions, p)
      r == regions[i]
      off == r.data.off + (p - r.base) * PageSize
  IN  IF i = 0 THEN <<"none">>
      ELSE <<"page", r.perms, r.user,
             IF r.external THEN <<"host", off \div PageSize>>
             ELSE <<"own", [k \in 0..PageSize-1 |-> heap[r.data.buf][off + k]]>> >>

Abstract == INSTANCE AddressSpace WITH
  table   <- [p \in Pages |-> PageDescriptor(p)],
  host    <- heap[Host],
  overlay <- {<<patches[i].address, heap[patches[i].data]>> : i \in DOMAIN patches},
  pass    <- passthrough

\* The array of regions with its splits, copies and page cache behaves as a
\* page table with one descriptor per page: no operation, and no allocation
\* failure inside one, is visible as anything else.
ImplementsAddressSpace == Abstract!ASSpec

=============================================================================
