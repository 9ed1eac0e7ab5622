------------------------ MODULE MemoryManagerProofs ------------------------
(***************************************************************************)
(* Theorems about MemoryManager for every size of the address space, of    *)
(* the page cache and of the inputs.                                       *)
(***************************************************************************)
EXTENDS MemoryManager, TLAPS, SequenceTheorems, FiniteSetTheorems, WellFoundedInduction

(* Arithmetic that several steps need.                                     *)

LEMMA ModType ==
  ASSUME NEW a \in Int, NEW n \in Nat \ {0}
  PROVE  a % n \in 0..n-1
  OBVIOUS

LEMMA TimesNat ==
  ASSUME NEW a \in Nat, NEW b \in Nat
  PROVE  a * b \in Nat
  OBVIOUS

LEMMA OffsetNat ==
  ASSUME NEW o \in Nat, NEW p \in Nat, NEW b \in Nat, NEW s \in Nat, b <= p
  PROVE  o + (p - b) * s \in Nat
  <1>1. (p - b) * s \in Nat
    BY TimesNat
  <1>. QED
    BY <1>1

LEMMA BumpType ==
  ASSUME NEW v \in 0..VersionMod-1
  PROVE  /\ BumpedVersion(v) \in 0..VersionMod-1
         /\ BumpedVersion(v) # v /\ BumpedVersion(v) # 0
  BY SizesAssumption DEF BumpedVersion

(* The answers of the searches are positions of the array.                 *)

LEMMA RegionIndexType ==
  ASSUME NEW regs \in Seq(Region), NEW p \in Pages
  PROVE  /\ FindRegionIndex(regs, p) \in 0..Len(regs)
         /\ FindRegionIndex(regs, p) # 0 =>
              LET r == regs[FindRegionIndex(regs, p)]
              IN  r \in Region /\ r.base <= p /\ p < RegionEnd(r)
  <1>1. CASE Holders(regs, p) = {}
    BY <1>1 DEF FindRegionIndex
  <1>2. CASE Holders(regs, p) # {}
    <2>1. FindRegionIndex(regs, p) \in Holders(regs, p)
      BY <1>2 DEF FindRegionIndex
    <2>2. FindRegionIndex(regs, p) \in 1..Len(regs)
      BY <2>1, LenProperties DEF Holders
    <2>3. regs[FindRegionIndex(regs, p)] \in Region
      BY <2>2, ElementOfSeq
    <2>. QED
      BY <2>1, <2>2, <2>3 DEF Holders
  <1>. QED
    BY <1>1, <1>2

LEMMA InsertionIndexType ==
  ASSUME NEW regs \in Seq(Region), NEW p \in Pages
  PROVE  FindInsertionIndex(regs, p) \in 1..Len(regs)+1
  <1>. DEFINE S == {i \in DOMAIN regs : regs[i].base < p}
  <1>1. Len(regs) \in Nat /\ DOMAIN regs = 1..Len(regs)
    BY LenProperties
  <1>2. IsFiniteSet(1..Len(regs)) /\ Cardinality(1..Len(regs)) = Len(regs)
    BY <1>1, FS_Interval
  <1>3. S \in SUBSET (1..Len(regs))
    BY <1>1
  <1>4. IsFiniteSet(S) /\ Cardinality(S) <= Len(regs)
    BY <1>2, <1>3, FS_Subset
  <1>5. Cardinality(S) \in Nat
    BY <1>4, FS_CardinalityType
  <1>. QED
    BY <1>1, <1>4, <1>5 DEF FindInsertionIndex

LEMMA LookupType ==
  ASSUME NEW regs \in Seq(Region), NEW pass \in SUBSET Rights, NEW p \in Pages
  PROVE  /\ LookupPage(regs, pass, p) \in CacheEntry \cup {NoEntry}
         /\ LookupPage(regs, pass, p).valid \in BOOLEAN
         /\ LookupPage(regs, pass, p).valid => LookupPage(regs, pass, p).page = p
  <1>. DEFINE i == FindRegionIndex(regs, p)
              r == regs[i]
  <1>1. CASE i # 0
    <2>1. r \in Region /\ r.base <= p
      BY <1>1, RegionIndexType
    <2>. HIDE DEF r
    <2>2. r.base \in Nat /\ p \in Nat /\ r.data.off \in Nat /\ PageSize \in Nat
      BY <2>1, SizesAssumption DEF Region, Ptr, Pages
    <2>4. r.data.off + (p - r.base) * PageSize \in Nat
      BY <2>1, <2>2, OffsetNat
    <2>. QED
      BY <1>1, <2>1, <2>4 DEF LookupPage, CacheEntry, Region, Ptr, r
  <1>2. CASE i = 0 /\ pass # {}
    <2>1. p * PageSize \in Nat
      BY SizesAssumption, TimesNat DEF Pages
    <2>. QED
      BY <1>2, <2>1 DEF LookupPage, CacheEntry, Ptr
  <1>3. CASE i = 0 /\ pass = {}
    BY <1>3 DEF LookupPage, NoEntry
  <1>. QED
    BY <1>1, <1>2, <1>3

(* Finite sets of addresses have a least and a greatest element.           *)

LEMMA LeastExists ==
  ASSUME NEW T \in SUBSET Nat, T # {}
  PROVE  \E x \in T : \A y \in T : x <= y
  <1>. DEFINE less == {ss \in Nat \X Nat : ss[1] < ss[2]}
  <1>1. IsWellFoundedOn(less, Nat)
    BY NatLessThanWellFounded DEF OpToRel
  <1>2. \E x \in T : \A y \in T : ~(<<y, x>> \in less)
    <2>. HIDE DEF less
    <2>. QED BY <1>1, WFMin
  <1>3. \A x, y \in Nat : y < x => <<y, x>> \in less
    OBVIOUS
  <1>4. PICK x \in T : \A y \in T : ~(<<y, x>> \in less)
    BY <1>2
  <1>5. \A y \in T : ~(y < x)
    <2>. HIDE DEF less
    <2>. QED BY <1>3, <1>4
  <1>. QED
    BY <1>5

LEMMA GreatestExists ==
  ASSUME NEW n \in Nat, NEW T \in SUBSET (0..n), T # {}
  PROVE  \E x \in T : \A y \in T : y <= x
  <1>. DEFINE U == {n - y : y \in T}
  <1>0. \A y \in T : y \in Nat /\ y <= n /\ n - y \in Nat
    OBVIOUS
  <1>1. U \in SUBSET Nat /\ U # {}
    BY <1>0
  <1>2. PICK u \in U : \A w \in U : u <= w
    BY <1>1, LeastExists
  <1>3. PICK x \in T : u = n - x
    BY <1>2
  <1>4. \A y \in T : n - x <= n - y
    BY <1>2, <1>3
  <1>. QED
    BY <1>3, <1>4

LEMMA AddrsType == NPages * PageSize \in Nat \ {0} /\ NPages * PageSize - 1 \in Nat
  BY SizesAssumption

LEMMA NoWrap ==
  ASSUME NEW N \in Nat \ {0}, NEW a \in 0..N-1, NEW n \in 1..N,
         (a + n - 1) % N >= a
  PROVE  a + n - 1 \in 0..N-1
  OBVIOUS

LEMMA RebuiltBoundsType ==
  ASSUME NEW ps \in Seq(Patch)
  PROVE  RebuiltBounds(ps) \in [min : Addrs, max : Addrs]
  <1>. DEFINE N == NPages * PageSize
              A == {ps[i].address : i \in DOMAIN ps}
              E == {PatchEnd(ps[i]) : i \in DOMAIN ps}
  <1>0. N \in Nat \ {0} /\ Addrs = 0..N-1
    BY AddrsType DEF Addrs
  <1>. HIDE DEF N
  <1>1. CASE ps = <<>>
    BY <1>0, <1>1 DEF RebuiltBounds
  <1>2. CASE ps # <<>>
    <2>1. DOMAIN ps = 1..Len(ps) /\ 1 \in DOMAIN ps
      BY <1>2, LenProperties, EmptySeq
    <2>2. \A i \in DOMAIN ps : ps[i].address \in 0..N-1 /\ PatchEnd(ps[i]) \in 0..N-1
      BY <1>0, <2>1, ElementOfSeq DEF Patch, PatchEnd
    <2>3. A # {} /\ A \in SUBSET Nat /\ A \in SUBSET (0..N-1)
      BY <1>0, <2>1, <2>2
    <2>4. E # {} /\ E \in SUBSET (0..N-1)
      BY <2>1, <2>2
    <2>5. \E m \in A : \A i \in DOMAIN ps : m <= ps[i].address
      <3>1. PICK m \in A : \A y \in A : m <= y
        <4>. HIDE DEF A
        <4>. QED BY <2>3, LeastExists
      <3>. QED BY <3>1
    <2>6. \E m \in E : \A i \in DOMAIN ps : PatchEnd(ps[i]) <= m
      <3>1. PICK m \in E : \A y \in E : y <= m
        <4>. HIDE DEF E
        <4>1. N - 1 \in Nat
          BY <1>0
        <4>. QED BY <4>1, <2>4, GreatestExists
      <3>. QED BY <3>1
    <2>7. (CHOOSE m \in A : \A i \in DOMAIN ps : m <= ps[i].address) \in 0..N-1
      BY <2>3, <2>5
    <2>8. (CHOOSE m \in E : \A i \in DOMAIN ps : PatchEnd(ps[i]) <= m) \in 0..N-1
      BY <2>4, <2>6
    <2>. QED
      BY <1>0, <1>2, <2>7, <2>8 DEF RebuiltBounds
  <1>. QED
    BY <1>1, <1>2


(* What mm_query leaves in the page cache.                                 *)

LEMMA SlotType ==
  ASSUME NEW p \in Pages
  PROVE  CacheSlot(p) \in Slots
  BY SizesAssumption, ModType DEF CacheSlot, Slots, Pages

LEMMA PageOfType ==
  ASSUME NEW a \in Addrs
  PROVE  PageOf(a) \in Pages
  BY SizesAssumption DEF PageOf, Pages, Addrs

LEMMA QueryFillCases ==
  ASSUME NEW p
  PROVE  \/ QueryFill(p) = page_cache
         \/ /\ QueryFill(p) = [page_cache EXCEPT ![CacheSlot(p)] = LookupPage(regions, passthrough, p)]
            /\ LookupPage(regions, passthrough, p).valid
  BY DEF QueryFill, Query

LEMMA QueryFillType ==
  ASSUME TypeOK, NEW p \in Pages
  PROVE  QueryFill(p) \in [Slots -> CacheEntry \cup {NoEntry}]
  <1>1. LookupPage(regions, passthrough, p) \in CacheEntry \cup {NoEntry}
    BY LookupType DEF TypeOK
  <1>2. page_cache \in [Slots -> CacheEntry \cup {NoEntry}]
    BY DEF TypeOK
  <1>. QED
    BY <1>1, <1>2, QueryFillCases, SlotType

(* The pieces that replace a region in one iteration of a range call.      *)

LEMMA SegmentsType ==
  ASSUME TypeOK, op.pc = "walk", op.current < op.end, NEW r \in Region,
         r.base <= op.current, op.current < RegionEnd(r)
  PROVE  /\ RegionEnd(r) \in Pages
         /\ ChunkEnd(r) \in Pages
         /\ op.current < ChunkEnd(r) /\ ChunkEnd(r) <= RegionEnd(r) /\ ChunkEnd(r) <= op.end
         /\ Segments(r) \in Seq([base : r.base..NPages-1, size : 1..NPages,
                                 perms : SUBSET Rights, user : BOOLEAN])
  <1>0. /\ NPages \in Nat \ {0} /\ r.base \in 0..NPages-1 /\ r.size \in 1..NPages
        /\ r.perms \in SUBSET Rights /\ r.user \in BOOLEAN
    BY SizesAssumption DEF Region, Pages
  <1>1. RegionEnd(r) \in 0..NPages-1
    <2>1. r.base + r.size \in Int
      BY <1>0
    <2>. QED
      BY <1>0, <2>1, ModType DEF RegionEnd
  <1>2. /\ op.current \in 0..NPages-1 /\ op.end \in 0..NPages-1 /\ op.current < op.end
        /\ op.kind \in RangeKinds
        /\ op.kind = "protect" => op.arg \in SUBSET Rights
        /\ op.kind = "attrs" => op.arg \in BOOLEAN
    BY DEF TypeOK, Pages
  <1>3. /\ ChunkEnd(r) \in 0..NPages-1
        /\ op.current < ChunkEnd(r) /\ ChunkEnd(r) <= RegionEnd(r) /\ ChunkEnd(r) <= op.end
    BY <1>1, <1>2 DEF ChunkEnd
  <1>. DEFINE S == [base : r.base..NPages-1, size : 1..NPages,
                    perms : SUBSET Rights, user : BOOLEAN]
              left  == IF r.base < op.current
                       THEN <<Segment(r.base, op.current, r.perms, r.user)>> ELSE <<>>
              mid   == CASE op.kind = "unmap"   -> <<>>
                         [] op.kind = "protect" -> <<Segment(op.current, ChunkEnd(r), op.arg, r.user)>>
                         [] op.kind = "attrs"   -> <<Segment(op.current, ChunkEnd(r), r.perms, op.arg)>>
              right == IF ChunkEnd(r) < RegionEnd(r)
                       THEN <<Segment(ChunkEnd(r), RegionEnd(r), r.perms, r.user)>> ELSE <<>>
  <1>a. ASSUME NEW b \in r.base..NPages-1, NEW e \in 0..NPages-1, b < e,
               NEW perms \in SUBSET Rights, NEW user \in BOOLEAN
        PROVE  <<Segment(b, e, perms, user)>> \in Seq(S)
    <2>1. b \in r.base..NPages-1 /\ e - b \in 1..NPages
      BY <1>a, <1>0
    <2>2. Segment(b, e, perms, user) \in S
      BY <2>1 DEF Segment
    <2>. QED
      BY <2>2
  <1>b. <<>> \in Seq(S)
    BY EmptySeq
  <1>4. left \in Seq(S)
    <2>1. CASE r.base < op.current
      <3>1. r.base \in r.base..NPages-1
        BY <1>0
      <3>. HIDE DEF S
      <3>. QED BY <2>1, <3>1, <1>0, <1>2, <1>a
    <2>. QED
      BY <2>1, <1>b
  <1>5. mid \in Seq(S)
    <2>1. CASE op.kind = "unmap"
      BY <2>1
    <2>2. CASE op.kind = "protect"
      BY <2>2, <1>0, <1>2, <1>3 DEF Segment
    <2>3. CASE op.kind = "attrs"
      BY <2>3, <1>0, <1>2, <1>3 DEF Segment
    <2>. QED
      BY <1>2, <2>1, <2>2, <2>3 DEF RangeKinds
  <1>6. right \in Seq(S)
    <2>1. CASE ChunkEnd(r) < RegionEnd(r)
      <3>1. ChunkEnd(r) \in r.base..NPages-1
        BY <1>0, <1>2, <1>3
      <3>. HIDE DEF S
      <3>. QED BY <2>1, <3>1, <1>0, <1>1, <1>a
    <2>. QED
      BY <2>1, <1>b
  <1>7. Segments(r) = left \o mid \o right
    BY DEF Segments
  <1>8. Segments(r) \in Seq(S)
    <2>. HIDE DEF S, left, mid, right
    <2>. QED BY <1>4, <1>5, <1>6, <1>7, ConcatProperties
  <1>. QED
    BY <1>1, <1>3, <1>8 DEF Pages


LEMMA EmptyCacheType == EmptyCache \in [Slots -> CacheEntry \cup {NoEntry}]
  BY DEF EmptyCache

LEMMA InvalidateType ==
  ASSUME TypeOK, InvalidateCache
  PROVE  /\ page_cache' \in [Slots -> CacheEntry \cup {NoEntry}]
         /\ code_version' \in 0..VersionMod-1
         /\ code_version' # code_version /\ code_version' # 0
  BY EmptyCacheType, BumpType DEF InvalidateCache, TypeOK

LEMMA GrownType ==
  ASSUME NEW count \in Int, NEW capacity \in Nat, NEW initial \in Nat
  PROVE  Grown(count, capacity, initial) \in Nat
  BY DEF Grown

LEMMA InsertType ==
  ASSUME TypeOK, NEW r \in Region, InsertRegion(r)
  PROVE  regions' \in Seq(Region) /\ region_capacity' \in Nat
  <1>. DEFINE i == FindInsertionIndex(regions, r.base)
  <1>0. regions \in Seq(Region) /\ r.base \in Pages /\ Len(regions) \in Nat
    BY LenProperties DEF TypeOK, Region
  <1>1. i \in 1..Len(regions)+1
    BY <1>0, InsertionIndexType
  <1>. HIDE DEF i
  <1>2. \A k \in 1..Len(regions) : regions[k] \in Region
    BY <1>0, ElementOfSeq
  <1>3. SubSeq(regions, 1, i-1) \in Seq(Region)
    BY <1>0, <1>1, <1>2, SubSeqProperties
  <1>4. SubSeq(regions, i, Len(regions)) \in Seq(Region)
    BY <1>0, <1>1, <1>2, SubSeqProperties
  <1>5. <<r>> \in Seq(Region)
    OBVIOUS
  <1>6. regions' \in Seq(Region)
    BY <1>3, <1>4, <1>5, ConcatProperties DEF InsertRegion, i
  <1>7. region_capacity' \in Nat
    <2>1. region_capacity \in Nat /\ Len(regions) + 1 \in Int
      BY <1>0 DEF TypeOK
    <2>. QED
      BY <2>1, SizesAssumption, GrownType DEF InsertRegion
  <1>. QED
    BY <1>6, <1>7

LEMMA RangeStepType ==
  ASSUME TypeOK, RangeStep
  PROVE  TypeOK'
  <1>. DEFINE i == WalkRegion
              r == regions[i]
              segs == Segments(r)
              need == IF r.external THEN {} ELSE DOMAIN segs
              S == [base : r.base..NPages-1, size : 1..NPages,
                    perms : SUBSET Rights, user : BOOLEAN]
  <1>0. /\ regions \in Seq(Region) /\ Len(regions) \in Nat
        /\ op.pc = "walk" /\ op.current \in Pages /\ op.current < op.end
    BY LenProperties DEF TypeOK, RangeStep
  <1>1. /\ i \in 1..Len(regions)
        /\ r \in Region /\ r.base <= op.current /\ op.current < RegionEnd(r)
    <2>1. i # 0 /\ i = FindRegionIndex(regions, op.current)
      BY DEF RangeStep, WalkRegion
    <2>2. i \in 0..Len(regions) /\ r \in Region /\ r.base <= op.current /\ op.current < RegionEnd(r)
      <3>. HIDE DEF i
      <3>. QED BY <1>0, <2>1, RegionIndexType
    <2>. QED
      BY <1>0, <2>1, <2>2
  <1>2. /\ ChunkEnd(r) \in Pages /\ op.current < ChunkEnd(r) /\ ChunkEnd(r) <= op.end
        /\ segs \in Seq(S)
    BY <1>0, <1>1, SegmentsType
  <1>3. PICK bufs \in [need -> BufIds \ DOMAIN heap] :
          /\ DOMAIN heap' = (DOMAIN heap \ (IF r.external THEN {} ELSE {r.data.buf}))
                            \cup {bufs[k] : k \in need}
          /\ regions' = SubSeq(regions, 1, i-1)
                        \o [k \in DOMAIN segs |->
                              BuildRegionSegment(r, segs[k], IF r.external THEN Host ELSE bufs[k])]
                        \o SubSeq(regions, i+1, Len(regions))
    BY DEF RangeStep
  <1>4. regions' \in Seq(Region)
    <2>. DEFINE new(k) == BuildRegionSegment(r, segs[k], IF r.external THEN Host ELSE bufs[k])
                n == Len(segs)
    <2>1. n \in Nat /\ DOMAIN segs = 1..n
      BY <1>2, LenProperties
    <2>2. ASSUME NEW k \in 1..n
          PROVE  new(k) \in Region
      <3>1. segs[k] \in S
        BY <1>2, ElementOfSeq
      <3>2. /\ segs[k].base \in Pages /\ r.base <= segs[k].base /\ segs[k].size \in 1..NPages
            /\ segs[k].perms \in SUBSET Rights /\ segs[k].user \in BOOLEAN
        BY <1>1, <3>1, SizesAssumption DEF Region, Pages
      <3>3. SegmentOffset(r, segs[k]) \in Nat
        <4>1. /\ r.data.off \in Nat /\ r.base \in Nat /\ segs[k].base \in Nat
              /\ PageSize \in Nat /\ r.base <= segs[k].base
          BY <1>1, <3>2, SizesAssumption DEF Region, Ptr, Pages
        <4>. HIDE DEF r, segs
        <4>. QED
          BY <4>1, OffsetNat DEF SegmentOffset
      <3>4. r.external \in BOOLEAN /\ (r.external => r.data.buf = Host)
        BY <1>1 DEF Region, Ptr
      <3>5. ~r.external => bufs[k] \in BufIds /\ bufs[k] # Host
        BY <1>3, <2>1, <2>2, InputsAssumption
      <3>. HIDE DEF r, segs, need
      <3>. QED
        BY <3>2, <3>3, <3>4, <3>5 DEF BuildRegionSegment, Region, Ptr
    <2>3. [k \in 1..n |-> new(k)] \in Seq(Region)
      <3>. HIDE DEF new, n
      <3>. QED BY <2>1, <2>2
    <2>4. \A k \in 1..Len(regions) : regions[k] \in Region
      BY <1>0, ElementOfSeq
    <2>5. SubSeq(regions, 1, i-1) \in Seq(Region)
      <3>. HIDE DEF i
      <3>. QED BY <1>0, <1>1, <2>4, SubSeqProperties
    <2>6. SubSeq(regions, i+1, Len(regions)) \in Seq(Region)
      <3>. HIDE DEF i
      <3>. QED BY <1>0, <1>1, <2>4, SubSeqProperties
    <2>7. regions' = SubSeq(regions, 1, i-1) \o [k \in 1..n |-> new(k)]
                       \o SubSeq(regions, i+1, Len(regions))
      BY <1>3, <2>1
    <2>. HIDE DEF i, r, segs, need, new, n
    <2>. QED
      BY <2>3, <2>5, <2>6, <2>7, ConcatProperties
  <1>5. region_capacity' \in Nat
    <2>1. Len(segs) \in Nat
      BY <1>2, LenProperties
    <2>2. region_capacity' = Grown(Len(regions) - 1 + Len(segs), region_capacity, InitialRegionCapacity)
      BY DEF RangeStep
    <2>3. region_capacity \in Nat
      BY DEF TypeOK
    <2>. HIDE DEF segs, r
    <2>. QED
      BY <1>0, <2>1, <2>2, <2>3, SizesAssumption, GrownType
  <1>6. DOMAIN heap' \subseteq BufIds \cup {Host} /\ Host \in DOMAIN heap'
    <2>1. DOMAIN heap \subseteq BufIds \cup {Host} /\ Host \in DOMAIN heap
      BY DEF TypeOK
    <2>. QED
      <3>1. ~r.external => r.data.buf # Host
        BY <1>1 DEF Region
      <3>2. \A k \in need : bufs[k] \in BufIds
        BY <1>3
      <3>. HIDE DEF r, need
      <3>. QED BY <1>3, <2>1, <3>1, <3>2
  <1>7. /\ page_cache' \in [Slots -> CacheEntry \cup {NoEntry}]
        /\ code_version' \in 0..VersionMod-1 /\ code_version' # 0
    BY InvalidateType DEF RangeStep
  <1>8. /\ op'.pc \in {"idle", "walk", "closed"}
        /\ op'.pc = "walk" => /\ op'.kind \in RangeKinds
                              /\ op'.first \in Pages /\ op'.current \in Pages /\ op'.end \in Pages
                              /\ \/ op'.first <= op'.current /\ op'.current < op'.end
                                 \/ op'.current = op'.first /\ op'.end = 0
                              /\ op'.kind = "protect" => op'.arg \in SUBSET Rights
                              /\ op'.kind = "attrs" => op'.arg \in BOOLEAN
    <2>1. op' = IF ChunkEnd(r) < op.end
                THEN Walk(op.kind, op.first, ChunkEnd(r), op.end, op.arg, op.before)
                ELSE Idle(TRUE)
      BY DEF RangeStep
    <2>2. /\ op.kind \in RangeKinds
          /\ op.first \in Pages /\ op.current \in Pages /\ op.end \in Pages
          /\ op.first <= op.current /\ op.current < op.end
          /\ op.kind = "protect" => op.arg \in SUBSET Rights
          /\ op.kind = "attrs" => op.arg \in BOOLEAN
      <3>1. /\ op.first \in Pages /\ op.current \in Pages /\ op.end \in Pages
            /\ \/ op.first <= op.current /\ op.current < op.end
               \/ op.current = op.first /\ op.end = 0
        BY <1>0 DEF TypeOK
      <3>2. op.first <= op.current
        BY <3>1 DEF Pages
      <3>. QED
        BY <1>0, <3>2 DEF TypeOK
    <2>3. op.first \in Int /\ op.current \in Int /\ op.end \in Int /\ ChunkEnd(r) \in Int
      BY <1>2, <2>2 DEF Pages
    <2>. HIDE DEF r
    <2>. QED
      BY <1>2, <2>1, <2>2, <2>3 DEF Walk, Idle
  <1>9. UNCHANGED <<patches, patch_capacity, patch_bounds, next_patch_handle, passthrough>>
    BY DEF RangeStep, UnchangedPatches
  <1>. QED
    BY <1>0, <1>4, <1>5, <1>6, <1>7, <1>8, <1>9 DEF TypeOK


LEMMA DelPatchType ==
  ASSUME TypeOK, NEW i \in DOMAIN patches, DelPatch(i)
  PROVE  TypeOK'
  <1>0. patches \in Seq(Patch) /\ Len(patches) \in Nat /\ i \in 1..Len(patches)
    BY LenProperties DEF TypeOK
  <1>1. \A k \in 1..Len(patches) : patches[k] \in Patch
    BY <1>0, ElementOfSeq
  <1>2. SubSeq(patches, 1, i-1) \in Seq(Patch)
    BY <1>0, <1>1, SubSeqProperties
  <1>3. SubSeq(patches, i+1, Len(patches)) \in Seq(Patch)
    BY <1>0, <1>1, SubSeqProperties
  <1>4. patches' \in Seq(Patch)
    BY <1>2, <1>3, ConcatProperties DEF DelPatch
  <1>5. patch_bounds' \in [min : Addrs, max : Addrs]
    BY <1>4, RebuiltBoundsType DEF DelPatch
  <1>6. DOMAIN heap' \subseteq BufIds \cup {Host} /\ Host \in DOMAIN heap'
    <2>1. patches[i].data \in BufIds
      BY <1>0, <1>1 DEF Patch
    <2>. QED
      BY <2>1, InputsAssumption DEF TypeOK, DelPatch
  <1>7. code_version' \in 0..VersionMod-1 /\ code_version' # 0
    BY BumpType DEF TypeOK, DelPatch
  <1>. QED
    BY <1>4, <1>5, <1>6, <1>7 DEF TypeOK, DelPatch

LEMMA AddPatchType ==
  ASSUME TypeOK, NEW q \in PatchRanges, NEW v, AddPatch(q[1], q[2], v)
  PROVE  TypeOK'
  <1>. DEFINE N == NPages * PageSize
  <1>0. N \in Nat \ {0} /\ Addrs = 0..N-1
    BY AddrsType DEF Addrs
  <1>1. q[1] \in 0..N-1 /\ q[2] \in 1..N
    BY InputsAssumption
  <1>2. (q[1] + q[2] - 1) % N >= q[1]
    BY DEF AddPatch
  <1>. HIDE DEF N
  <1>3. q[1] + q[2] - 1 \in 0..N-1
    BY <1>0, <1>1, <1>2, NoWrap
  <1>4. PICK b \in BufIds \ DOMAIN heap :
          /\ DOMAIN heap' = DOMAIN heap \cup {b}
          /\ patches' = Append(patches, [handle |-> next_patch_handle, address |-> q[1],
                                         size |-> q[2], data |-> b])
    BY DEF AddPatch
  <1>5. next_patch_handle \in Nat \ {0}
    BY DEF AddPatch, TypeOK
  <1>6. patches' \in Seq(Patch)
    <2>1. [handle |-> next_patch_handle, address |-> q[1], size |-> q[2], data |-> b] \in Patch
      BY <1>0, <1>1, <1>3, <1>4, <1>5 DEF Patch, N
    <2>2. patches \in Seq(Patch)
      BY DEF TypeOK
    <2>. QED
      BY <1>4, <2>1, <2>2
  <1>7. patch_bounds' \in [min : Addrs, max : Addrs]
    <2>1. patch_bounds.min \in Addrs /\ patch_bounds.max \in Addrs
      BY DEF TypeOK
    <2>. QED
      BY <1>0, <1>1, <1>3, <2>1 DEF AddPatch
  <1>8. patch_capacity' \in Nat
    <2>1. Len(patches) + 1 \in Int
      BY LenProperties DEF TypeOK
    <2>. QED
      BY <2>1, SizesAssumption, GrownType DEF AddPatch, TypeOK
  <1>9. code_version' \in 0..VersionMod-1 /\ code_version' # 0
    BY BumpType DEF TypeOK, AddPatch
  <1>. QED
    BY <1>4, <1>5, <1>6, <1>7, <1>8, <1>9 DEF TypeOK, AddPatch

LEMMA MapType ==
  ASSUME TypeOK, NEW p \in MapPages, NEW n \in MapSizes, NEW perms \in PermChoices
  PROVE  /\ MapInternal(p, n, perms) => TypeOK'
         /\ \A h \in HostPtrs : MapHost(p, n, perms, h) => TypeOK'
  <1>0. p \in Pages /\ n \in 1..NPages /\ perms \in SUBSET Rights
    BY InputsAssumption DEF Pages
  <1>1. ASSUME MapInternal(p, n, perms) PROVE TypeOK'
    <2>1. PICK b \in BufIds \ DOMAIN heap :
            /\ DOMAIN heap' = DOMAIN heap \cup {b}
            /\ InsertRegion([base |-> p, size |-> n, data |-> [buf |-> b, off |-> 0],
                             perms |-> perms, user |-> TRUE, external |-> FALSE])
      BY <1>1 DEF MapInternal
    <2>2. [base |-> p, size |-> n, data |-> [buf |-> b, off |-> 0],
           perms |-> perms, user |-> TRUE, external |-> FALSE] \in Region
      BY <1>0, <2>1, InputsAssumption DEF Region, Ptr
    <2>3. regions' \in Seq(Region) /\ region_capacity' \in Nat
      BY <2>1, <2>2, InsertType
    <2>4. /\ page_cache' \in [Slots -> CacheEntry \cup {NoEntry}]
          /\ code_version' \in 0..VersionMod-1 /\ code_version' # 0
      BY <1>1, InvalidateType DEF MapInternal
    <2>. QED
      BY <1>1, <2>1, <2>3, <2>4 DEF TypeOK, MapInternal, CanMap, UnchangedPatches, Idle
  <1>2. ASSUME NEW h \in HostPtrs, MapHost(p, n, perms, h) PROVE TypeOK'
    <2>1. h * PageSize \in Nat
      <3>1. h \in Nat /\ PageSize \in Nat
        BY InputsAssumption, SizesAssumption
      <3>. QED
        BY <3>1, TimesNat
    <2>2. [base |-> p, size |-> n, data |-> [buf |-> Host, off |-> h * PageSize],
           perms |-> perms, user |-> TRUE, external |-> TRUE] \in Region
      BY <1>0, <2>1 DEF Region, Ptr
    <2>3. regions' \in Seq(Region) /\ region_capacity' \in Nat
      BY <1>2, <2>2, InsertType DEF MapHost
    <2>4. /\ page_cache' \in [Slots -> CacheEntry \cup {NoEntry}]
          /\ code_version' \in 0..VersionMod-1 /\ code_version' # 0
      BY <1>2, InvalidateType DEF MapHost
    <2>. QED
      BY <1>2, <2>3, <2>4 DEF TypeOK, MapHost, CanMap, UnchangedPatches, Idle
  <1>. QED
    BY <1>1, <1>2

LEMMA BeginRangeType ==
  ASSUME TypeOK, NEW kind \in RangeKinds, NEW p \in MapPages, NEW n \in MapSizes, NEW arg,
         kind = "protect" => arg \in SUBSET Rights,
         kind = "attrs" => arg \in BOOLEAN,
         BeginRange(kind, p, n, arg)
  PROVE  TypeOK'
  <1>0. NPages \in Nat \ {0} /\ p \in 0..NPages-1 /\ n \in 1..NPages
    BY InputsAssumption, SizesAssumption
  <1>1. (p + n) % NPages \in 0..NPages-1
    BY <1>0, ModType
  <1>2. op' = Walk(kind, p, p, (p + n) % NPages, arg, [q \in Pages |-> PageView(regions, heap, q)])
    BY DEF BeginRange
  <1>4. p < (p + n) % NPages \/ (p + n) % NPages = 0
    <2>1. (p + n - 1) % NPages >= p
      <3>1. p + n - 1 \in Int
        BY <1>0
      <3>2. (p + n - 1) % NPages \in 0..NPages-1
        BY <1>0, <3>1, ModType
      <3>3. ~((p + n - 1) % NPages < p)
        BY DEF BeginRange, CheckRangeMapped, RangeOverflows
      <3>. QED
        BY <1>0, <3>2, <3>3
    <2>2. CASE p + n < NPages
      BY <1>0, <2>2
    <2>3. CASE p + n = NPages
      BY <1>0, <2>3
    <2>4. CASE p + n > NPages
      <3>1. (p + n - 1) % NPages = p + n - 1 - NPages
        BY <1>0, <2>4
      <3>. QED
        BY <1>0, <2>1, <3>1
    <2>. QED
      BY <1>0, <2>2, <2>3, <2>4
  <1>3. /\ op'.pc \in {"idle", "walk", "closed"}
        /\ op'.pc = "walk" => /\ op'.kind \in RangeKinds
                              /\ op'.first \in Pages /\ op'.current \in Pages /\ op'.end \in Pages
                              /\ \/ op'.first <= op'.current /\ op'.current < op'.end
                                 \/ op'.current = op'.first /\ op'.end = 0
                              /\ op'.kind = "protect" => op'.arg \in SUBSET Rights
                              /\ op'.kind = "attrs" => op'.arg \in BOOLEAN
    <2>. DEFINE e == (p + n) % NPages
    <2>1. /\ op'.pc = "walk" /\ op'.kind = kind /\ op'.first = p /\ op'.current = p
          /\ op'.end = e /\ op'.arg = arg
      BY <1>2 DEF Walk
    <2>2. e \in Pages /\ p \in Pages /\ p <= p
      BY <1>0, <1>1 DEF Pages
    <2>. HIDE DEF e
    <2>3. p < e \/ e = 0
      BY <1>4 DEF e
    <2>. QED
      BY <2>1, <2>2, <2>3
  <1>. QED
    BY <1>3 DEF TypeOK, BeginRange, UnchangedPatches

(* Type correctness: whatever is mapped, split, patched, cached or torn    *)
(* down, the structures of MEMORY_MANAGER hold values of their types.      *)
THEOREM TypeCorrect == Spec => []TypeOK
  <1>1. Init => TypeOK
    <2>1. <<>> \in Seq(Region) /\ <<>> \in Seq(Patch)
      OBVIOUS
    <2>2. 0 \in Addrs
      BY AddrsType DEF Addrs
    <2>. QED
      BY <2>1, <2>2, EmptyCacheType, SizesAssumption DEF Init, TypeOK, Idle
  <1>2. TypeOK /\ [Next]_vars => TypeOK'
    <2>. SUFFICES ASSUME TypeOK, [Next]_vars PROVE TypeOK'
      OBVIOUS
    <2>1. ASSUME NEW p \in MapPages, NEW n \in MapSizes, NEW perms \in PermChoices,
                 MapInternal(p, n, perms)
          PROVE  TypeOK'
      BY <2>1, MapType
    <2>2. ASSUME NEW p \in MapPages, NEW n \in MapSizes, NEW perms \in PermChoices,
                 NEW h \in HostPtrs, MapHost(p, n, perms, h)
          PROVE  TypeOK'
      BY <2>2, MapType
    <2>3. ASSUME NEW perms \in PassChoices, SetHostPassthrough(perms)
          PROVE  TypeOK'
      <3>1. /\ page_cache' \in [Slots -> CacheEntry \cup {NoEntry}]
            /\ code_version' \in 0..VersionMod-1 /\ code_version' # 0
        BY <2>3, InvalidateType DEF SetHostPassthrough
      <3>. QED
        BY <2>3, <3>1, InputsAssumption DEF TypeOK, SetHostPassthrough, UnchangedPatches
    <2>4. ASSUME NEW p \in MapPages, NEW n \in MapSizes, BeginRange("unmap", p, n, TRUE)
          PROVE  TypeOK'
      BY <2>4, BeginRangeType DEF RangeKinds
    <2>5. ASSUME NEW p \in MapPages, NEW n \in MapSizes, NEW perms \in PermChoices,
                 BeginRange("protect", p, n, perms)
          PROVE  TypeOK'
      BY <2>5, BeginRangeType, InputsAssumption DEF RangeKinds
    <2>6. ASSUME NEW p \in MapPages, NEW n \in MapSizes, NEW user \in UserChoices,
                 BeginRange("attrs", p, n, user)
          PROVE  TypeOK'
      BY <2>6, BeginRangeType, InputsAssumption DEF RangeKinds
    <2>7. CASE RangeStep
      BY <2>7, RangeStepType
    <2>8. CASE RangeFail
      BY <2>8 DEF TypeOK, RangeFail, UnchangedPatches, Idle
    <2>16. CASE RangeEmpty
      BY <2>16 DEF TypeOK, RangeEmpty, UnchangedPatches, Idle
    <2>9. ASSUME NEW q \in PatchRanges, NEW v \in StoreVals, AddPatch(q[1], q[2], v)
          PROVE  TypeOK'
      BY <2>9, AddPatchType
    <2>10. ASSUME NEW i \in DOMAIN patches, DelPatch(i)
           PROVE  TypeOK'
      BY <2>10, DelPatchType
    <2>11. ASSUME NEW p \in AccessPages, Access(p)
           PROVE  TypeOK'
      <3>1. p \in Pages
        BY InputsAssumption DEF Pages
      <3>. QED
        BY <2>11, <3>1, QueryFillType DEF TypeOK, Access, UnchangedPatches
    <2>12. ASSUME NEW a \in StoreAddrs, NEW v \in StoreVals, WriteByte(a, v)
           PROVE  TypeOK'
      <3>1. PageOf(a) \in Pages
        BY InputsAssumption, PageOfType DEF Addrs
      <3>2. DOMAIN heap' = DOMAIN heap
        BY <2>12 DEF WriteByte
      <3>. QED
        BY <2>12, <3>1, <3>2, QueryFillType DEF TypeOK, WriteByte, UnchangedPatches
    <2>13. CASE Destroy
      <3>1. <<>> \in Seq(Region) /\ <<>> \in Seq(Patch)
        OBVIOUS
      <3>2. 0 \in Addrs
        BY AddrsType DEF Addrs
      <3>3. \A i \in DOMAIN regions : regions[i] \in Region
        BY LenProperties, ElementOfSeq DEF TypeOK
      <3>4. \A i \in DOMAIN patches : patches[i].data \in BufIds
        BY LenProperties, ElementOfSeq DEF TypeOK, Patch
      <3>5. \A i \in DOMAIN regions : ~regions[i].external => regions[i].data.buf # Host
        BY <3>3 DEF Region
      <3>6. DOMAIN heap' \subseteq BufIds \cup {Host} /\ Host \in DOMAIN heap'
        BY <2>13, <3>4, <3>5, InputsAssumption DEF Destroy, TypeOK
      <3>. QED
        BY <2>13, <3>1, <3>2, <3>6, EmptyCacheType, SizesAssumption DEF TypeOK, Destroy, Closed
    <2>14. CASE Reopen
      BY <2>14, SizesAssumption DEF TypeOK, Reopen, Idle
    <2>15. CASE UNCHANGED vars
      BY <2>15 DEF TypeOK, vars
    <2>. QED
      BY <2>1, <2>2, <2>3, <2>4, <2>5, <2>6, <2>7, <2>8, <2>9, <2>10, <2>11, <2>12,
         <2>13, <2>14, <2>15, <2>16 DEF Next
  <1>. QED
    BY <1>1, <1>2, PTL DEF Spec


(* Emptying the cache and filling one slot both leave it coherent.         *)

LEMMA EmptyIsCoherent ==
  ASSUME page_cache = EmptyCache
  PROVE  PageCacheCoherent
  BY DEF EmptyCache, PageCacheCoherent, NoEntry

LEMMA EmptyIsCoherentNext ==
  ASSUME page_cache' = EmptyCache
  PROVE  PageCacheCoherent'
  BY DEF EmptyCache, PageCacheCoherent, NoEntry

LEMMA FillIsCoherent ==
  ASSUME TypeOK, PageCacheCoherent, NEW p \in Pages, page_cache' = QueryFill(p),
         UNCHANGED <<regions, passthrough>>
  PROVE  PageCacheCoherent'
  <1>0. page_cache \in [Slots -> CacheEntry \cup {NoEntry}] /\ CacheSlot(p) \in Slots
    BY SlotType DEF TypeOK
  <1>1. CASE page_cache' = page_cache
    BY <1>1 DEF PageCacheCoherent
  <1>2. CASE /\ page_cache' = [page_cache EXCEPT ![CacheSlot(p)] = LookupPage(regions, passthrough, p)]
             /\ LookupPage(regions, passthrough, p).valid
    <2>1. LookupPage(regions, passthrough, p).page = p
      BY <1>2, LookupType DEF TypeOK
    <2>2. page_cache'[CacheSlot(p)] = LookupPage(regions, passthrough, p)
      BY <1>0, <1>2
    <2>3. \A s \in Slots : s # CacheSlot(p) => page_cache'[s] = page_cache[s]
      BY <1>0, <1>2
    <2>4. ASSUME NEW s \in Slots, page_cache'[s].valid
          PROVE  /\ CacheSlot(page_cache'[s].page) = s
                 /\ page_cache'[s] = LookupPage(regions, passthrough, page_cache'[s].page)
      <3>1. CASE s = CacheSlot(p)
        BY <2>1, <2>2, <3>1
      <3>2. CASE s # CacheSlot(p)
        BY <2>3, <2>4, <3>2 DEF PageCacheCoherent
      <3>. QED
        BY <3>1, <3>2
    <2>5. regions' = regions /\ passthrough' = passthrough
      OBVIOUS
    <2>. QED
      BY <2>4, <2>5 DEF PageCacheCoherent
  <1>. QED
    BY <1>1, <1>2, QueryFillCases

(* Page cache coherence: an entry of the page cache always says what the   *)
(* regions and the passthrough say now, so no access can go through a      *)
(* pointer to a freed block or under permissions that were taken away.     *)
THEOREM CacheCoherence == Spec => []PageCacheCoherent
  <1>1. Init => PageCacheCoherent
    BY EmptyIsCoherent DEF Init
  <1>2. TypeOK /\ PageCacheCoherent /\ [Next]_vars => PageCacheCoherent'
    <2>. SUFFICES ASSUME TypeOK, PageCacheCoherent, [Next]_vars PROVE PageCacheCoherent'
      OBVIOUS
    <2>1. CASE page_cache' = EmptyCache
      BY <2>1, EmptyIsCoherentNext
    <2>2. CASE UNCHANGED <<regions, passthrough, page_cache>>
      BY <2>2 DEF PageCacheCoherent
    <2>3. ASSUME NEW p \in AccessPages, Access(p)
          PROVE  PageCacheCoherent'
      <3>1. p \in Pages
        BY InputsAssumption DEF Pages
      <3>. QED
        BY <2>3, <3>1, FillIsCoherent DEF Access
    <2>4. ASSUME NEW a \in StoreAddrs, NEW v \in StoreVals, WriteByte(a, v)
          PROVE  PageCacheCoherent'
      <3>1. PageOf(a) \in Pages
        BY InputsAssumption, PageOfType DEF Addrs
      <3>. QED
        BY <2>4, <3>1, FillIsCoherent DEF WriteByte
    <2>5. CASE UNCHANGED vars
      BY <2>5, <2>2 DEF vars
    <2>. QED
      BY <2>1, <2>2, <2>3, <2>4, <2>5
      DEF Next, MapInternal, MapHost, SetHostPassthrough, BeginRange, RangeEmpty, RangeStep, RangeFail,
          AddPatch, DelPatch, Destroy, Reopen, InvalidateCache
  <1>. QED
    BY <1>1, <1>2, TypeCorrect, PTL DEF Spec

(* Version tracking: every step that changes the regions, the passthrough  *)
(* or the patches moves code_version, also across its wrap and teardown.   *)
THEOREM VersionTracking == Spec => VersionTracksView
  <1>1. TypeOK /\ [Next]_vars => [ExecView' # ExecView => code_version' # code_version]_vars
    <2>. SUFFICES ASSUME TypeOK, Next, ExecView' # ExecView
                  PROVE  code_version' # code_version
      OBVIOUS
    <2>1. CASE InvalidateCache
      BY <2>1, InvalidateType
    <2>2. CASE code_version' = BumpedVersion(code_version)
      BY <2>2, BumpType DEF TypeOK
    <2>3. CASE Destroy
      BY <2>3 DEF Destroy, TypeOK
    <2>4. CASE UNCHANGED <<regions, passthrough, patches>>
      BY <2>4 DEF ExecView
    <2>. QED
      BY <2>1, <2>2, <2>3, <2>4
      DEF Next, MapInternal, MapHost, SetHostPassthrough, BeginRange, RangeEmpty, RangeStep, RangeFail,
          AddPatch, DelPatch, Access, WriteByte, Reopen, UnchangedPatches
  <1>. QED
    BY <1>1, TypeCorrect, PTL DEF Spec, VersionTracksView

-----------------------------------------------------------------------------
(***************************************************************************)
(* How MemoryManager lays memory out, for every size of the address space  *)
(* and every sequence of calls: the patches stay apart and within the      *)
(* bounds kept beside them, the region array stays sorted enough for the   *)
(* two binary searches, and every heap block has exactly one owner.        *)
(***************************************************************************)

-----------------------------------------------------------------------------
(* Sequences                                                               *)

\* Replacing the entries from i to j-1 of an array by the sequence t, as memmove and
\* memcpy do it.
Splice(s, i, j, t) == SubSeq(s, 1, i-1) \o t \o SubSeq(s, j, Len(s))

\* Where an entry of the new array comes from.
FromSplice(s, i, j, t, k) ==
  IF k < i THEN s[k] ELSE IF k < i + Len(t) THEN t[k - i + 1] ELSE s[k - Len(t) - i + j]

LEMMA SpliceEntries ==
  ASSUME NEW S, NEW s \in Seq(S), NEW t \in Seq(S),
         NEW i \in 1..Len(s)+1, NEW j \in i..Len(s)+1
  PROVE  /\ Splice(s, i, j, t) \in Seq(S)
         /\ Len(Splice(s, i, j, t)) = Len(s) + Len(t) - (j - i)
         /\ \A k \in 1..Len(Splice(s, i, j, t)) :
              Splice(s, i, j, t)[k] = FromSplice(s, i, j, t, k)
<1> DEFINE a == SubSeq(s, 1, i-1)
           b == SubSeq(s, j, Len(s))
<1>0. Len(s) \in Nat /\ Len(t) \in Nat /\ i \in Nat /\ j \in Nat /\ i <= j /\ 1 <= i /\ j <= Len(s) + 1
  BY LenProperties
<1>1. \A k \in 1..Len(s) : s[k] \in S
  BY ElementOfSeq
<1>2. /\ a \in Seq(S) /\ Len(a) = i - 1
      /\ \A k \in 1..i-1 : a[k] = s[k]
  <2>1. \A k \in 1..i-1 : s[k] \in S
    BY <1>0, <1>1
  <2>2. /\ a \in Seq(S) /\ Len(a) = (IF 1 <= i-1 THEN (i-1)-1+1 ELSE 0)
        /\ \A k \in 1..(i-1)-1+1 : a[k] = s[1+k-1]
    BY <1>0, <2>1, SubSeqProperties
  <2> QED
    BY <1>0, <2>2
<1>3. /\ b \in Seq(S) /\ Len(b) = Len(s) - j + 1
      /\ \A k \in 1..Len(s)-j+1 : b[k] = s[j+k-1]
  <2>1. \A k \in j..Len(s) : s[k] \in S
    BY <1>0, <1>1
  <2>2. /\ b \in Seq(S) /\ Len(b) = (IF j <= Len(s) THEN Len(s)-j+1 ELSE 0)
        /\ \A k \in 1..Len(s)-j+1 : b[k] = s[j+k-1]
    BY <1>0, <2>1, SubSeqProperties
  <2> QED
    BY <1>0, <2>2
<1> HIDE DEF a, b
<1> DEFINE c == a \o t
           d == c \o b
<1>4. /\ c \in Seq(S) /\ Len(c) = Len(a) + Len(t)
      /\ \A k \in 1..Len(a) + Len(t) : c[k] = IF k <= Len(a) THEN a[k] ELSE t[k - Len(a)]
  <2>1. a \in Seq(S)
    BY <1>2
  <2> QED
    BY <2>1, ConcatProperties
<1> HIDE DEF c
<1>5. /\ d \in Seq(S) /\ Len(d) = Len(c) + Len(b)
      /\ \A k \in 1..Len(c) + Len(b) : d[k] = IF k <= Len(c) THEN c[k] ELSE b[k - Len(c)]
  <2>1. c \in Seq(S) /\ b \in Seq(S)
    BY <1>3, <1>4
  <2> QED
    BY <2>1, ConcatProperties
<1>6. Splice(s, i, j, t) = d
  BY DEF Splice, a, b, c
<1> HIDE DEF d
<1>l. /\ Len(a) = i - 1 /\ Len(c) = i - 1 + Len(t) /\ Len(b) = Len(s) - j + 1
      /\ Len(d) = Len(s) + Len(t) - (j - i)
  BY <1>0, <1>2, <1>3, <1>4, <1>5
<1>7. ASSUME NEW k \in 1..Len(d)
      PROVE  d[k] = FromSplice(s, i, j, t, k)
  <2>0. k \in Nat /\ 1 <= k /\ k <= Len(s) + Len(t) - (j - i) /\ k \in 1..Len(c) + Len(b)
    BY <1>0, <1>l
  <2>a. d[k] = IF k <= Len(c) THEN c[k] ELSE b[k - Len(c)]
    BY <1>5, <2>0
  <2>1. CASE k < i
    <3>1. k \in 1..i-1 /\ k \in 1..Len(a) + Len(t) /\ k <= Len(c) /\ k <= Len(a)
      BY <1>0, <1>l, <2>0, <2>1
    <3> QED
      BY <1>2, <1>4, <2>a, <2>1, <3>1 DEF FromSplice
  <2>2. CASE k >= i /\ k < i + Len(t)
    <3>1. /\ k \in 1..Len(a) + Len(t) /\ k <= Len(c) /\ ~(k <= Len(a)) /\ ~(k < i)
          /\ k - Len(a) = k - i + 1
      BY <1>0, <1>l, <2>0, <2>2
    <3> QED
      BY <1>4, <2>a, <2>2, <3>1 DEF FromSplice
  <2>3. CASE k >= i + Len(t)
    <3> DEFINE m == k - Len(c)
    <3>1. /\ m \in 1..Len(s)-j+1 /\ j + m - 1 = k - Len(t) - i + j
          /\ ~(k <= Len(c)) /\ ~(k < i) /\ ~(k < i + Len(t))
      BY <1>0, <1>l, <2>0, <2>3
    <3>2. d[k] = b[m]
      BY <2>a, <3>1
    <3> HIDE DEF m
    <3>3. b[m] = s[k - Len(t) - i + j]
      BY <1>3, <3>1
    <3> QED
      BY <3>1, <3>2, <3>3 DEF FromSplice
  <2> QED
    BY <1>0, <2>0, <2>1, <2>2, <2>3
<1> QED
  BY <1>5, <1>6, <1>7, <1>l

LEMMA RemovedEntries ==
  ASSUME NEW S, NEW s \in Seq(S), NEW i \in 1..Len(s)
  PROVE  LET t == SubSeq(s, 1, i-1) \o SubSeq(s, i+1, Len(s))
         IN  /\ t \in Seq(S) /\ Len(t) = Len(s) - 1
             /\ \A k \in 1..Len(t) : t[k] = s[IF k < i THEN k ELSE k + 1]
<1> DEFINE a == SubSeq(s, 1, i-1)
           t == SubSeq(s, 1, i-1) \o SubSeq(s, i+1, Len(s))
           e == <<>>
<1>0. Len(s) \in Nat /\ i \in Nat /\ i \in 1..Len(s)+1 /\ i + 1 \in i..Len(s)+1
  BY LenProperties
<1>1. a \in Seq(S)
  <2>1. \A k \in 1..i-1 : s[k] \in S
    BY <1>0, ElementOfSeq
  <2> QED
    BY <1>0, <2>1, SubSeqProperties
<1>2. Splice(s, i, i+1, e) = t
  <2>1. a \o e = a
    BY <1>1, ConcatEmptySeq
  <2> QED
    BY <2>1 DEF Splice
<1>3. e \in Seq(S) /\ Len(e) = 0
  OBVIOUS
<1> HIDE DEF e
<1>4. /\ Splice(s, i, i+1, e) \in Seq(S)
      /\ Len(Splice(s, i, i+1, e)) = Len(s) + Len(e) - ((i+1) - i)
      /\ \A k \in 1..Len(Splice(s, i, i+1, e)) :
           Splice(s, i, i+1, e)[k] = FromSplice(s, i, i+1, e, k)
  <2> DEFINE j == i + 1
  <2>1. j \in i..Len(s)+1 /\ i \in 1..Len(s)+1 /\ e \in Seq(S)
    BY <1>0, <1>3
  <2> HIDE DEF j
  <2>2. /\ Splice(s, i, j, e) \in Seq(S)
        /\ Len(Splice(s, i, j, e)) = Len(s) + Len(e) - (j - i)
        /\ \A k \in 1..Len(Splice(s, i, j, e)) : Splice(s, i, j, e)[k] = FromSplice(s, i, j, e, k)
    BY <2>1, SpliceEntries
  <2> QED
    BY <2>2 DEF j
<1> HIDE DEF t
<1>5. t \in Seq(S) /\ Len(t) = Len(s) - 1
  BY <1>0, <1>2, <1>3, <1>4
<1>6. ASSUME NEW k \in 1..Len(t)
      PROVE  t[k] = s[IF k < i THEN k ELSE k + 1]
  <2>1. k \in Nat /\ k - 0 - i + (i + 1) = k + 1 /\ (k < i + 0 <=> k < i)
    BY <1>0, <1>5
  <2>2. t[k] = FromSplice(s, i, i+1, e, k)
    BY <1>2, <1>4
  <2> QED
    BY <1>3, <2>1, <2>2 DEF FromSplice
<1> QED
  BY <1>5, <1>6 DEF t

-----------------------------------------------------------------------------
(* The patches.                                                            *)

\* No two patches meet.
PatchesApart ==
  \A i, j \in 1..Len(patches) :
    i # j => \/ PatchEnd(patches[i]) < patches[j].address
             \/ PatchEnd(patches[j]) < patches[i].address

\* patch_min_address and patch_max_address enclose every patch.
PatchesBounded ==
  \A i \in 1..Len(patches) : /\ patch_bounds.min <= patches[i].address
                             /\ PatchEnd(patches[i]) <= patch_bounds.max

PatchInv == PatchesApart /\ PatchesBounded

LEMMA PatchNumbers ==
  ASSUME NEW q \in Patch
  PROVE  q.address \in Nat /\ q.size \in Nat /\ PatchEnd(q) \in Nat /\ q.address <= PatchEnd(q)
<1>1. q.address \in Nat /\ q.size \in Nat /\ q.size >= 1
  BY AddrsType DEF Patch, Addrs
<1> QED
  BY <1>1 DEF PatchEnd

\* mm_rebuild_patch_bounds encloses what is left, also when the least address
\* is the last of the address space and 0 is stored instead.
LEMMA RebuiltBoundsHold ==
  ASSUME NEW ps \in Seq(Patch), NEW i \in 1..Len(ps)
  PROVE  RebuiltBounds(ps).min <= ps[i].address /\ PatchEnd(ps[i]) <= RebuiltBounds(ps).max
<1> DEFINE N == NPages * PageSize
           A == {ps[k].address : k \in DOMAIN ps}
           E == {PatchEnd(ps[k]) : k \in DOMAIN ps}
           lo == CHOOSE m \in A : \A k \in DOMAIN ps : m <= ps[k].address
           hi == CHOOSE m \in E : \A k \in DOMAIN ps : PatchEnd(ps[k]) <= m
<1>0. N \in Nat \ {0} /\ Addrs = 0..N-1
  BY AddrsType DEF Addrs
<1>1. DOMAIN ps = 1..Len(ps) /\ i \in DOMAIN ps /\ ps # <<>>
  BY LenProperties, EmptySeq
<1> HIDE DEF N
<1>2. \A k \in DOMAIN ps : ps[k].address \in 0..N-1 /\ PatchEnd(ps[k]) \in 0..N-1
  BY <1>0, <1>1, ElementOfSeq DEF Patch, PatchEnd
<1>3. A # {} /\ A \in SUBSET Nat
  BY <1>0, <1>1, <1>2
<1>4. E # {} /\ E \in SUBSET (0..N-1)
  BY <1>1, <1>2
<1>5. \E m \in A : \A k \in DOMAIN ps : m <= ps[k].address
  <2>1. PICK m \in A : \A y \in A : m <= y
    <3> HIDE DEF A
    <3> QED BY <1>3, LeastExists
  <2> QED BY <2>1
<1>6. \E m \in E : \A k \in DOMAIN ps : PatchEnd(ps[k]) <= m
  <2>1. PICK m \in E : \A y \in E : y <= m
    <3> HIDE DEF E
    <3>1. N - 1 \in Nat
      BY <1>0
    <3> QED BY <3>1, <1>4, GreatestExists
  <2> QED BY <2>1
<1>7. lo \in A /\ lo <= ps[i].address
  BY <1>1, <1>5
<1>8. PatchEnd(ps[i]) <= hi
  BY <1>1, <1>6
<1>9. 0 <= ps[i].address
  BY <1>0, <1>1, <1>2
<1>10. RebuiltBounds(ps) = [min |-> IF lo = NPages*PageSize-1 THEN 0 ELSE lo, max |-> hi]
  BY <1>1 DEF RebuiltBounds
<1> HIDE DEF lo, hi
<1> QED
  BY <1>7, <1>8, <1>9, <1>10

LEMMA AddPatchKeeps ==
  ASSUME TypeOK, PatchInv, NEW q \in PatchRanges, NEW v, AddPatch(q[1], q[2], v)
  PROVE  PatchInv'
<1> DEFINE N == NPages * PageSize
           a == q[1]
           e == q[1] + q[2] - 1
           n == Len(patches)
<1>0. N \in Nat \ {0} /\ Addrs = 0..N-1
  BY AddrsType DEF Addrs
<1>1. a \in 0..N-1 /\ q[2] \in 1..N
  BY InputsAssumption
<1>2. (q[1] + q[2] - 1) % N >= q[1]
  BY DEF AddPatch
<1> HIDE DEF N
<1>3. e \in 0..N-1 /\ a <= e
  BY <1>0, <1>1, <1>2, NoWrap
<1>4. PICK b \in BufIds \ DOMAIN heap :
        patches' = Append(patches, [handle |-> next_patch_handle, address |-> q[1],
                                    size |-> q[2], data |-> b])
  BY DEF AddPatch
<1> DEFINE new == [handle |-> next_patch_handle, address |-> q[1], size |-> q[2], data |-> b]
<1>5. patches \in Seq(Patch) /\ n \in Nat /\ DOMAIN patches = 1..n
  BY LenProperties DEF TypeOK
<1>6. new \in Patch /\ new.address = a /\ PatchEnd(new) = e
  BY <1>0, <1>1, <1>3, <1>4 DEF Patch, N, PatchEnd, AddPatch, TypeOK
<1> HIDE DEF new
<1>7. /\ Len(patches') = n + 1 /\ patches'[n+1] = new
      /\ \A i \in 1..n : patches'[i] = patches[i]
  <2>1. patches' = Append(patches, new)
    BY <1>4 DEF new
  <2> QED
    BY <1>5, <1>6, <2>1, AppendProperties
<1>8. \A i \in 1..n : patches[i] \in Patch
  BY <1>5, ElementOfSeq
<1>9. \A i \in 1..n : /\ patches[i].address \in Nat /\ PatchEnd(patches[i]) \in Nat
                      /\ patches[i].address <= PatchEnd(patches[i])
  BY <1>8, PatchNumbers
<1>10. \A i \in 1..n : PatchEnd(patches[i]) < a \/ e < patches[i].address
  BY <1>5 DEF AddPatch
<1>11. patch_bounds' = IF patches = <<>> THEN [min |-> a, max |-> e]
         ELSE [min |-> IF a < patch_bounds.min THEN a ELSE patch_bounds.min,
               max |-> IF e > patch_bounds.max THEN e ELSE patch_bounds.max]
  BY DEF AddPatch
<1>12. patch_bounds.min \in Int /\ patch_bounds.max \in Int
  BY <1>0 DEF TypeOK
<1> HIDE DEF a, e, n
<1>13. PatchesApart'
  <2> SUFFICES ASSUME NEW i \in 1..n+1, NEW j \in 1..n+1, i # j
               PROVE  \/ PatchEnd(patches'[i]) < patches'[j].address
                      \/ PatchEnd(patches'[j]) < patches'[i].address
    BY <1>7 DEF PatchesApart
  <2>1. CASE i \in 1..n /\ j \in 1..n
    BY <1>7, <2>1 DEF PatchInv, PatchesApart, n
  <2>2. CASE i = n + 1 /\ j \in 1..n
    BY <1>6, <1>7, <1>10, <2>2
  <2>3. CASE j = n + 1 /\ i \in 1..n
    BY <1>6, <1>7, <1>10, <2>3
  <2> QED
    BY <1>5, <2>1, <2>2, <2>3
<1>14. PatchesBounded'
  <2> SUFFICES ASSUME NEW i \in 1..n+1
               PROVE  /\ patch_bounds'.min <= patches'[i].address
                      /\ PatchEnd(patches'[i]) <= patch_bounds'.max
    BY <1>7 DEF PatchesBounded
  <2>0. a \in Int /\ e \in Int
    BY <1>0, <1>1, <1>3
  <2>1. CASE i \in 1..n
    <3>1. patches # <<>>
      BY <1>5, <2>1 DEF n
    <3>2. patch_bounds.min <= patches[i].address /\ PatchEnd(patches[i]) <= patch_bounds.max
      BY <2>1 DEF PatchInv, PatchesBounded, n
    <3>3. patch_bounds'.min <= patch_bounds.min /\ patch_bounds.max <= patch_bounds'.max
      BY <1>11, <1>12, <2>0, <3>1
    <3>4. patch_bounds'.min \in Int /\ patch_bounds'.max \in Int
      BY <1>11, <1>12, <2>0, <3>1
    <3> QED
      BY <1>7, <1>9, <1>12, <2>1, <3>2, <3>3, <3>4
  <2>2. CASE i = n + 1
    <3>1. patch_bounds'.min <= a /\ e <= patch_bounds'.max
      BY <1>11, <1>12, <2>0
    <3> QED
      BY <1>6, <1>7, <2>2, <3>1
  <2> QED
    BY <1>5, <2>1, <2>2
<1> QED
  BY <1>13, <1>14 DEF PatchInv

LEMMA DelPatchKeeps ==
  ASSUME TypeOK, PatchInv, NEW i \in DOMAIN patches, DelPatch(i)
  PROVE  PatchInv'
<1> DEFINE n == Len(patches)
<1>0. patches \in Seq(Patch) /\ n \in Nat /\ i \in 1..n
  BY LenProperties DEF TypeOK
<1>1. patches' = SubSeq(patches, 1, i-1) \o SubSeq(patches, i+1, n)
  BY DEF DelPatch
<1>2. /\ patches' \in Seq(Patch) /\ Len(patches') = n - 1
      /\ \A k \in 1..Len(patches') : patches'[k] = patches[IF k < i THEN k ELSE k + 1]
  BY <1>0, <1>1, RemovedEntries
<1>3. PatchesBounded'
  <2>1. patch_bounds' = RebuiltBounds(patches')
    BY DEF DelPatch
  <2>2. \A k \in 1..Len(patches') : /\ RebuiltBounds(patches').min <= patches'[k].address
                                    /\ PatchEnd(patches'[k]) <= RebuiltBounds(patches').max
    BY <1>2, RebuiltBoundsHold
  <2> QED
    BY <2>1, <2>2 DEF PatchesBounded
<1>4. PatchesApart'
  <2> SUFFICES ASSUME NEW j \in 1..n-1, NEW k \in 1..n-1, j # k
               PROVE  \/ PatchEnd(patches'[j]) < patches'[k].address
                      \/ PatchEnd(patches'[k]) < patches'[j].address
    BY <1>2 DEF PatchesApart
  <2> DEFINE u == IF j < i THEN j ELSE j + 1
             w == IF k < i THEN k ELSE k + 1
  <2>1. u \in 1..n /\ w \in 1..n /\ u # w
    BY <1>0
  <2>2. patches'[j] = patches[u] /\ patches'[k] = patches[w]
    BY <1>2
  <2> HIDE DEF u, w
  <2> QED
    BY <2>1, <2>2 DEF PatchInv, PatchesApart
<1> QED
  BY <1>3, <1>4 DEF PatchInv

LEMMA PatchInvKept == TypeOK /\ PatchInv /\ [Next]_vars => PatchInv'
<1> SUFFICES ASSUME TypeOK, PatchInv, [Next]_vars PROVE PatchInv'
  OBVIOUS
<1>1. ASSUME NEW q \in PatchRanges, NEW v \in StoreVals, AddPatch(q[1], q[2], v) PROVE PatchInv'
  BY <1>1, AddPatchKeeps
<1>2. ASSUME NEW i \in DOMAIN patches, DelPatch(i) PROVE PatchInv'
  BY <1>2, DelPatchKeeps
<1>3. CASE patches' = <<>>
  <2>1. Len(patches') = 0
    BY <1>3
  <2> QED
    BY <2>1 DEF PatchInv, PatchesApart, PatchesBounded
<1>4. CASE UNCHANGED <<patches, patch_bounds>>
  BY <1>4 DEF PatchInv, PatchesApart, PatchesBounded
<1> QED
  BY <1>1, <1>2, <1>3, <1>4
  DEF Next, MapInternal, MapHost, SetHostPassthrough, BeginRange, RangeEmpty, RangeStep, RangeFail,
      Access, WriteByte, Destroy, Reopen, UnchangedPatches, vars

\* A set of positions of which no two differ has at most one element.
LEMMA AtMostOne ==
  ASSUME NEW T, \A x, y \in T : x = y
  PROVE  IsFiniteSet(T) /\ Cardinality(T) <= 1
<1>1. CASE T = {}
  BY <1>1, FS_EmptySet
<1>2. CASE T # {}
  <2>1. PICK x \in T : TRUE
    BY <1>2
  <2>2. T = {x}
    BY <2>1
  <2>3. IsFiniteSet({x}) /\ Cardinality({x}) = 1
    BY FS_Singleton
  <2> QED
    BY <2>2, <2>3
<1> QED
  BY <1>1, <1>2

LEMMA LookupFromInv == TypeOK /\ PatchInv => PatchLookupExact
<1> SUFFICES ASSUME TypeOK, PatchInv, NEW a \in Addrs
             PROVE  LET holders == {i \in DOMAIN patches : Covers(patches[i], a)}
                    IN  PatchIndexes(a) = holders /\ Cardinality(holders) <= 1
  BY DEF PatchLookupExact
<1> DEFINE holders == {i \in DOMAIN patches : Covers(patches[i], a)}
<1>0. patches \in Seq(Patch) /\ Len(patches) \in Nat /\ DOMAIN patches = 1..Len(patches)
  BY LenProperties DEF TypeOK
<1>1. a \in Nat /\ patch_bounds.min \in Nat /\ patch_bounds.max \in Nat
  BY AddrsType DEF TypeOK, Addrs
<1>2. \A i \in 1..Len(patches) : /\ patches[i].address \in Nat /\ PatchEnd(patches[i]) \in Nat
                                 /\ patches[i].address <= PatchEnd(patches[i])
  BY <1>0, ElementOfSeq, PatchNumbers
<1>3. \A i \in holders : i \in 1..Len(patches) /\ patches[i].address <= a /\ a <= PatchEnd(patches[i])
  BY <1>0 DEF Covers
<1> HIDE DEF holders
<1>4. ASSUME NEW i \in holders, NEW j \in holders PROVE i = j
  BY <1>1, <1>2, <1>3 DEF PatchInv, PatchesApart
<1>5. Cardinality(holders) <= 1
  BY <1>4, AtMostOne
<1>6. ASSUME NEW i \in holders PROVE PatchBoundsMayContain(a)
  <2>1. i \in 1..Len(patches) /\ patch_bounds.min <= patches[i].address /\ PatchEnd(patches[i]) <= patch_bounds.max
    BY <1>3 DEF PatchInv, PatchesBounded
  <2> QED
    BY <1>0, <1>1, <1>2, <1>3, <2>1 DEF PatchBoundsMayContain
<1>7. PatchIndexes(a) = holders
  BY <1>6 DEF PatchIndexes, holders
<1> QED
  BY <1>5, <1>7 DEF holders

(* Patch lookup: after any additions and deletions, also of the patch that *)
(* carried a bound, mm_find_patch finds the patch that holds an address    *)
(* whenever there is one, and there is never a second.                     *)
THEOREM PatchesFound == Spec => []PatchLookupExact
<1>1. Init => PatchInv
  <2>1. Init => Len(patches) = 0
    BY DEF Init
  <2> QED
    BY <2>1 DEF PatchInv, PatchesApart, PatchesBounded
<1> QED
  BY <1>1, PatchInvKept, LookupFromInv, TypeCorrect, PTL DEF Spec

-----------------------------------------------------------------------------
(* The two binary searches.                                                *)

\* No region runs past the top of the address space, and the regions are in order of
\* their bases, each ending before the next begins.  A region that reaches the top
\* has end 0 and so ends before every other.
InOrder(regs) ==
  /\ \A i \in 1..Len(regs) : regs[i].base + regs[i].size <= NPages
  /\ \A i, j \in 1..Len(regs) :
       i < j => regs[i].base <= regs[j].base /\ RegionEnd(regs[i]) <= regs[j].base

LEMMA RegionNumbers ==
  ASSUME NEW r \in Region
  PROVE  r.base \in Nat /\ r.size \in Nat /\ RegionEnd(r) \in Nat /\ r.size >= 1 /\ r.base < NPages
<1>1. r.base \in Nat /\ r.size \in Nat /\ r.size >= 1 /\ r.base < NPages /\ NPages \in Nat \ {0}
  BY SizesAssumption DEF Region, Pages
<1>2. r.base + r.size \in Int
  BY <1>1
<1>3. RegionEnd(r) \in 0..NPages-1
  BY <1>1, <1>2, ModType DEF RegionEnd
<1> QED
  BY <1>1, <1>3

\* Where the loop of mm_find_insertion_index goes on from the window w, and f being
\* closed under it.
InsertionGoesOn(regs, p, f, w) ==
  LET mid == w[1] + ((w[2] - w[1]) \div 2)
  IN  IF w[1] >= w[2] THEN w[1] + 1
      ELSE IF regs[mid+1].base < p THEN f[<<mid+1, w[2]>>]
      ELSE f[<<w[1], mid>>]

InsertionUnfold(regs, p, f) ==
  [w \in (0..Len(regs)) \X (0..Len(regs)) |-> InsertionGoesOn(regs, p, f, w)]

LEMMA InsertionIsUnfold ==
  ASSUME NEW regs, NEW p
  PROVE  InsertionBinarySearch(regs, p)
           = (CHOOSE f : f = InsertionUnfold(regs, p, f))[<<0, Len(regs)>>]
  BY DEF InsertionBinarySearch, InsertionUnfold, InsertionGoesOn

\* The windows of the loops, and how much of the array is still in one.
Windows(n) == (0..n) \X (0..n)
Span(w) == IF w[1] >= w[2] THEN 0 ELSE w[2] - w[1]

\* Two functions of a window agree when agreement carries over from narrower windows.
LEMMA NarrowerWindows ==
  ASSUME NEW n \in Nat, NEW f, NEW g,
         \A w \in Windows(n) : (\A v \in Windows(n) : Span(v) < Span(w) => f[v] = g[v]) => f[w] = g[w]
  PROVE  \A w \in Windows(n) : f[w] = g[w]
<1> DEFINE Bad == {Span(w) : w \in {v \in Windows(n) : f[v] # g[v]}}
<1>0. \A w \in Windows(n) : Span(w) \in Nat
  BY DEF Windows, Span
<1>1. Bad \in SUBSET Nat
  BY <1>0
<1>2. ASSUME Bad # {} PROVE FALSE
  <2>1. PICK x \in Bad : \A y \in Bad : x <= y
    <3> HIDE DEF Bad
    <3> QED BY <1>1, <1>2, LeastExists
  <2>2. PICK w \in Windows(n) : f[w] # g[w] /\ x = Span(w)
    BY <2>1
  <2>3. PICK v \in Windows(n) : Span(v) < Span(w) /\ f[v] # g[v]
    BY <2>2
  <2>4. Span(v) \in Bad
    BY <2>3
  <2>5. Span(w) <= Span(v)
    <3> HIDE DEF Bad
    <3> QED BY <2>1, <2>2, <2>4
  <2> QED
    BY <1>0, <2>3, <2>5
<1> QED
  BY <1>2

\* mid lies in the window, and both halves around it are narrower.
LEMMA Halves ==
  ASSUME NEW n \in Nat, NEW w \in Windows(n), ~(w[1] >= w[2]),
         NEW mid, mid = w[1] + ((w[2] - w[1]) \div 2)
  PROVE  /\ mid \in Nat /\ w[1] \in Nat /\ w[2] \in Nat /\ w[2] <= n
         /\ w[1] <= mid /\ mid < w[2]
         /\ <<mid+1, w[2]>> \in Windows(n) /\ Span(<<mid+1, w[2]>>) < Span(w)
         /\ <<w[1], mid>> \in Windows(n) /\ Span(<<w[1], mid>>) < Span(w)
<1>1. w[1] \in 0..n /\ w[2] \in 0..n
  BY DEF Windows
<1> DEFINE a == w[1]
           b == w[2]
<1>2. a \in Nat /\ b \in Nat /\ a < b /\ b <= n
  BY <1>1
<1>3. mid = a + ((b - a) \div 2)
  OBVIOUS
<1>4. Span(w) = b - a
  BY <1>2 DEF Span
<1> HIDE DEF a, b
<1>5. mid \in Nat /\ a <= mid /\ mid < b
  BY <1>2, <1>3
<1>6. Span(<<mid+1, b>>) < b - a /\ Span(<<a, mid>>) < b - a
  BY <1>2, <1>5 DEF Span
<1>7. <<mid+1, b>> \in Windows(n) /\ <<a, mid>> \in Windows(n)
  BY <1>2, <1>5 DEF Windows
<1> QED
  BY <1>2, <1>4, <1>5, <1>6, <1>7 DEF a, b

\* If the bases below p are exactly those of the first K regions, the loop of
\* mm_find_insertion_index ends at the next one.
LEMMA InsertionSearchValue ==
  ASSUME NEW regs, NEW p, Len(regs) \in Nat, NEW K \in 0..Len(regs),
         \A i \in 1..Len(regs) : regs[i].base < p <=> i <= K
  PROVE  InsertionBinarySearch(regs, p) = K + 1
<1> DEFINE n == Len(regs)
           nearest(w) == IF K < w[1] THEN w[1] ELSE IF K > w[2] THEN w[2] ELSE K
           g == [w \in Windows(n) |-> IF w[1] >= w[2] THEN w[1] + 1 ELSE nearest(w) + 1]
           f == CHOOSE h : h = InsertionUnfold(regs, p, h)
<1>0. n \in Nat /\ K \in Nat /\ K <= n
  OBVIOUS
<1>v. \A w \in Windows(n) : g[w] = IF w[1] >= w[2] THEN w[1] + 1 ELSE nearest(w) + 1
  OBVIOUS
<1> HIDE DEF g
<1>1. ASSUME NEW w \in Windows(n) PROVE g[w] = InsertionGoesOn(regs, p, g, w)
  <2>1. CASE w[1] >= w[2]
    BY <1>v, <2>1 DEF InsertionGoesOn
  <2>2. CASE ~(w[1] >= w[2])
    <3> DEFINE mid == w[1] + ((w[2] - w[1]) \div 2)
               a == w[1]
               b == w[2]
    <3>1. /\ mid \in Nat /\ a \in Nat /\ b \in Nat /\ b <= n /\ a <= mid /\ mid < b
          /\ <<mid+1, b>> \in Windows(n) /\ <<a, mid>> \in Windows(n)
      BY <1>0, <2>2, Halves
    <3>2. InsertionGoesOn(regs, p, g, w)
            = IF regs[mid+1].base < p THEN g[<<mid+1, b>>] ELSE g[<<a, mid>>]
      BY <2>2 DEF InsertionGoesOn
    <3>3. g[w] = (IF K < a THEN a ELSE IF K > b THEN b ELSE K) + 1
      BY <1>v, <2>2
    <3> HIDE DEF mid, a, b
    <3>4. g[<<mid+1, b>>] = IF mid + 1 >= b THEN (mid + 1) + 1
                            ELSE (IF K < mid + 1 THEN mid + 1 ELSE IF K > b THEN b ELSE K) + 1
      BY <1>v, <3>1
    <3>5. g[<<a, mid>>] = IF a >= mid THEN a + 1
                          ELSE (IF K < a THEN a ELSE IF K > mid THEN mid ELSE K) + 1
      BY <1>v, <3>1
    <3>6. regs[mid+1].base < p <=> mid + 1 <= K
      BY <1>0, <3>1
    <3>7. CASE mid + 1 <= K
      BY <1>0, <3>1, <3>2, <3>3, <3>4, <3>6, <3>7
    <3>8. CASE ~(mid + 1 <= K)
      BY <1>0, <3>1, <3>2, <3>3, <3>5, <3>6, <3>8
    <3> QED
      BY <3>7, <3>8
  <2> QED
    BY <2>1, <2>2
<1>2. g = InsertionUnfold(regs, p, g)
  <2>1. g = [w \in Windows(n) |-> g[w]]
    BY DEF g
  <2>2. InsertionUnfold(regs, p, g) = [w \in Windows(n) |-> InsertionGoesOn(regs, p, g, w)]
    BY DEF InsertionUnfold, Windows
  <2> QED
    BY <1>1, <2>1, <2>2
<1>3. f = InsertionUnfold(regs, p, f)
  BY <1>2
<1> HIDE DEF f
<1>4. \A w \in Windows(n) : f[w] = InsertionGoesOn(regs, p, f, w)
  BY <1>3 DEF InsertionUnfold, Windows
<1>5. ASSUME NEW w \in Windows(n), \A v \in Windows(n) : Span(v) < Span(w) => f[v] = g[v]
      PROVE  f[w] = g[w]
  <2>1. f[w] = InsertionGoesOn(regs, p, f, w) /\ g[w] = InsertionGoesOn(regs, p, g, w)
    BY <1>1, <1>4
  <2>2. CASE w[1] >= w[2]
    BY <2>1, <2>2 DEF InsertionGoesOn
  <2>3. CASE ~(w[1] >= w[2])
    <3> DEFINE mid == w[1] + ((w[2] - w[1]) \div 2)
    <3>1. /\ <<mid+1, w[2]>> \in Windows(n) /\ Span(<<mid+1, w[2]>>) < Span(w)
          /\ <<w[1], mid>> \in Windows(n) /\ Span(<<w[1], mid>>) < Span(w)
      BY <1>0, <2>3, Halves
    <3>2. f[<<mid+1, w[2]>>] = g[<<mid+1, w[2]>>] /\ f[<<w[1], mid>>] = g[<<w[1], mid>>]
      <4> HIDE DEF mid
      <4> QED BY <1>5, <3>1
    <3> QED
      BY <2>1, <2>3, <3>2 DEF InsertionGoesOn
  <2> QED
    BY <2>2, <2>3
<1>6. \A w \in Windows(n) : f[w] = g[w]
  <2> HIDE DEF n
  <2> QED BY <1>0, <1>5, NarrowerWindows
<1>7. InsertionBinarySearch(regs, p) = f[<<0, n>>]
  BY InsertionIsUnfold DEF f
<1>8. <<0, n>> \in Windows(n)
  BY <1>0 DEF Windows
<1>9. g[<<0, n>>] = K + 1
  <2>1. g[<<0, n>>] = IF 0 >= n THEN 0 + 1 ELSE (IF K < 0 THEN 0 ELSE IF K > n THEN n ELSE K) + 1
    BY <1>v, <1>8
  <2> QED
    BY <1>0, <2>1
<1> QED
  BY <1>6, <1>7, <1>8, <1>9

\* The same for mm_find_region_index.
RegionGoesOn(regs, p, f, w) ==
  LET mid == w[1] + ((w[2] - w[1]) \div 2)
  IN  IF w[1] >= w[2] THEN 0
      ELSE IF p < regs[mid+1].base THEN f[<<w[1], mid>>]
      ELSE IF p >= RegionEnd(regs[mid+1]) THEN f[<<mid+1, w[2]>>]
      ELSE mid + 1

RegionUnfold(regs, p, f) ==
  [w \in (0..Len(regs)) \X (0..Len(regs)) |-> RegionGoesOn(regs, p, f, w)]

LEMMA RegionIsUnfold ==
  ASSUME NEW regs, NEW p
  PROVE  RegionBinarySearch(regs, p)
           = (CHOOSE f : f = RegionUnfold(regs, p, f))[<<0, Len(regs)>>]
  BY DEF RegionBinarySearch, RegionUnfold, RegionGoesOn

\* If region H holds p, everything left of H lies below p and everything right of it
\* above, the loop of mm_find_region_index ends at H; H = 0 stands for no region.
LEMMA RegionSearchValue ==
  ASSUME NEW regs, NEW p, Len(regs) \in Nat, NEW H \in 0..Len(regs),
         \A i \in 1..Len(regs) :
           /\ i < H => ~(p < regs[i].base) /\ p >= RegionEnd(regs[i])
           /\ i = H => ~(p < regs[i].base) /\ ~(p >= RegionEnd(regs[i]))
           /\ i > H /\ H # 0 => p < regs[i].base
           /\ H = 0 => p < regs[i].base \/ p >= RegionEnd(regs[i])
  PROVE  RegionBinarySearch(regs, p) = H
<1> DEFINE n == Len(regs)
           g == [w \in Windows(n) |-> IF w[1] >= w[2] THEN 0 ELSE IF w[1] < H /\ H <= w[2] THEN H ELSE 0]
           f == CHOOSE h : h = RegionUnfold(regs, p, h)
<1>0. n \in Nat /\ H \in Nat /\ H <= n
  OBVIOUS
<1>v. \A w \in Windows(n) : g[w] = IF w[1] >= w[2] THEN 0 ELSE IF w[1] < H /\ H <= w[2] THEN H ELSE 0
  OBVIOUS
<1> HIDE DEF g
<1>1. ASSUME NEW w \in Windows(n) PROVE g[w] = RegionGoesOn(regs, p, g, w)
  <2>1. CASE w[1] >= w[2]
    BY <1>v, <2>1 DEF RegionGoesOn
  <2>2. CASE ~(w[1] >= w[2])
    <3> DEFINE mid == w[1] + ((w[2] - w[1]) \div 2)
               a == w[1]
               b == w[2]
               m == mid + 1
    <3>1. /\ mid \in Nat /\ a \in Nat /\ b \in Nat /\ b <= n /\ a <= mid /\ mid < b
          /\ <<mid+1, b>> \in Windows(n) /\ <<a, mid>> \in Windows(n)
      BY <1>0, <2>2, Halves
    <3>2. RegionGoesOn(regs, p, g, w)
            = IF p < regs[m].base THEN g[<<a, mid>>]
              ELSE IF p >= RegionEnd(regs[m]) THEN g[<<m, b>>] ELSE m
      BY <2>2 DEF RegionGoesOn
    <3>3. g[w] = IF a < H /\ H <= b THEN H ELSE 0
      BY <1>v, <2>2
    <3> HIDE DEF mid, a, b
    <3>4. g[<<m, b>>] = IF m >= b THEN 0 ELSE IF m < H /\ H <= b THEN H ELSE 0
      BY <1>v, <3>1
    <3>5. g[<<a, mid>>] = IF a >= mid THEN 0 ELSE IF a < H /\ H <= mid THEN H ELSE 0
      BY <1>v, <3>1
    <3>6. m \in 1..n /\ m = mid + 1
      BY <1>0, <3>1
    <3> HIDE DEF m
    <3>7. /\ m < H => ~(p < regs[m].base) /\ p >= RegionEnd(regs[m])
          /\ m = H => ~(p < regs[m].base) /\ ~(p >= RegionEnd(regs[m]))
          /\ m > H /\ H # 0 => p < regs[m].base
          /\ H = 0 => p < regs[m].base \/ p >= RegionEnd(regs[m])
      BY <3>6
    <3>8. CASE m < H
      BY <1>0, <3>1, <3>2, <3>3, <3>4, <3>6, <3>7, <3>8
    <3>9. CASE m = H
      BY <1>0, <3>1, <3>2, <3>3, <3>6, <3>7, <3>9
    <3>10. CASE m > H /\ H # 0
      BY <1>0, <3>1, <3>2, <3>3, <3>5, <3>6, <3>7, <3>10
    <3>11. CASE H = 0
      BY <1>0, <3>1, <3>2, <3>3, <3>4, <3>5, <3>6, <3>7, <3>11
    <3> QED
      BY <1>0, <3>6, <3>8, <3>9, <3>10, <3>11
  <2> QED
    BY <2>1, <2>2
<1>2. g = RegionUnfold(regs, p, g)
  <2>1. g = [w \in Windows(n) |-> g[w]]
    BY DEF g
  <2>2. RegionUnfold(regs, p, g) = [w \in Windows(n) |-> RegionGoesOn(regs, p, g, w)]
    BY DEF RegionUnfold, Windows
  <2> QED
    BY <1>1, <2>1, <2>2
<1>3. f = RegionUnfold(regs, p, f)
  BY <1>2
<1> HIDE DEF f
<1>4. \A w \in Windows(n) : f[w] = RegionGoesOn(regs, p, f, w)
  BY <1>3 DEF RegionUnfold, Windows
<1>5. ASSUME NEW w \in Windows(n), \A v \in Windows(n) : Span(v) < Span(w) => f[v] = g[v]
      PROVE  f[w] = g[w]
  <2>1. f[w] = RegionGoesOn(regs, p, f, w) /\ g[w] = RegionGoesOn(regs, p, g, w)
    BY <1>1, <1>4
  <2>2. CASE w[1] >= w[2]
    BY <2>1, <2>2 DEF RegionGoesOn
  <2>3. CASE ~(w[1] >= w[2])
    <3> DEFINE mid == w[1] + ((w[2] - w[1]) \div 2)
    <3>1. /\ <<mid+1, w[2]>> \in Windows(n) /\ Span(<<mid+1, w[2]>>) < Span(w)
          /\ <<w[1], mid>> \in Windows(n) /\ Span(<<w[1], mid>>) < Span(w)
      BY <1>0, <2>3, Halves
    <3>2. f[<<mid+1, w[2]>>] = g[<<mid+1, w[2]>>] /\ f[<<w[1], mid>>] = g[<<w[1], mid>>]
      <4> HIDE DEF mid
      <4> QED BY <1>5, <3>1
    <3> QED
      BY <2>1, <2>3, <3>2 DEF RegionGoesOn
  <2> QED
    BY <2>2, <2>3
<1>6. \A w \in Windows(n) : f[w] = g[w]
  <2> HIDE DEF n
  <2> QED BY <1>0, <1>5, NarrowerWindows
<1>7. RegionBinarySearch(regs, p) = f[<<0, n>>]
  BY RegionIsUnfold DEF f
<1>8. <<0, n>> \in Windows(n)
  BY <1>0 DEF Windows
<1>9. g[<<0, n>>] = H
  <2>1. g[<<0, n>>] = IF 0 >= n THEN 0 ELSE IF 0 < H /\ H <= n THEN H ELSE 0
    BY <1>v, <1>8
  <2> QED
    BY <1>0, <2>1
<1> QED
  BY <1>6, <1>7, <1>8, <1>9

\* In an ordered array the bases below p are those of the first regions.
LEMMA BasesBelow ==
  ASSUME NEW regs \in Seq(Region), InOrder(regs), NEW p \in Pages
  PROVE  LET K == FindInsertionIndex(regs, p) - 1
         IN  K \in 0..Len(regs) /\ \A i \in 1..Len(regs) : regs[i].base < p <=> i <= K
<1> DEFINE n == Len(regs)
           T == {i \in DOMAIN regs : regs[i].base < p}
<1>0. n \in Nat /\ DOMAIN regs = 1..n
  BY LenProperties
<1>1. \A i \in 1..n : regs[i].base \in Nat
  BY ElementOfSeq, RegionNumbers
<1>p. p \in Nat
  BY SizesAssumption DEF Pages
<1>2. \E K \in 0..n : T = 1..K
  <2>1. CASE T = {}
    BY <1>0, <2>1
  <2>2. CASE T # {}
    <3>1. T \in SUBSET (0..n)
      BY <1>0
    <3>2. PICK K \in T : \A y \in T : y <= K
      <4> HIDE DEF T
      <4> QED BY <1>0, <2>2, <3>1, GreatestExists
    <3>3. K \in 1..n /\ regs[K].base < p
      BY <1>0, <3>2
    <3>4. ASSUME NEW i \in 1..K PROVE i \in T
      <4>1. i \in 1..n /\ (i < K \/ i = K)
        BY <1>0, <3>3
      <4>2. regs[i].base <= regs[K].base
        BY <1>0, <1>1, <3>3, <4>1 DEF InOrder
      <4> QED
        BY <1>0, <1>1, <1>p, <3>3, <4>1, <4>2
    <3>5. ASSUME NEW i \in T PROVE i \in 1..K
      BY <1>0, <3>2, <3>3, <3>5
    <3> QED
      BY <3>3, <3>4, <3>5
  <2> QED
    BY <2>1, <2>2
<1>3. PICK K \in 0..n : T = 1..K
  BY <1>2
<1>4. Cardinality(T) = K
  <2>1. K \in Nat
    BY <1>0
  <2>2. Cardinality(1..K) = IF 1 > K THEN 0 ELSE K - 1 + 1
    BY <2>1, FS_Interval
  <2>3. Cardinality(1..K) = K
    BY <2>1, <2>2
  <2> HIDE DEF T
  <2> QED
    BY <1>3, <2>3
<1>5. FindInsertionIndex(regs, p) - 1 = K
  BY <1>0, <1>4 DEF FindInsertionIndex
<1>6. \A i \in 1..n : regs[i].base < p <=> i \in T
  BY <1>0
<1>7. \A i \in 1..n : i \in 1..K <=> i <= K
  BY <1>0
<1> QED
  BY <1>3, <1>5, <1>6, <1>7

\* In an ordered array the two searches answer what their definitions say.
LEMMA SearchesOfOrdered ==
  ASSUME NEW regs \in Seq(Region), InOrder(regs), NEW p \in Pages
  PROVE  /\ \A i, j \in Holders(regs, p) : i = j
         /\ RegionBinarySearch(regs, p) = FindRegionIndex(regs, p)
         /\ InsertionBinarySearch(regs, p) = FindInsertionIndex(regs, p)
<1> DEFINE n == Len(regs)
<1>0. n \in Nat /\ DOMAIN regs = 1..n /\ p \in Nat
  BY LenProperties, SizesAssumption DEF Pages
<1>1. \A i \in 1..n : regs[i].base \in Nat /\ RegionEnd(regs[i]) \in Nat
  BY ElementOfSeq, RegionNumbers
<1>2. InsertionBinarySearch(regs, p) = FindInsertionIndex(regs, p)
  <2> DEFINE K == FindInsertionIndex(regs, p) - 1
  <2>1. K \in 0..n /\ \A i \in 1..n : regs[i].base < p <=> i <= K
    BY BasesBelow
  <2>2. FindInsertionIndex(regs, p) \in Int
    <3>1. FindInsertionIndex(regs, p) \in 1..Len(regs)+1
      BY InsertionIndexType
    <3> QED
      BY <1>0, <3>1
  <2>3. K + 1 = FindInsertionIndex(regs, p)
    BY <2>2
  <2> HIDE DEF K
  <2> QED
    BY <1>0, <2>1, <2>3, InsertionSearchValue
<1>3. \A i \in Holders(regs, p) : i \in 1..n /\ regs[i].base <= p /\ p < RegionEnd(regs[i])
  BY <1>0 DEF Holders
<1>4. ASSUME NEW i \in Holders(regs, p), NEW j \in Holders(regs, p) PROVE i = j
  <2>1. ~(i < j) /\ ~(j < i)
    BY <1>0, <1>1, <1>3 DEF InOrder
  <2> QED
    BY <1>0, <1>3, <2>1
<1>5. \A i, j \in Holders(regs, p) : i = j
  BY <1>4
<1>6. RegionBinarySearch(regs, p) = FindRegionIndex(regs, p)
  <2>1. CASE Holders(regs, p) = {}
    <3>1. FindRegionIndex(regs, p) = 0
      BY <2>1 DEF FindRegionIndex
    <3> DEFINE H == 0
    <3>2. H \in 0..n
      BY <1>0
    <3>3. \A i \in 1..n : p < regs[i].base \/ p >= RegionEnd(regs[i])
      BY <1>0, <1>1, <2>1 DEF Holders
    <3>4. \A i \in 1..n :
           /\ i < H => ~(p < regs[i].base) /\ p >= RegionEnd(regs[i])
           /\ i = H => ~(p < regs[i].base) /\ ~(p >= RegionEnd(regs[i]))
           /\ i > H /\ H # 0 => p < regs[i].base
           /\ H = 0 => p < regs[i].base \/ p >= RegionEnd(regs[i])
      BY <1>0, <3>3
    <3>5. H = 0
      OBVIOUS
    <3> HIDE DEF H
    <3>6. RegionBinarySearch(regs, p) = H
      BY <1>0, <3>2, <3>4, RegionSearchValue
    <3> QED
      BY <3>1, <3>5, <3>6
  <2>2. CASE Holders(regs, p) # {}
    <3> DEFINE H == FindRegionIndex(regs, p)
    <3>1. H \in Holders(regs, p)
      BY <2>2 DEF FindRegionIndex
    <3> HIDE DEF H
    <3>2. H \in 1..n /\ H \in 0..n /\ H # 0 /\ regs[H].base <= p /\ p < RegionEnd(regs[H])
      BY <1>0, <1>3, <3>1
    <3>3. ASSUME NEW i \in 1..n
          PROVE  /\ i < H => ~(p < regs[i].base) /\ p >= RegionEnd(regs[i])
                 /\ i = H => ~(p < regs[i].base) /\ ~(p >= RegionEnd(regs[i]))
                 /\ i > H /\ H # 0 => p < regs[i].base
                 /\ H = 0 => p < regs[i].base \/ p >= RegionEnd(regs[i])
      BY <1>0, <1>1, <3>2 DEF InOrder
    <3>4. RegionBinarySearch(regs, p) = H
      BY <1>0, <3>2, <3>3, RegionSearchValue
    <3> QED
      BY <3>4 DEF H
  <2> QED
    BY <2>1, <2>2
<1> QED
  BY <1>2, <1>5, <1>6

-----------------------------------------------------------------------------
(* Every change of the region array keeps it in order.                     *)

LEMMA InsertKeepsOrder ==
  ASSUME TypeOK, InOrder(regions), NEW r \in Region,
         ~HasOverlap(regions, r.base, r.size), InsertRegion(r)
  PROVE  InOrder(regions')
<1> DEFINE n == Len(regions)
           i == FindInsertionIndex(regions, r.base)
           t == <<r>>
<1>0. regions \in Seq(Region) /\ n \in Nat /\ DOMAIN regions = 1..n /\ r.base \in Pages
  BY LenProperties DEF TypeOK, Region
<1>1. r.base \in Nat /\ r.size \in Nat /\ RegionEnd(r) \in Nat /\ r.size >= 1
  BY RegionNumbers
<1>2. \A k \in 1..n : regions[k] \in Region
  BY <1>0, ElementOfSeq
<1>3. \A k \in 1..n : /\ regions[k].base \in Nat /\ regions[k].size \in Nat
                      /\ RegionEnd(regions[k]) \in Nat
  BY <1>2, RegionNumbers
<1>4. i \in 1..n+1
  BY <1>0, InsertionIndexType
<1>5. \A k \in 1..n : regions[k].base < r.base <=> k < i
  <2>1. \A k \in 1..n : regions[k].base < r.base <=> k <= i - 1
    BY <1>0, BasesBelow
  <2> HIDE DEF i
  <2> QED
    BY <1>0, <1>4, <2>1
<1>6. /\ ~RangeOverflows(r.base, r.size)
      /\ i > 1 => ~(RegionEnd(regions[i-1]) > r.base)
      /\ i <= n => ~(regions[i].base < RegionEnd(r))
  BY DEF HasOverlap, RegionEnd
<1>7. r.base + r.size <= NPages
  <2>1. NPages \in Nat \ {0} /\ r.base \in 0..NPages-1 /\ r.size \in 1..NPages
    BY SizesAssumption DEF Region, Pages
  <2>2. (r.base + r.size - 1) % NPages \in 0..NPages-1
    <3>1. r.base + r.size - 1 \in Int
      BY <2>1
    <3> QED
      BY <2>1, <3>1, ModType
  <2>3. (r.base + r.size - 1) % NPages >= r.base
    BY <1>6, <2>1, <2>2 DEF RangeOverflows
  <2>4. r.base + r.size - 1 \in 0..NPages-1
    BY <2>1, <2>3, NoWrap
  <2> QED
    BY <2>1, <2>4
<1>8. \A k \in 1..n : k < i => RegionEnd(regions[k]) <= r.base
  <2> HIDE DEF i
  <2> SUFFICES ASSUME NEW k \in 1..n, k < i PROVE RegionEnd(regions[k]) <= r.base
    OBVIOUS
  <2>1. i - 1 \in 1..n /\ i > 1 /\ (k < i - 1 \/ k = i - 1)
    BY <1>0, <1>4
  <2>2. RegionEnd(regions[i-1]) <= r.base /\ regions[i-1].base < r.base
    BY <1>0, <1>1, <1>3, <1>4, <1>5, <1>6, <2>1
  <2>3. k < i - 1 => RegionEnd(regions[k]) <= regions[i-1].base
    BY <2>1 DEF InOrder
  <2> QED
    BY <1>1, <1>3, <2>1, <2>2, <2>3
<1>9. \A k \in 1..n : ~(k < i) => r.base <= regions[k].base /\ RegionEnd(r) <= regions[k].base
  <2> HIDE DEF i
  <2> SUFFICES ASSUME NEW k \in 1..n, ~(k < i)
               PROVE  r.base <= regions[k].base /\ RegionEnd(r) <= regions[k].base
    OBVIOUS
  <2>1. i \in 1..n /\ (i < k \/ i = k)
    BY <1>0, <1>4
  <2>2. RegionEnd(r) <= regions[i].base
    BY <1>0, <1>1, <1>3, <1>6, <2>1
  <2>3. i < k => regions[i].base <= regions[k].base
    BY <2>1 DEF InOrder
  <2>4. r.base <= regions[k].base
    BY <1>1, <1>3, <1>5
  <2>5. /\ regions[i].base \in Nat /\ regions[k].base \in Nat /\ RegionEnd(r) \in Nat
    BY <1>1, <1>3, <2>1
  <2> QED
    BY <2>1, <2>2, <2>3, <2>4, <2>5
<1>10. regions' = Splice(regions, i, i, t)
  BY DEF InsertRegion, Splice
<1>11. t \in Seq(Region) /\ Len(t) = 1 /\ t[1] = r
  OBVIOUS
<1> HIDE DEF i, t
<1>12. /\ Len(regions') = n + 1
       /\ \A k \in 1..n+1 : regions'[k] = IF k < i THEN regions[k] ELSE IF k = i THEN r ELSE regions[k-1]
  <2>1. i \in 1..Len(regions)+1 /\ i \in i..Len(regions)+1
    BY <1>0, <1>4
  <2>2. /\ Len(regions') = Len(regions) + Len(t) - (i - i)
        /\ \A k \in 1..Len(regions') : regions'[k] = FromSplice(regions, i, i, t, k)
    BY <1>0, <1>10, <1>11, <2>1, SpliceEntries
  <2>3. Len(regions') = n + 1
    BY <1>0, <1>4, <1>11, <2>2
  <2>4. ASSUME NEW k \in 1..n+1
        PROVE  regions'[k] = IF k < i THEN regions[k] ELSE IF k = i THEN r ELSE regions[k-1]
    <3>1. regions'[k] = FromSplice(regions, i, i, t, k)
      BY <2>2, <2>3
    <3>2. /\ k = i => k - i + 1 = 1
          /\ (~(k < i) /\ k # i) => ~(k < i + 1)
          /\ k - 1 - i + i = k - 1
      BY <1>0, <1>4
    <3> QED
      BY <1>0, <1>4, <1>11, <3>1, <3>2 DEF FromSplice
  <2> QED
    BY <2>3, <2>4
<1>13. ASSUME NEW j \in 1..n+1
       PROVE  regions'[j].base + regions'[j].size <= NPages
  <2>1. CASE j < i
    BY <1>0, <1>4, <1>12, <2>1 DEF InOrder
  <2>2. CASE j = i
    BY <1>7, <1>12, <2>2, <1>4
  <2>3. CASE j > i
    <3>1. j - 1 \in 1..n /\ regions'[j] = regions[j-1]
      BY <1>0, <1>4, <1>12, <2>3
    <3> QED
      BY <3>1 DEF InOrder
  <2> QED
    BY <1>0, <1>4, <2>1, <2>2, <2>3
<1>14. ASSUME NEW j \in 1..n+1, NEW k \in 1..n+1, j < k
       PROVE  regions'[j].base <= regions'[k].base /\ RegionEnd(regions'[j]) <= regions'[k].base
  <2>1. CASE k < i
    <3>1. j \in 1..n /\ k \in 1..n /\ regions'[j] = regions[j] /\ regions'[k] = regions[k]
      BY <1>0, <1>4, <1>12, <1>14, <2>1
    <3> QED
      BY <1>14, <3>1 DEF InOrder
  <2>2. CASE k = i
    <3>1. j \in 1..n /\ j < i /\ regions'[j] = regions[j] /\ regions'[k] = r
      BY <1>0, <1>4, <1>12, <1>14, <2>2
    <3> QED
      BY <1>1, <1>3, <1>5, <1>8, <3>1
  <2>3. CASE k > i /\ j < i
    <3>1. j \in 1..n /\ k - 1 \in 1..n /\ j < k - 1 /\ regions'[j] = regions[j] /\ regions'[k] = regions[k-1]
      BY <1>0, <1>4, <1>12, <1>14, <2>3
    <3> QED
      BY <3>1 DEF InOrder
  <2>4. CASE k > i /\ j = i
    <3>1. k - 1 \in 1..n /\ ~(k - 1 < i) /\ regions'[j] = r /\ regions'[k] = regions[k-1]
      BY <1>0, <1>4, <1>12, <1>14, <2>4
    <3> QED
      BY <1>9, <3>1
  <2>5. CASE j > i
    <3>1. /\ j - 1 \in 1..n /\ k - 1 \in 1..n /\ j - 1 < k - 1
          /\ regions'[j] = regions[j-1] /\ regions'[k] = regions[k-1]
      BY <1>0, <1>4, <1>12, <1>14, <2>5
    <3> QED
      BY <3>1 DEF InOrder
  <2> QED
    BY <1>0, <1>4, <1>14, <2>1, <2>2, <2>3, <2>4, <2>5
<1> QED
  BY <1>12, <1>13, <1>14 DEF InOrder

\* A sequence of pieces laid out one after the other between lo and hi.
Laid(s, lo, hi) ==
  /\ \A k \in 1..Len(s) : s[k].base \in Nat /\ s[k].size \in Nat
                          /\ s[k].size >= 1 /\ lo <= s[k].base /\ s[k].base + s[k].size <= hi
  /\ \A k, l \in 1..Len(s) : k < l => s[k].base + s[k].size <= s[l].base

LEMMA LaidConcat ==
  ASSUME NEW S, NEW s \in Seq(S), NEW t \in Seq(S),
         NEW lo \in Nat, NEW mid \in Nat, NEW hi \in Nat, lo <= mid, mid <= hi,
         Laid(s, lo, mid), Laid(t, mid, hi)
  PROVE  s \o t \in Seq(S) /\ Laid(s \o t, lo, hi)
<1> DEFINE c == s \o t
           m == Len(s)
           n == Len(t)
<1>0. m \in Nat /\ n \in Nat
  BY LenProperties
<1>1. /\ c \in Seq(S) /\ Len(c) = m + n
      /\ \A k \in 1..m+n : c[k] = IF k <= m THEN s[k] ELSE t[k-m]
  BY ConcatProperties
<1> HIDE DEF c
<1>s. ASSUME NEW k \in 1..m
      PROVE  s[k].base \in Nat /\ s[k].size \in Nat /\ s[k].size >= 1
             /\ lo <= s[k].base /\ s[k].base + s[k].size <= mid
  BY DEF Laid
<1>t. ASSUME NEW k \in 1..n
      PROVE  t[k].base \in Nat /\ t[k].size \in Nat /\ t[k].size >= 1
             /\ mid <= t[k].base /\ t[k].base + t[k].size <= hi
  BY DEF Laid
<1>ss. \A k, l \in 1..m : k < l => s[k].base + s[k].size <= s[l].base
  BY DEF Laid
<1>tt. \A k, l \in 1..n : k < l => t[k].base + t[k].size <= t[l].base
  BY DEF Laid
<1> HIDE DEF m, n
<1>2. ASSUME NEW k \in 1..m+n
      PROVE  c[k].base \in Nat /\ c[k].size \in Nat /\ c[k].size >= 1
             /\ lo <= c[k].base /\ c[k].base + c[k].size <= hi
  <2>1. CASE k <= m
    <3>1. k \in 1..m /\ c[k] = s[k]
      BY <1>0, <1>1, <2>1
    <3> QED
      BY <1>s, <3>1
  <2>2. CASE k > m
    <3>1. k - m \in 1..n /\ c[k] = t[k-m]
      BY <1>0, <1>1, <2>2
    <3> QED
      BY <1>t, <3>1
  <2> QED
    BY <1>0, <2>1, <2>2
<1>3. ASSUME NEW k \in 1..m+n, NEW l \in 1..m+n, k < l
      PROVE  c[k].base + c[k].size <= c[l].base
  <2>1. CASE l <= m
    <3>1. k \in 1..m /\ l \in 1..m /\ c[k] = s[k] /\ c[l] = s[l]
      BY <1>0, <1>1, <1>3, <2>1
    <3> QED
      BY <1>ss, <1>3, <3>1
  <2>2. CASE k <= m /\ l > m
    <3>1. k \in 1..m /\ l - m \in 1..n /\ c[k] = s[k] /\ c[l] = t[l-m]
      BY <1>0, <1>1, <1>3, <2>2
    <3>2. s[k].base + s[k].size <= mid /\ s[k].base \in Nat /\ s[k].size \in Nat
      BY <1>s, <3>1
    <3>3. mid <= t[l-m].base /\ t[l-m].base \in Nat
      BY <1>t, <3>1
    <3> QED
      BY <3>1, <3>2, <3>3
  <2>3. CASE k > m
    <3>1. k - m \in 1..n /\ l - m \in 1..n /\ k - m < l - m /\ c[k] = t[k-m] /\ c[l] = t[l-m]
      BY <1>0, <1>1, <1>3, <2>3
    <3> QED
      BY <1>tt, <3>1
  <2> QED
    BY <1>0, <1>3, <2>1, <2>2, <2>3
<1> QED
  BY <1>1, <1>2, <1>3 DEF Laid, c

LEMMA LaidEmpty == ASSUME NEW lo, NEW hi PROVE Laid(<<>>, lo, hi)
<1>1. Len(<<>>) = 0
  OBVIOUS
<1> QED
  BY <1>1 DEF Laid

LEMMA LaidOne ==
  ASSUME NEW lo \in Nat, NEW hi \in Nat, lo < hi, NEW perms, NEW user
  PROVE  Laid(<<Segment(lo, hi, perms, user)>>, lo, hi)
<1> DEFINE x == Segment(lo, hi, perms, user)
           s == <<x>>
<1>1. x.base = lo /\ x.size = hi - lo
  BY DEF Segment
<1>2. Len(s) = 1 /\ s[1] = x
  OBVIOUS
<1> HIDE DEF x, s
<1>3. \A k \in 1..Len(s) : k = 1 /\ s[k] = x
  BY <1>2
<1>4. Laid(s, lo, hi)
  BY <1>1, <1>3 DEF Laid
<1> QED
  BY <1>4 DEF s, x

LEMMA SegmentsLaid ==
  ASSUME TypeOK, op.pc = "walk", op.current < op.end, NEW r \in Region,
         r.base <= op.current, op.current < RegionEnd(r)
  PROVE  Laid(Segments(r), r.base, RegionEnd(r))
<1> DEFINE S == [base : Int, size : Int, perms : SUBSET Rights, user : BOOLEAN]
           left  == IF r.base < op.current
                    THEN <<Segment(r.base, op.current, r.perms, r.user)>> ELSE <<>>
           mid   == CASE op.kind = "unmap"   -> <<>>
                      [] op.kind = "protect" -> <<Segment(op.current, ChunkEnd(r), op.arg, r.user)>>
                      [] op.kind = "attrs"   -> <<Segment(op.current, ChunkEnd(r), r.perms, op.arg)>>
           right == IF ChunkEnd(r) < RegionEnd(r)
                    THEN <<Segment(ChunkEnd(r), RegionEnd(r), r.perms, r.user)>> ELSE <<>>
           a == r.base
           b == op.current
           c == ChunkEnd(r)
           d == RegionEnd(r)
<1>0. a \in Nat /\ b \in Nat /\ c \in Nat /\ d \in Nat /\ a <= b /\ b < c /\ c <= d
  <2>1. RegionEnd(r) \in Pages /\ ChunkEnd(r) \in Pages /\ op.current < ChunkEnd(r) /\ ChunkEnd(r) <= RegionEnd(r)
    BY SegmentsType
  <2>2. r.base \in Nat
    BY RegionNumbers
  <2> QED
    BY <2>1, <2>2, SizesAssumption DEF TypeOK, Pages
<1>1. /\ r.perms \in SUBSET Rights /\ r.user \in BOOLEAN /\ op.kind \in RangeKinds
      /\ op.kind = "protect" => op.arg \in SUBSET Rights
      /\ op.kind = "attrs" => op.arg \in BOOLEAN
  BY DEF TypeOK, Region
<1> HIDE DEF a, b, c, d
<1>2. left \in Seq(S) /\ Laid(left, a, b)
  <2>1. CASE a < b
    <3>1. left = <<Segment(a, b, r.perms, r.user)>>
      BY <2>1 DEF a, b
    <3>2. Segment(a, b, r.perms, r.user) \in S
      BY <1>0, <1>1 DEF Segment
    <3> HIDE DEF left, S
    <3> QED
      BY <1>0, <2>1, <3>1, <3>2, LaidOne
  <2>2. CASE ~(a < b)
    BY <2>2, LaidEmpty DEF a, b
  <2> QED
    BY <2>1, <2>2
<1>3. mid \in Seq(S) /\ Laid(mid, b, c)
  <2>1. CASE op.kind = "unmap"
    BY <2>1, LaidEmpty
  <2>2. CASE op.kind = "protect"
    <3>1. mid = <<Segment(b, c, op.arg, r.user)>>
      BY <2>2 DEF b, c
    <3>2. Segment(b, c, op.arg, r.user) \in S
      BY <1>0, <1>1, <2>2 DEF Segment
    <3> HIDE DEF mid, S
    <3> QED
      BY <1>0, <3>1, <3>2, LaidOne
  <2>3. CASE op.kind = "attrs"
    <3>1. mid = <<Segment(b, c, r.perms, op.arg)>>
      BY <2>3 DEF b, c
    <3>2. Segment(b, c, r.perms, op.arg) \in S
      BY <1>0, <1>1, <2>3 DEF Segment
    <3> HIDE DEF mid, S
    <3> QED
      BY <1>0, <3>1, <3>2, LaidOne
  <2> QED
    BY <1>1, <2>1, <2>2, <2>3 DEF RangeKinds
<1>4. right \in Seq(S) /\ Laid(right, c, d)
  <2>1. CASE c < d
    <3>1. right = <<Segment(c, d, r.perms, r.user)>>
      BY <2>1 DEF c, d
    <3>2. Segment(c, d, r.perms, r.user) \in S
      BY <1>0, <1>1 DEF Segment
    <3> HIDE DEF right, S
    <3> QED
      BY <1>0, <2>1, <3>1, <3>2, LaidOne
  <2>2. CASE ~(c < d)
    BY <2>2, LaidEmpty DEF c, d
  <2> QED
    BY <2>1, <2>2
<1>5. Segments(r) = (left \o mid) \o right
  BY DEF Segments
<1> HIDE DEF S, left, mid, right
<1>6. left \o mid \in Seq(S) /\ Laid(left \o mid, a, c)
  BY <1>0, <1>2, <1>3, LaidConcat
<1>7. Laid((left \o mid) \o right, a, d)
  <2> DEFINE lm == left \o mid
  <2>1. lm \in Seq(S) /\ Laid(lm, a, c) /\ a <= c
    BY <1>0, <1>6
  <2> HIDE DEF lm
  <2>2. Laid(lm \o right, a, d)
    BY <1>0, <1>4, <2>1, LaidConcat
  <2> QED
    BY <2>2 DEF lm
<1> QED
  BY <1>5, <1>7 DEF a, d

\* The regions that one iteration of a range call puts in the place of region r.
NewPieces(r, bufs) ==
  [k \in 1..Len(Segments(r)) |->
     BuildRegionSegment(r, Segments(r)[k], IF r.external THEN Host ELSE bufs[k])]

LEMMA WalkRegionFacts ==
  ASSUME TypeOK, RangeStep
  PROVE  LET r == regions[WalkRegion]
         IN  /\ WalkRegion \in 1..Len(regions) /\ r \in Region
             /\ op.pc = "walk" /\ op.current < op.end
             /\ r.base <= op.current /\ op.current < RegionEnd(r)
             /\ Segments(r) \in Seq([base : r.base..NPages-1, size : 1..NPages,
                                     perms : SUBSET Rights, user : BOOLEAN])
             /\ Laid(Segments(r), r.base, RegionEnd(r))
<1> DEFINE i == WalkRegion
           r == regions[i]
<1>0. /\ regions \in Seq(Region) /\ Len(regions) \in Nat
      /\ op.pc = "walk" /\ op.current \in Pages /\ op.current < op.end
  BY LenProperties DEF TypeOK, RangeStep
<1>1. i # 0 /\ i = FindRegionIndex(regions, op.current)
  BY DEF RangeStep, WalkRegion
<1>2. /\ i \in 0..Len(regions) /\ r \in Region
      /\ r.base <= op.current /\ op.current < RegionEnd(r)
  <2> HIDE DEF i
  <2> QED BY <1>0, <1>1, RegionIndexType
<1>3. i \in 1..Len(regions)
  BY <1>0, <1>1, <1>2
<1> HIDE DEF i, r
<1>4. Segments(r) \in Seq([base : r.base..NPages-1, size : 1..NPages,
                           perms : SUBSET Rights, user : BOOLEAN])
  BY <1>0, <1>2, SegmentsType
<1>5. Laid(Segments(r), r.base, RegionEnd(r))
  BY <1>0, <1>2, SegmentsLaid
<1> QED
  BY <1>0, <1>2, <1>3, <1>4, <1>5 DEF i, r

LEMMA RangeStepSplices ==
  ASSUME TypeOK, RangeStep
  PROVE  LET i == WalkRegion
             r == regions[i]
             segs == Segments(r)
             need == IF r.external THEN {} ELSE DOMAIN segs
         IN  \E bufs \in [need -> BufIds \ DOMAIN heap] :
               /\ \A j, k \in need : bufs[j] = bufs[k] => j = k
               /\ heap' = [b \in (DOMAIN heap \ (IF r.external THEN {} ELSE {r.data.buf}))
                                 \cup {bufs[k] : k \in need} |->
                             IF \E k \in need : bufs[k] = b
                             THEN LET k == CHOOSE j \in need : bufs[j] = b
                                  IN  [x \in 0..segs[k].size*PageSize-1 |->
                                         heap[r.data.buf][SegmentOffset(r, segs[k]) + x]]
                             ELSE heap[b]]
               /\ NewPieces(r, bufs) \in Seq(Region)
               /\ regions' = Splice(regions, i, i+1, NewPieces(r, bufs))
<1> DEFINE i == WalkRegion
           r == regions[i]
           segs == Segments(r)
           need == IF r.external THEN {} ELSE DOMAIN segs
           S == [base : r.base..NPages-1, size : 1..NPages,
                 perms : SUBSET Rights, user : BOOLEAN]
<1>0. i \in 1..Len(regions) /\ r \in Region /\ segs \in Seq(S)
  BY WalkRegionFacts
<1>1. PICK bufs \in [need -> BufIds \ DOMAIN heap] :
        /\ \A j, k \in need : bufs[j] = bufs[k] => j = k
        /\ heap' = [b \in (DOMAIN heap \ (IF r.external THEN {} ELSE {r.data.buf}))
                          \cup {bufs[k] : k \in need} |->
                      IF \E k \in need : bufs[k] = b
                      THEN LET k == CHOOSE j \in need : bufs[j] = b
                           IN  [x \in 0..segs[k].size*PageSize-1 |->
                                  heap[r.data.buf][SegmentOffset(r, segs[k]) + x]]
                      ELSE heap[b]]
        /\ regions' = SubSeq(regions, 1, i-1)
                      \o [k \in DOMAIN segs |->
                            BuildRegionSegment(r, segs[k], IF r.external THEN Host ELSE bufs[k])]
                      \o SubSeq(regions, i+1, Len(regions))
  BY DEF RangeStep
<1>2. Len(segs) \in Nat /\ DOMAIN segs = 1..Len(segs)
  BY <1>0, LenProperties
<1>3. regions' = Splice(regions, i, i+1, NewPieces(r, bufs))
  BY <1>1, <1>2 DEF Splice, NewPieces
<1>4. NewPieces(r, bufs) \in Seq(Region)
  <2> DEFINE new(k) == BuildRegionSegment(r, segs[k], IF r.external THEN Host ELSE bufs[k])
  <2>1. ASSUME NEW k \in 1..Len(segs) PROVE new(k) \in Region
    <3>1. segs[k] \in S
      BY <1>0, ElementOfSeq
    <3>2. /\ segs[k].base \in Pages /\ r.base <= segs[k].base /\ segs[k].size \in 1..NPages
          /\ segs[k].perms \in SUBSET Rights /\ segs[k].user \in BOOLEAN
      <4>1. r.base \in Nat /\ NPages \in Nat
        BY <1>0, RegionNumbers, SizesAssumption
      <4> HIDE DEF r, segs
      <4> QED
        BY <3>1, <4>1 DEF Pages
    <3>3. SegmentOffset(r, segs[k]) \in Nat
      <4>1. /\ r.data.off \in Nat /\ r.base \in Nat /\ segs[k].base \in Nat
            /\ PageSize \in Nat /\ r.base <= segs[k].base
        BY <1>0, <3>2, SizesAssumption DEF Region, Ptr, Pages
      <4> HIDE DEF r, segs
      <4> QED
        BY <4>1, OffsetNat DEF SegmentOffset
    <3>4. r.external \in BOOLEAN /\ (r.external => r.data.buf = Host)
      BY <1>0 DEF Region, Ptr
    <3>5. ~r.external => bufs[k] \in BufIds /\ bufs[k] # Host
      <4>1. ~r.external => k \in need
        BY <1>2, <2>1
      <4>2. \A j \in need : bufs[j] \in BufIds
        BY <1>1
      <4> HIDE DEF need, r
      <4> QED
        BY <4>1, <4>2, InputsAssumption
    <3> HIDE DEF r, segs, need
    <3> QED
      BY <3>2, <3>3, <3>4, <3>5 DEF BuildRegionSegment, Region, Ptr
  <2>2. NewPieces(r, bufs) = [k \in 1..Len(segs) |-> new(k)]
    BY DEF NewPieces
  <2> HIDE DEF new, segs, r
  <2> QED
    BY <1>2, <2>1, <2>2
<1> QED
  BY <1>1, <1>3, <1>4

LEMMA StepKeepsOrder ==
  ASSUME TypeOK, InOrder(regions), RangeStep
  PROVE  InOrder(regions')
<1> DEFINE i == WalkRegion
           r == regions[i]
           segs == Segments(r)
           n == Len(regions)
           m == Len(segs)
<1>0. /\ i \in 1..n /\ r \in Region /\ r.base <= op.current /\ op.current < RegionEnd(r)
      /\ Laid(segs, r.base, RegionEnd(r)) /\ op.current \in Nat
  BY WalkRegionFacts, SizesAssumption DEF TypeOK, Pages
<1>1. PICK bufs : /\ NewPieces(r, bufs) \in Seq(Region)
                  /\ regions' = Splice(regions, i, i+1, NewPieces(r, bufs))
  BY RangeStepSplices
<1> DEFINE t == NewPieces(r, bufs)
<1>2. regions \in Seq(Region) /\ n \in Nat /\ m \in Nat /\ Len(t) = m
  <2>1. regions \in Seq(Region) /\ n \in Nat
    BY LenProperties DEF TypeOK
  <2>2. m \in Nat
    BY WalkRegionFacts, LenProperties
  <2>3. t = [k \in 1..m |-> BuildRegionSegment(r, segs[k], IF r.external THEN Host ELSE bufs[k])]
    BY DEF NewPieces
  <2> HIDE DEF m, segs, r, t
  <2> QED
    BY <2>1, <2>2, <2>3
<1>3. \A k \in 1..m : t[k].base = segs[k].base /\ t[k].size = segs[k].size
  <2>1. ASSUME NEW k \in 1..m PROVE t[k] = BuildRegionSegment(r, segs[k], IF r.external THEN Host ELSE bufs[k])
    BY DEF NewPieces
  <2>2. \A b, s : /\ BuildRegionSegment(r, s, b).base = s.base
                  /\ BuildRegionSegment(r, s, b).size = s.size
    BY DEF BuildRegionSegment
  <2> HIDE DEF t, m, segs, r
  <2> QED
    BY <2>1, <2>2
<1>4. r.base \in Nat /\ r.size \in Nat /\ RegionEnd(r) \in Nat /\ NPages \in Nat \ {0}
  BY <1>0, RegionNumbers, SizesAssumption
<1>5. RegionEnd(r) < NPages
  <2>1. r.base + r.size \in Int
    BY <1>4
  <2>2. RegionEnd(r) \in 0..NPages-1
    BY <1>4, <2>1, ModType DEF RegionEnd
  <2> QED
    BY <1>4, <2>2
<1>6. \A k \in 1..n : regions[k].base \in Nat /\ regions[k].size \in Nat /\ RegionEnd(regions[k]) \in Nat
  BY <1>2, ElementOfSeq, RegionNumbers
<1> DEFINE lo == r.base
           hi == RegionEnd(r)
<1>7. \A k \in 1..m : /\ segs[k].base \in Nat /\ segs[k].size \in Nat /\ segs[k].size >= 1
                      /\ lo <= segs[k].base /\ segs[k].base + segs[k].size <= hi
  BY <1>0 DEF Laid
<1>8. \A k, l \in 1..m : k < l => segs[k].base + segs[k].size <= segs[l].base
  BY <1>0 DEF Laid
<1>9. \A k \in 1..n : k < i => regions[k].base <= lo /\ RegionEnd(regions[k]) <= lo
  BY <1>0 DEF InOrder
<1>10. \A k \in 1..n : i < k => lo <= regions[k].base /\ hi <= regions[k].base
  BY <1>0 DEF InOrder
<1>11. regions' = Splice(regions, i, i+1, t)
  BY <1>1
<1>12. t \in Seq(Region)
  BY <1>1
<1> HIDE DEF i, r, segs, n, m, t
<1>13. \A k \in 1..m : /\ t[k].base \in Nat /\ t[k].size \in Nat /\ t[k].size >= 1
                       /\ lo <= t[k].base /\ t[k].base + t[k].size <= hi
                       /\ RegionEnd(t[k]) = t[k].base + t[k].size
  <2> HIDE DEF lo, hi
  <2> SUFFICES ASSUME NEW k \in 1..m
               PROVE  /\ t[k].base \in Nat /\ t[k].size \in Nat /\ t[k].size >= 1
                      /\ lo <= t[k].base /\ t[k].base + t[k].size <= hi
                      /\ RegionEnd(t[k]) = t[k].base + t[k].size
    OBVIOUS
  <2>1. /\ t[k].base \in Nat /\ t[k].size \in Nat /\ t[k].size >= 1
        /\ lo <= t[k].base /\ t[k].base + t[k].size <= hi
    BY <1>3, <1>7
  <2> DEFINE e == t[k].base + t[k].size
  <2>2. e \in Nat /\ e < NPages
    BY <1>4, <1>5, <2>1 DEF hi
  <2> HIDE DEF e
  <2>3. e % NPages = e
    BY <1>4, <2>2
  <2> QED
    BY <2>1, <2>3 DEF RegionEnd, e
<1>14. \A k, l \in 1..m : k < l => t[k].base + t[k].size <= t[l].base
  BY <1>3, <1>8
<1> HIDE DEF lo, hi
<1>15. /\ Len(regions') = n + m - 1
       /\ \A k \in 1..n+m-1 : /\ k < i => k \in 1..n /\ regions'[k] = regions[k]
                              /\ i <= k /\ k < i + m => k - i + 1 \in 1..m /\ regions'[k] = t[k-i+1]
                              /\ i + m <= k => /\ k - m + 1 \in 1..n /\ i < k - m + 1
                                               /\ regions'[k] = regions[k-m+1]
  <2> DEFINE j == i + 1
  <2>1. i \in 1..Len(regions)+1 /\ j \in i..Len(regions)+1
    BY <1>0, <1>2 DEF n
  <2>2. regions' = Splice(regions, i, j, t)
    BY <1>11
  <2>j. j = i + 1
    OBVIOUS
  <2> HIDE DEF j
  <2>3. /\ Len(regions') = Len(regions) + Len(t) - (j - i)
        /\ \A k \in 1..Len(regions') : regions'[k] = FromSplice(regions, i, j, t, k)
    BY <1>2, <1>12, <2>1, <2>2, SpliceEntries
  <2>4. Len(regions') = n + m - 1
    BY <1>0, <1>2, <2>3, <2>j DEF n
  <2>5. ASSUME NEW k \in 1..n+m-1
        PROVE  /\ k < i => k \in 1..n /\ regions'[k] = regions[k]
               /\ i <= k /\ k < i + m => k - i + 1 \in 1..m /\ regions'[k] = t[k-i+1]
               /\ i + m <= k => /\ k - m + 1 \in 1..n /\ i < k - m + 1
                                /\ regions'[k] = regions[k-m+1]
    <3>1. regions'[k] = FromSplice(regions, i, j, t, k)
      BY <2>3, <2>4
    <3>2. regions'[k] = IF k < i THEN regions[k] ELSE IF k < i + m THEN t[k - i + 1] ELSE regions[k - m - i + j]
      BY <1>2, <3>1 DEF FromSplice
    <3>3. k - m - i + j = k - m + 1 /\ i \in Nat /\ k \in Nat /\ i <= n /\ 1 <= i
      BY <1>0, <1>2, <2>j
    <3> QED
      BY <1>2, <3>2, <3>3
  <2> QED
    BY <2>4, <2>5
<1>16. ASSUME NEW k \in 1..n+m-1
       PROVE  regions'[k].base + regions'[k].size <= NPages
  <2>1. CASE k < i
    BY <1>15, <2>1 DEF InOrder, n
  <2>2. CASE i <= k /\ k < i + m
    <3>1. k - i + 1 \in 1..m /\ regions'[k] = t[k-i+1]
      BY <1>15, <2>2
    <3>2. hi \in Nat /\ hi < NPages
      BY <1>4, <1>5 DEF hi
    <3> QED
      BY <1>4, <1>13, <3>1, <3>2
  <2>3. CASE i + m <= k
    BY <1>15, <2>3 DEF InOrder, n
  <2> QED
    BY <1>0, <1>2, <2>1, <2>2, <2>3
<1>17. ASSUME NEW k \in 1..n+m-1, NEW l \in 1..n+m-1, k < l
       PROVE  regions'[k].base <= regions'[l].base /\ RegionEnd(regions'[k]) <= regions'[l].base
  <2>0. i \in Nat /\ m \in Nat /\ n \in Nat /\ k \in Nat /\ l \in Nat /\ lo \in Nat /\ hi \in Nat
    BY <1>0, <1>2, <1>4 DEF lo, hi
  <2>1. CASE l < i
    <3>1. k \in 1..n /\ l \in 1..n /\ regions'[k] = regions[k] /\ regions'[l] = regions[l]
      BY <1>15, <1>17, <2>0, <2>1
    <3> QED
      BY <1>17, <3>1 DEF InOrder, n
  <2>2. CASE k < i /\ i <= l /\ l < i + m
    <3>1. k \in 1..n /\ regions'[k] = regions[k] /\ l - i + 1 \in 1..m /\ regions'[l] = t[l-i+1]
      BY <1>15, <2>2
    <3>2. lo <= t[l-i+1].base /\ t[l-i+1].base \in Nat
      BY <1>13, <3>1
    <3>3. regions[k].base <= lo /\ RegionEnd(regions[k]) <= lo /\ regions[k].base \in Nat /\ RegionEnd(regions[k]) \in Nat
      BY <1>6, <1>9, <2>2, <3>1
    <3> QED
      BY <2>0, <3>1, <3>2, <3>3
  <2>3. CASE k < i /\ i + m <= l
    <3>1. k \in 1..n /\ regions'[k] = regions[k] /\ l - m + 1 \in 1..n /\ regions'[l] = regions[l-m+1] /\ k < l - m + 1
      BY <1>15, <2>0, <2>3
    <3> QED
      BY <3>1 DEF InOrder, n
  <2>4. CASE i <= k /\ l < i + m
    <3>1. /\ k - i + 1 \in 1..m /\ regions'[k] = t[k-i+1]
          /\ l - i + 1 \in 1..m /\ regions'[l] = t[l-i+1] /\ k - i + 1 < l - i + 1
      BY <1>15, <1>17, <2>0, <2>4
    <3>2. /\ t[k-i+1].base + t[k-i+1].size <= t[l-i+1].base /\ t[k-i+1].base \in Nat /\ t[k-i+1].size \in Nat
          /\ RegionEnd(t[k-i+1]) = t[k-i+1].base + t[k-i+1].size /\ t[l-i+1].base \in Nat
      BY <1>13, <1>14, <3>1
    <3> QED
      BY <3>1, <3>2
  <2>5. CASE i <= k /\ k < i + m /\ i + m <= l
    <3>1. /\ k - i + 1 \in 1..m /\ regions'[k] = t[k-i+1]
          /\ l - m + 1 \in 1..n /\ i < l - m + 1 /\ regions'[l] = regions[l-m+1]
      BY <1>15, <2>5
    <3>2. /\ t[k-i+1].base + t[k-i+1].size <= hi /\ t[k-i+1].base \in Nat /\ t[k-i+1].size \in Nat
          /\ RegionEnd(t[k-i+1]) = t[k-i+1].base + t[k-i+1].size
      BY <1>13, <3>1
    <3>3. hi <= regions[l-m+1].base /\ regions[l-m+1].base \in Nat
      BY <1>6, <1>10, <3>1
    <3> QED
      BY <2>0, <3>1, <3>2, <3>3
  <2>6. CASE i + m <= k
    <3>1. /\ k - m + 1 \in 1..n /\ l - m + 1 \in 1..n /\ k - m + 1 < l - m + 1
          /\ regions'[k] = regions[k-m+1] /\ regions'[l] = regions[l-m+1]
      BY <1>15, <1>17, <2>0, <2>6
    <3> QED
      BY <3>1 DEF InOrder, n
  <2> QED
    BY <1>17, <2>0, <2>1, <2>2, <2>3, <2>4, <2>5, <2>6
<1> QED
  BY <1>15, <1>16, <1>17 DEF InOrder

LEMMA OrderKept == TypeOK /\ InOrder(regions) /\ [Next]_vars => InOrder(regions')
<1> SUFFICES ASSUME TypeOK, InOrder(regions), [Next]_vars PROVE InOrder(regions')
  OBVIOUS
<1>1. ASSUME NEW p \in MapPages, NEW n \in MapSizes, NEW perms \in PermChoices,
             MapInternal(p, n, perms)
      PROVE  InOrder(regions')
  <2>0. p \in Pages /\ n \in 1..NPages /\ perms \in SUBSET Rights
    BY InputsAssumption DEF Pages
  <2>1. PICK b \in BufIds \ DOMAIN heap :
          InsertRegion([base |-> p, size |-> n, data |-> [buf |-> b, off |-> 0],
                        perms |-> perms, user |-> TRUE, external |-> FALSE])
    BY <1>1 DEF MapInternal
  <2> DEFINE r == [base |-> p, size |-> n, data |-> [buf |-> b, off |-> 0],
                   perms |-> perms, user |-> TRUE, external |-> FALSE]
  <2>2. r \in Region /\ r.base = p /\ r.size = n
    BY <2>0, <2>1, InputsAssumption DEF Region, Ptr
  <2>3. ~HasOverlap(regions, p, n)
    BY <1>1 DEF MapInternal, CanMap
  <2> HIDE DEF r
  <2> QED
    BY <2>1, <2>2, <2>3, InsertKeepsOrder DEF r
<1>2. ASSUME NEW p \in MapPages, NEW n \in MapSizes, NEW perms \in PermChoices,
             NEW h \in HostPtrs, MapHost(p, n, perms, h)
      PROVE  InOrder(regions')
  <2>0. p \in Pages /\ n \in 1..NPages /\ perms \in SUBSET Rights
    BY InputsAssumption DEF Pages
  <2>1. h * PageSize \in Nat
    <3>1. h \in Nat /\ PageSize \in Nat
      BY InputsAssumption, SizesAssumption
    <3> QED
      BY <3>1, TimesNat
  <2> DEFINE r == [base |-> p, size |-> n, data |-> [buf |-> Host, off |-> h * PageSize],
                   perms |-> perms, user |-> TRUE, external |-> TRUE]
  <2>2. r \in Region /\ r.base = p /\ r.size = n
    BY <2>0, <2>1 DEF Region, Ptr
  <2>3. ~HasOverlap(regions, p, n) /\ InsertRegion(r)
    BY <1>2 DEF MapHost, CanMap
  <2> HIDE DEF r
  <2> QED
    BY <2>2, <2>3, InsertKeepsOrder
<1>3. CASE RangeStep
  BY <1>3, StepKeepsOrder
<1>4. CASE Destroy
  <2>1. Len(regions') = 0
    BY <1>4 DEF Destroy
  <2> QED
    BY <2>1 DEF InOrder
<1>5. CASE UNCHANGED regions
  BY <1>5
<1> QED
  BY <1>1, <1>2, <1>3, <1>4, <1>5
  DEF Next, SetHostPassthrough, BeginRange, RangeEmpty, RangeFail, AddPatch, DelPatch, Access, WriteByte,
      Reopen, vars

\* In an ordered array a region below the top holds what it contains, and a region at
\* the top holds nothing: its end is 0.
LEMMA HoldersBelowTop ==
  ASSUME regions \in Seq(Region), InOrder(regions), NEW p \in Pages
  PROVE  RegionsBelowTop(p) = Holders(regions, p)
<1>0. DOMAIN regions = 1..Len(regions) /\ p \in Nat
  BY LenProperties, SizesAssumption DEF Pages
<1>1. ASSUME NEW i \in DOMAIN regions
      PROVE  Contains(regions[i], p) /\ ~EndsAtTop(regions[i])
               <=> regions[i].base <= p /\ p < RegionEnd(regions[i])
  <2> DEFINE b == regions[i].base
             n == regions[i].size
  <2>1. /\ NPages \in Nat \ {0} /\ b \in Nat /\ n \in Nat /\ b + n <= NPages
        /\ b + n \in 0..NPages
    BY <1>0, <1>1, ElementOfSeq, RegionNumbers, SizesAssumption DEF InOrder
  <2>2. RegionEnd(regions[i]) = (b + n) % NPages
    BY DEF RegionEnd
  <2>3. CASE b + n = NPages
    <3>1. NPages % NPages = 0
      BY <2>1
    <3>2. RegionEnd(regions[i]) = 0
      BY <2>2, <2>3, <3>1
    <3> QED
      BY <1>0, <2>3, <3>2 DEF EndsAtTop
  <2>4. CASE b + n # NPages
    <3>1. b + n < NPages
      BY <2>1, <2>4
    <3>2. (b + n) % NPages = b + n
      BY <2>1, <3>1
    <3> QED
      BY <2>2, <2>4, <3>2 DEF Contains, EndsAtTop
  <2> QED
    BY <2>3, <2>4
<1> QED
  BY <1>1 DEF RegionsBelowTop, Holders

(* The searches: after any sequence of mappings, splits and half-done      *)
(* range calls, for every size of the address space, mm_find_region_index  *)
(* answers the one region below the top that contains the page, none when  *)
(* there is none, and never a region that ends at the top;                 *)
(* mm_find_insertion_index answers where the base belongs.                 *)
THEOREM SearchesAnswer == Spec => []SearchExact
<1>1. Init => InOrder(regions)
  <2>1. Init => Len(regions) = 0
    BY DEF Init
  <2> QED
    BY <2>1 DEF InOrder
<1>2. TypeOK /\ InOrder(regions) => SearchExact
  <2> SUFFICES ASSUME TypeOK, InOrder(regions) PROVE SearchExact
    OBVIOUS
  <2>1. regions \in Seq(Region) /\ Len(regions) \in Nat /\ DOMAIN regions = 1..Len(regions)
    BY LenProperties DEF TypeOK
  <2> SUFFICES ASSUME NEW p \in Pages
               PROVE  LET found == RegionBinarySearch(regions, p)
                          below == RegionsBelowTop(p)
                      IN  /\ IF below = {} THEN found = 0 ELSE below = {found}
                          /\ InsertionBinarySearch(regions, p) = FindInsertionIndex(regions, p)
    BY DEF SearchExact
  <2> DEFINE H == Holders(regions, p)
  <2>2. /\ \A i, j \in H : i = j
        /\ RegionBinarySearch(regions, p) = FindRegionIndex(regions, p)
        /\ InsertionBinarySearch(regions, p) = FindInsertionIndex(regions, p)
    BY <2>1, SearchesOfOrdered
  <2>3. RegionsBelowTop(p) = H
    BY <2>1, HoldersBelowTop
  <2>5. CASE H = {}
    BY <2>2, <2>3, <2>5 DEF FindRegionIndex
  <2>6. CASE H # {}
    <3>1. FindRegionIndex(regions, p) = CHOOSE i \in H : TRUE
      BY <2>6 DEF FindRegionIndex
    <3>2. FindRegionIndex(regions, p) \in H
      BY <2>6, <3>1
    <3> HIDE DEF H
    <3>3. H = {FindRegionIndex(regions, p)}
      BY <2>2, <3>2
    <3> QED
      BY <2>2, <2>3, <2>6, <3>3
  <2> QED
    BY <2>5, <2>6
<1>3. TypeOK /\ InOrder(regions) /\ [Next]_vars => InOrder(regions)'
  BY OrderKept
<1> QED
  BY <1>1, <1>2, <1>3, TypeCorrect, PTL DEF Spec

-----------------------------------------------------------------------------
(* Every heap block has one owner.                                         *)

\* Where Splice(s, i, j, t) puts entry o of s, which is left of i or not left of j.
NewPos(i, j, m, o) == IF o < i THEN o ELSE o - j + i + m

LEMMA SplicePositions ==
  ASSUME NEW S, NEW s \in Seq(S), NEW t \in Seq(S),
         NEW i \in 1..Len(s)+1, NEW j \in i..Len(s)+1
  PROVE  LET c == Splice(s, i, j, t)
         IN  /\ c \in Seq(S)
             /\ \A k \in 1..Len(c) :
                  \/ \E q \in 1..Len(t) : k = i - 1 + q /\ c[k] = t[q]
                  \/ \E o \in 1..Len(s) : /\ o < i \/ j <= o
                                          /\ k = NewPos(i, j, Len(t), o) /\ c[k] = s[o]
             /\ \A q \in 1..Len(t) : i - 1 + q \in 1..Len(c) /\ c[i - 1 + q] = t[q]
             /\ \A o \in 1..Len(s) : o < i \/ j <= o =>
                  NewPos(i, j, Len(t), o) \in 1..Len(c) /\ c[NewPos(i, j, Len(t), o)] = s[o]
<1> DEFINE c == Splice(s, i, j, t)
           n == Len(s)
           m == Len(t)
<1>0. n \in Nat /\ m \in Nat /\ i \in Nat /\ j \in Nat /\ 1 <= i /\ i <= j /\ j <= n + 1
  BY LenProperties
<1>1. /\ c \in Seq(S) /\ Len(c) = n + m - (j - i)
      /\ \A k \in 1..Len(c) : c[k] = FromSplice(s, i, j, t, k)
  BY SpliceEntries
<1>2. \A k \in 1..Len(c) :
        c[k] = IF k < i THEN s[k] ELSE IF k < i + m THEN t[k - i + 1] ELSE s[k - m - i + j]
  BY <1>1 DEF FromSplice
<1> HIDE DEF c, n, m
<1>3. ASSUME NEW k \in 1..Len(c)
      PROVE  \/ \E q \in 1..m : k = i - 1 + q /\ c[k] = t[q]
             \/ \E o \in 1..n : /\ o < i \/ j <= o
                                /\ k = NewPos(i, j, m, o) /\ c[k] = s[o]
  <2>0. k \in Nat /\ 1 <= k /\ k <= n + m - (j - i)
    BY <1>0, <1>1
  <2>1. CASE k < i
    <3>1. k \in 1..n /\ k = NewPos(i, j, m, k) /\ c[k] = s[k]
      BY <1>0, <1>2, <2>0, <2>1 DEF NewPos
    <3> QED
      BY <2>1, <3>1
  <2>2. CASE i <= k /\ k < i + m
    <3> DEFINE q == k - i + 1
    <3>1. q \in 1..m /\ k = i - 1 + q /\ c[k] = t[q]
      BY <1>0, <1>2, <2>0, <2>2
    <3> HIDE DEF q
    <3> QED
      BY <3>1
  <2>3. CASE i + m <= k
    <3> DEFINE o == k - m - i + j
    <3>1. o \in 1..n /\ j <= o /\ c[k] = s[o]
      BY <1>0, <1>2, <2>0, <2>3
    <3>2. k = NewPos(i, j, m, o)
      BY <1>0, <2>0, <2>3 DEF NewPos
    <3> HIDE DEF o
    <3> QED
      BY <3>1, <3>2
  <2> QED
    BY <1>0, <2>0, <2>1, <2>2, <2>3
<1>4. ASSUME NEW q \in 1..m
      PROVE  i - 1 + q \in 1..Len(c) /\ c[i - 1 + q] = t[q]
  <2> DEFINE k == i - 1 + q
  <2>1. k \in 1..Len(c) /\ ~(k < i) /\ k < i + m /\ k - i + 1 = q
    BY <1>0, <1>1
  <2> HIDE DEF k
  <2>2. c[k] = t[q]
    BY <1>2, <2>1
  <2> QED
    BY <2>1, <2>2 DEF k
<1>5. ASSUME NEW o \in 1..n, o < i \/ j <= o
      PROVE  NewPos(i, j, m, o) \in 1..Len(c) /\ c[NewPos(i, j, m, o)] = s[o]
  <2>1. CASE o < i
    <3>1. NewPos(i, j, m, o) = o /\ o \in 1..Len(c)
      BY <1>0, <1>1, <2>1 DEF NewPos
    <3> QED
      BY <1>2, <2>1, <3>1
  <2>2. CASE j <= o
    <3> DEFINE k == o - j + i + m
    <3>1. NewPos(i, j, m, o) = k
      BY <1>0, <2>2 DEF NewPos
    <3>2. k \in 1..Len(c) /\ ~(k < i) /\ ~(k < i + m) /\ k - m - i + j = o
      BY <1>0, <1>1, <2>2
    <3> HIDE DEF k
    <3> QED
      BY <1>2, <3>1, <3>2
  <2> QED
    BY <1>5, <2>1, <2>2
<1> QED
  BY <1>1, <1>3, <1>4, <1>5 DEF c, n, m

\* The regions whose block the manager allocated.
Blocks(regs) == {i \in 1..Len(regs) : ~regs[i].external}

\* No block has two owners, none is without one, and each is as long as its owner says.
OneOwner(regs, ps) ==
  /\ \A i, j \in Blocks(regs) : regs[i].data.buf = regs[j].data.buf => i = j
  /\ \A i, j \in 1..Len(ps) : ps[i].data = ps[j].data => i = j
  /\ \A i \in Blocks(regs), j \in 1..Len(ps) : regs[i].data.buf # ps[j].data

AllOwned(regs, ps, h) ==
  \A b : b \in DOMAIN h <=> \/ b = Host
                            \/ \E i \in Blocks(regs) : b = regs[i].data.buf
                            \/ \E i \in 1..Len(ps) : b = ps[i].data

LongEnough(regs, ps, h) ==
  /\ \A i \in Blocks(regs) : DOMAIN h[regs[i].data.buf] = 0..regs[i].size*PageSize-1
  /\ \A i \in 1..Len(ps) : DOMAIN h[ps[i].data] = 0..ps[i].size-1

OwnInv(regs, ps, h) == OneOwner(regs, ps) /\ AllOwned(regs, ps, h) /\ LongEnough(regs, ps, h)

\* Replacing regions by others with fresh blocks, while the blocks of the replaced
\* ones are freed, keeps every block owned.
LEMMA SpliceOwned ==
  ASSUME NEW regs \in Seq(Region), NEW t \in Seq(Region), NEW ps \in Seq(Patch),
         NEW i \in 1..Len(regs)+1, NEW j \in i..Len(regs)+1, NEW h, NEW g,
         OwnInv(regs, ps, h),
         \A k, l \in Blocks(t) : t[k].data.buf = t[l].data.buf => k = l,
         \A k \in Blocks(t) : t[k].data.buf \notin DOMAIN h,
         \A b : b \in DOMAIN g <=>
           \/ b \in DOMAIN h /\ ~\E o \in Blocks(regs) : i <= o /\ o < j /\ regs[o].data.buf = b
           \/ \E k \in Blocks(t) : t[k].data.buf = b,
         \A k \in Blocks(t) : DOMAIN g[t[k].data.buf] = 0..t[k].size*PageSize-1,
         \A b \in DOMAIN h : b \in DOMAIN g => g[b] = h[b]
  PROVE  OwnInv(Splice(regs, i, j, t), ps, g)
<1> DEFINE c == Splice(regs, i, j, t)
           m == Len(t)
           new(o) == NewPos(i, j, m, o)
<1>0. Len(regs) \in Nat /\ i \in Nat /\ j \in Nat /\ i <= j
  BY LenProperties
<1>1. \A k \in 1..Len(c) :
        \/ \E q \in 1..m : k = i - 1 + q /\ c[k] = t[q]
        \/ \E o \in 1..Len(regs) : /\ o < i \/ j <= o
                                   /\ k = new(o) /\ c[k] = regs[o]
  BY SplicePositions
<1>2. \A q \in 1..m : i - 1 + q \in 1..Len(c) /\ c[i - 1 + q] = t[q]
  BY SplicePositions
<1>3. \A o \in 1..Len(regs) : o < i \/ j <= o => new(o) \in 1..Len(c) /\ c[new(o)] = regs[o]
  BY SplicePositions
<1> HIDE DEF c, new
\* Every owning region is either a new one or one that stayed.
<1>4. ASSUME NEW k \in Blocks(c)
      PROVE  \/ \E q \in Blocks(t) : k = i - 1 + q /\ c[k] = t[q]
             \/ \E o \in Blocks(regs) : /\ o < i \/ j <= o
                                        /\ k = new(o) /\ c[k] = regs[o]
  BY <1>1 DEF Blocks, m
<1>5. ASSUME NEW q \in Blocks(t)
      PROVE  \E k \in Blocks(c) : c[k] = t[q]
  BY <1>2 DEF Blocks, m
<1>6. ASSUME NEW o \in Blocks(regs), o < i \/ j <= o
      PROVE  \E k \in Blocks(c) : c[k] = regs[o]
  BY <1>3, <1>6 DEF Blocks
<1>o. ASSUME NEW o \in Blocks(regs) PROVE o \in Nat /\ (~(o < i \/ j <= o) <=> i <= o /\ o < j)
  BY <1>0 DEF Blocks
<1>7. OneOwner(regs, ps) /\ AllOwned(regs, ps, h) /\ LongEnough(regs, ps, h)
  BY DEF OwnInv
<1>8. \A o \in Blocks(regs) : regs[o].data.buf \in DOMAIN h
  BY <1>7 DEF AllOwned
<1>9. \A o \in 1..Len(ps) : ps[o].data \in DOMAIN h
  BY <1>7 DEF AllOwned
<1>10. \A o, u \in Blocks(regs) : regs[o].data.buf = regs[u].data.buf => o = u
  BY <1>7 DEF OneOwner
<1>11. \A o \in Blocks(regs), u \in 1..Len(ps) : regs[o].data.buf # ps[u].data
  BY <1>7 DEF OneOwner
\* What stays allocated.
<1>12. \A o \in Blocks(regs) : o < i \/ j <= o => regs[o].data.buf \in DOMAIN g
  BY <1>8, <1>10, <1>o
<1>13. \A u \in 1..Len(ps) : ps[u].data \in DOMAIN g
  BY <1>9, <1>11
<1>14. OneOwner(c, ps)
  <2>1. ASSUME NEW k \in Blocks(c), NEW l \in Blocks(c), c[k].data.buf = c[l].data.buf
        PROVE  k = l
    <3>1. CASE \E q \in Blocks(t) : k = i - 1 + q /\ c[k] = t[q]
      <4>1. PICK q \in Blocks(t) : k = i - 1 + q /\ c[k] = t[q]
        BY <3>1
      <4>2. CASE \E u \in Blocks(t) : l = i - 1 + u /\ c[l] = t[u]
        BY <2>1, <4>1, <4>2
      <4>3. CASE \E o \in Blocks(regs) : c[l] = regs[o]
        BY <1>8, <2>1, <4>1, <4>3
      <4> QED
        BY <1>4, <4>2, <4>3
    <3>2. CASE \E o \in Blocks(regs) : k = new(o) /\ c[k] = regs[o]
      <4>1. PICK o \in Blocks(regs) : k = new(o) /\ c[k] = regs[o]
        BY <3>2
      <4>2. CASE \E u \in Blocks(t) : c[l] = t[u]
        BY <1>8, <2>1, <4>1, <4>2
      <4>3. CASE \E u \in Blocks(regs) : l = new(u) /\ c[l] = regs[u]
        BY <1>10, <2>1, <4>1, <4>3
      <4> QED
        BY <1>4, <4>2, <4>3
    <3> QED
      BY <1>4, <3>1, <3>2
  <2>2. ASSUME NEW k \in Blocks(c), NEW u \in 1..Len(ps) PROVE c[k].data.buf # ps[u].data
    BY <1>4, <1>9, <1>11
  <2> QED
    BY <1>7, <2>1, <2>2 DEF OneOwner
<1>15. AllOwned(c, ps, g)
  <2> SUFFICES ASSUME NEW b
               PROVE  b \in DOMAIN g <=> \/ b = Host
                                         \/ \E k \in Blocks(c) : b = c[k].data.buf
                                         \/ \E u \in 1..Len(ps) : b = ps[u].data
    BY DEF AllOwned
  <2>h. Host \in DOMAIN h /\ \A o \in Blocks(regs) : regs[o].data.buf # Host
    <3>1. \A o \in Blocks(regs) : regs[o] \in Region /\ ~regs[o].external
      BY ElementOfSeq DEF Blocks
    <3> QED
      BY <1>7, <3>1 DEF AllOwned, Region
  <2>1. b = Host => b \in DOMAIN g
    BY <2>h
  <2>2. ASSUME NEW k \in Blocks(c), b = c[k].data.buf PROVE b \in DOMAIN g
    BY <1>4, <1>12, <2>2
  <2>3. ASSUME b \in DOMAIN g
        PROVE  \/ b = Host
               \/ \E k \in Blocks(c) : b = c[k].data.buf
               \/ \E u \in 1..Len(ps) : b = ps[u].data
    <3>1. CASE \E k \in Blocks(t) : t[k].data.buf = b
      BY <1>5, <3>1
    <3>2. CASE b \in DOMAIN h /\ ~\E o \in Blocks(regs) : i <= o /\ o < j /\ regs[o].data.buf = b
      <4>1. \/ b = Host
            \/ \E o \in Blocks(regs) : b = regs[o].data.buf
            \/ \E u \in 1..Len(ps) : b = ps[u].data
        BY <1>7, <3>2 DEF AllOwned
      <4>2. ASSUME NEW o \in Blocks(regs), b = regs[o].data.buf
            PROVE  \E k \in Blocks(c) : b = c[k].data.buf
        <5>1. o < i \/ j <= o
          BY <1>o, <3>2, <4>2
        <5> QED
          BY <1>6, <4>2, <5>1
      <4> QED
        BY <4>1, <4>2
    <3> QED
      BY <2>3, <3>1, <3>2
  <2> QED
    BY <1>13, <2>1, <2>2, <2>3
<1>16. LongEnough(c, ps, g)
  <2>1. ASSUME NEW k \in Blocks(c)
        PROVE  DOMAIN g[c[k].data.buf] = 0..c[k].size*PageSize-1
    <3>1. CASE \E q \in Blocks(t) : c[k] = t[q]
      BY <3>1
    <3>2. CASE \E o \in Blocks(regs) : (o < i \/ j <= o) /\ c[k] = regs[o]
      <4>1. PICK o \in Blocks(regs) : (o < i \/ j <= o) /\ c[k] = regs[o]
        BY <3>2
      <4>2. g[regs[o].data.buf] = h[regs[o].data.buf]
        BY <1>8, <1>12, <4>1
      <4>3. DOMAIN h[regs[o].data.buf] = 0..regs[o].size*PageSize-1
        BY <1>7 DEF LongEnough
      <4> QED
        BY <4>1, <4>2, <4>3
    <3> QED
      BY <1>4, <3>1, <3>2
  <2>2. ASSUME NEW u \in 1..Len(ps) PROVE DOMAIN g[ps[u].data] = 0..ps[u].size-1
    <3>1. g[ps[u].data] = h[ps[u].data]
      BY <1>9, <1>13
    <3>2. DOMAIN h[ps[u].data] = 0..ps[u].size-1
      BY <1>7 DEF LongEnough
    <3> QED
      BY <3>1, <3>2
  <2> QED
    BY <2>1, <2>2 DEF LongEnough
<1> QED
  BY <1>14, <1>15, <1>16 DEF OwnInv, c

LEMMA InsertOwned ==
  ASSUME TypeOK, OwnInv(regions, patches, heap), NEW r \in Region, InsertRegion(r),
         patches' = patches,
         r.external => heap' = heap,
         ~r.external => /\ r.data.buf \notin DOMAIN heap
                        /\ DOMAIN heap' = DOMAIN heap \cup {r.data.buf}
                        /\ DOMAIN heap'[r.data.buf] = 0..r.size*PageSize-1
                        /\ \A b \in DOMAIN heap : heap'[b] = heap[b]
  PROVE  OwnInv(regions', patches', heap')
<1> DEFINE i == FindInsertionIndex(regions, r.base)
           t == <<r>>
<1>0. /\ regions \in Seq(Region) /\ patches \in Seq(Patch) /\ Len(regions) \in Nat
      /\ r.base \in Pages /\ r.external \in BOOLEAN
  BY LenProperties DEF TypeOK, Region
<1>1. i \in 1..Len(regions)+1 /\ i \in i..Len(regions)+1
  <2>1. i \in 1..Len(regions)+1
    BY <1>0, InsertionIndexType
  <2> HIDE DEF i
  <2> QED
    BY <1>0, <2>1
<1>2. regions' = Splice(regions, i, i, t)
  BY DEF InsertRegion, Splice
<1>3. t \in Seq(Region) /\ Len(t) = 1 /\ t[1] = r
  OBVIOUS
<1>4. \A o \in Blocks(regions) : ~(i <= o /\ o < i)
  <2> HIDE DEF i
  <2> QED
    BY <1>0, <1>1 DEF Blocks
<1> HIDE DEF i, t
<1>5. \A k \in Blocks(t) : k = 1 /\ t[k] = r /\ ~r.external
  BY <1>3 DEF Blocks
<1>6. ~r.external => 1 \in Blocks(t)
  BY <1>3 DEF Blocks
<1>7. \A k, l \in Blocks(t) : t[k].data.buf = t[l].data.buf => k = l
  BY <1>5
<1>8. \A k \in Blocks(t) : t[k].data.buf \notin DOMAIN heap
  BY <1>5
<1>9. ASSUME NEW b
      PROVE  b \in DOMAIN heap' <=>
               \/ b \in DOMAIN heap /\ ~\E o \in Blocks(regions) : i <= o /\ o < i /\ regions[o].data.buf = b
               \/ \E k \in Blocks(t) : t[k].data.buf = b
  <2>1. CASE r.external
    BY <1>4, <1>5, <2>1
  <2>2. CASE ~r.external
    <3>1. b \in DOMAIN heap' <=> b \in DOMAIN heap \/ b = r.data.buf
      BY <2>2
    <3>2. (\E k \in Blocks(t) : t[k].data.buf = b) <=> b = r.data.buf
      BY <1>3, <1>5, <1>6, <2>2
    <3> QED
      BY <1>4, <3>1, <3>2
  <2> QED
    BY <2>1, <2>2
<1>10. \A k \in Blocks(t) : DOMAIN heap'[t[k].data.buf] = 0..t[k].size*PageSize-1
  BY <1>5
<1>11. \A b \in DOMAIN heap : b \in DOMAIN heap' => heap'[b] = heap[b]
  BY <1>0
<1>12. OwnInv(Splice(regions, i, i, t), patches, heap')
  <2> DEFINE j == i
  <2>1. i \in 1..Len(regions)+1 /\ j \in i..Len(regions)+1
    BY <1>1
  <2>2. \A b : b \in DOMAIN heap' <=>
          \/ b \in DOMAIN heap /\ ~\E o \in Blocks(regions) : i <= o /\ o < j /\ regions[o].data.buf = b
          \/ \E k \in Blocks(t) : t[k].data.buf = b
    BY <1>9
  <2> HIDE DEF j
  <2>3. OwnInv(Splice(regions, i, j, t), patches, heap')
    <3>1. regions \in Seq(Region) /\ patches \in Seq(Patch) /\ t \in Seq(Region)
      BY <1>0, <1>3
    <3> DEFINE g == heap'
    <3>2. /\ \A b : b \in DOMAIN g <=>
               \/ b \in DOMAIN heap /\ ~\E o \in Blocks(regions) : i <= o /\ o < j /\ regions[o].data.buf = b
               \/ \E k \in Blocks(t) : t[k].data.buf = b
          /\ \A k \in Blocks(t) : DOMAIN g[t[k].data.buf] = 0..t[k].size*PageSize-1
          /\ \A b \in DOMAIN heap : b \in DOMAIN g => g[b] = heap[b]
      BY <1>10, <1>11, <2>2
    <3> HIDE DEF g
    <3>3. OwnInv(Splice(regions, i, j, t), patches, g)
      BY ONLY OwnInv(regions, patches, heap), <1>7, <1>8, <2>1, <3>1, <3>2, SpliceOwned
    <3> QED
      BY <3>3 DEF g
  <2> QED
    BY <2>3 DEF j
<1> QED
  BY <1>2, <1>12

LEMMA StepOwned ==
  ASSUME TypeOK, OwnInv(regions, patches, heap), RangeStep
  PROVE  OwnInv(regions', patches', heap')
<1> DEFINE i == WalkRegion
           j == i + 1
           r == regions[i]
           segs == Segments(r)
           n == Len(segs)
           need == IF r.external THEN {} ELSE DOMAIN segs
           freed == IF r.external THEN {} ELSE {r.data.buf}
<1>0. /\ regions \in Seq(Region) /\ patches \in Seq(Patch) /\ Len(regions) \in Nat
      /\ patches' = patches
  BY LenProperties DEF TypeOK, RangeStep, UnchangedPatches
<1>1. i \in 1..Len(regions) /\ r \in Region
  BY WalkRegionFacts
<1>2. n \in Nat /\ DOMAIN segs = 1..n
  BY WalkRegionFacts, LenProperties
<1>3. PICK bufs \in [need -> BufIds \ DOMAIN heap] :
        /\ \A k, l \in need : bufs[k] = bufs[l] => k = l
        /\ heap' = [b \in (DOMAIN heap \ freed) \cup {bufs[k] : k \in need} |->
                      IF \E k \in need : bufs[k] = b
                      THEN LET k == CHOOSE l \in need : bufs[l] = b
                           IN  [x \in 0..segs[k].size*PageSize-1 |->
                                  heap[r.data.buf][SegmentOffset(r, segs[k]) + x]]
                      ELSE heap[b]]
        /\ NewPieces(r, bufs) \in Seq(Region)
        /\ regions' = Splice(regions, i, i+1, NewPieces(r, bufs))
  BY RangeStepSplices
<1> DEFINE t == NewPieces(r, bufs)
           body(b) == IF \E k \in need : bufs[k] = b
                      THEN LET k == CHOOSE l \in need : bufs[l] = b
                           IN  [x \in 0..segs[k].size*PageSize-1 |->
                                  heap[r.data.buf][SegmentOffset(r, segs[k]) + x]]
                      ELSE heap[b]
           D == (DOMAIN heap \ freed) \cup {bufs[k] : k \in need}
<1>4. t \in Seq(Region) /\ regions' = Splice(regions, i, j, t)
  BY <1>3
<1>5. Len(t) = n /\ \A k \in 1..n : t[k] = BuildRegionSegment(r, segs[k], IF r.external THEN Host ELSE bufs[k])
  <2>1. t = [k \in 1..n |-> BuildRegionSegment(r, segs[k], IF r.external THEN Host ELSE bufs[k])]
    BY DEF NewPieces
  <2> HIDE DEF t, n, segs, r
  <2> QED
    BY <1>2, <2>1
<1>6. heap' = [b \in D |-> body(b)]
  BY <1>3
<1>7. DOMAIN heap' = D /\ \A b \in D : heap'[b] = body(b)
  <2> HIDE DEF D, body
  <2> QED
    BY <1>6
<1>8. \A k \in need : bufs[k] \notin DOMAIN heap
  BY <1>3
<1>9. \A k \in need : body(bufs[k]) = [x \in 0..segs[k].size*PageSize-1 |->
                                         heap[r.data.buf][SegmentOffset(r, segs[k]) + x]]
  <2> SUFFICES ASSUME NEW k \in need
               PROVE  body(bufs[k]) = [x \in 0..segs[k].size*PageSize-1 |->
                                         heap[r.data.buf][SegmentOffset(r, segs[k]) + x]]
    OBVIOUS
  <2>1. (CHOOSE l \in need : bufs[l] = bufs[k]) = k
    <3> HIDE DEF need
    <3> QED
      BY <1>3
  <2> HIDE DEF need, segs, r
  <2> QED
    BY <2>1
<1>10. \A b \in DOMAIN heap : body(b) = heap[b]
  <2> HIDE DEF need, segs, r
  <2> QED
    BY <1>8
<1>11. need = IF r.external THEN {} ELSE 1..n
  BY <1>2
<1>12. \A k \in 1..n : /\ t[k].external = r.external /\ t[k].size = segs[k].size
                       /\ ~r.external => t[k].data.buf = bufs[k]
  <2>1. \A s, b : /\ BuildRegionSegment(r, s, b).external = r.external
                  /\ BuildRegionSegment(r, s, b).size = s.size
                  /\ ~r.external => BuildRegionSegment(r, s, b).data.buf = b
    <3> HIDE DEF r
    <3> QED
      BY DEF BuildRegionSegment
  <2> HIDE DEF t, n, segs, r
  <2> QED
    BY <1>5, <2>1
<1>13. r.external \in BOOLEAN
  BY <1>1 DEF Region
<1>14. i \in 1..Len(regions)+1 /\ j \in i..Len(regions)+1
  BY <1>0, <1>1
<1>15. \A o \in Blocks(regions) : i <= o /\ o < j <=> o = i
  BY <1>0, <1>1 DEF Blocks
<1>16. (i \in Blocks(regions)) <=> ~r.external
  BY <1>1 DEF Blocks
<1>r. r = regions[i]
  OBVIOUS
<1> HIDE DEF i, j, r, t, n, segs, body
<1>17. Blocks(t) = need
  BY <1>5, <1>11, <1>12, <1>13 DEF Blocks
<1> HIDE DEF need
<1>18. \A k \in Blocks(t) : k \in 1..n /\ ~r.external /\ t[k].data.buf = bufs[k]
  BY <1>11, <1>12, <1>17
<1>19. \A k, l \in Blocks(t) : t[k].data.buf = t[l].data.buf => k = l
  BY <1>3, <1>17, <1>18
<1>20. \A k \in Blocks(t) : t[k].data.buf \notin DOMAIN heap
  BY <1>8, <1>17, <1>18
<1>21. ASSUME NEW b
       PROVE  b \in DOMAIN heap' <=>
                \/ b \in DOMAIN heap /\ ~\E o \in Blocks(regions) : i <= o /\ o < j /\ regions[o].data.buf = b
                \/ \E k \in Blocks(t) : t[k].data.buf = b
  <2>1. (\E o \in Blocks(regions) : i <= o /\ o < j /\ regions[o].data.buf = b) <=> b \in freed
    BY <1>15, <1>16, <1>r
  <2>2. (\E k \in Blocks(t) : t[k].data.buf = b) <=> b \in {bufs[k] : k \in need}
    BY <1>17, <1>18
  <2> QED
    BY <1>7, <2>1, <2>2
<1>22. \A k \in Blocks(t) : DOMAIN heap'[t[k].data.buf] = 0..t[k].size*PageSize-1
  <2> SUFFICES ASSUME NEW k \in Blocks(t)
               PROVE  DOMAIN heap'[t[k].data.buf] = 0..t[k].size*PageSize-1
    OBVIOUS
  <2>1. k \in need /\ t[k].data.buf = bufs[k] /\ t[k].size = segs[k].size /\ bufs[k] \in D
    BY <1>12, <1>17, <1>18
  <2>2. heap'[bufs[k]] = [x \in 0..segs[k].size*PageSize-1 |->
                            heap[r.data.buf][SegmentOffset(r, segs[k]) + x]]
    <3> HIDE DEF D
    <3> QED
      BY <1>7, <1>9, <2>1
  <2>3. DOMAIN heap'[bufs[k]] = 0..segs[k].size*PageSize-1
    BY <2>2
  <2> QED
    BY <2>1, <2>3
<1>23. \A b \in DOMAIN heap : b \in DOMAIN heap' => heap'[b] = heap[b]
  <2> HIDE DEF D
  <2> QED
    BY <1>7, <1>10
<1>24. OwnInv(Splice(regions, i, j, t), patches, heap')
  BY <1>0, <1>4, <1>14, <1>19, <1>20, <1>21, <1>22, <1>23, SpliceOwned
<1> QED
  BY <1>0, <1>4, <1>24

LEMMA AddPatchOwned ==
  ASSUME TypeOK, OwnInv(regions, patches, heap), NEW q \in PatchRanges, NEW v,
         AddPatch(q[1], q[2], v)
  PROVE  OwnInv(regions', patches', heap')
<1> DEFINE n == Len(patches)
<1>1. PICK b \in BufIds \ DOMAIN heap :
        /\ heap' = [c \in DOMAIN heap \cup {b} |->
                      IF c = b THEN [i \in 0..q[2]-1 |-> v] ELSE heap[c]]
        /\ patches' = Append(patches, [handle |-> next_patch_handle, address |-> q[1],
                                       size |-> q[2], data |-> b])
  BY DEF AddPatch
<1> DEFINE new == [handle |-> next_patch_handle, address |-> q[1], size |-> q[2], data |-> b]
<1>2. patches \in Seq(Patch) /\ n \in Nat /\ regions' = regions
  BY LenProperties DEF TypeOK, AddPatch
<1>3. new \in [handle : Nat, address : {q[1]}, size : {q[2]}, data : BufIds]
  BY <1>1 DEF TypeOK
<1>4. /\ Len(patches') = n + 1 /\ patches'[n+1] = new
      /\ \A i \in 1..n : patches'[i] = patches[i]
  <2> DEFINE S == Patch \cup {new}
  <2>1. patches \in Seq(S)
    BY <1>2
  <2>2. new \in S
    OBVIOUS
  <2> HIDE DEF S, new
  <2>3. patches' = Append(patches, new)
    BY <1>1 DEF new
  <2> QED
    BY <2>1, <2>2, <2>3, AppendProperties
<1>5. new.data = b /\ new.size = q[2]
  OBVIOUS
<1> HIDE DEF new
<1>6. DOMAIN heap' = DOMAIN heap \cup {b} /\ DOMAIN heap'[b] = 0..q[2]-1
  BY <1>1
<1>7. \A c \in DOMAIN heap : heap'[c] = heap[c]
  BY <1>1
<1>8. OneOwner(regions, patches) /\ AllOwned(regions, patches, heap) /\ LongEnough(regions, patches, heap)
  BY DEF OwnInv
<1>9. \A o \in Blocks(regions) : regions[o].data.buf \in DOMAIN heap
  BY <1>8 DEF AllOwned
<1>10. \A o \in 1..n : patches[o].data \in DOMAIN heap
  BY <1>8 DEF AllOwned
<1> HIDE DEF n
<1>11. \A k \in 1..n+1 : (k \in 1..n /\ patches'[k] = patches[k]) \/ (k = n + 1 /\ patches'[k] = new)
  BY <1>2, <1>4
<1>12. \A k \in 1..n : k \in 1..n+1
  BY <1>2
<1>13. n + 1 \in 1..n+1
  BY <1>2
<1>14. OneOwner(regions, patches')
  <2>1. ASSUME NEW k \in 1..n+1, NEW l \in 1..n+1, patches'[k].data = patches'[l].data PROVE k = l
    <3>1. CASE k \in 1..n /\ l \in 1..n
      BY <1>4, <1>8, <2>1, <3>1 DEF OneOwner, n
    <3>2. CASE k = n + 1 /\ l = n + 1
      BY <3>2
    <3>3. CASE k \in 1..n /\ l = n + 1
      BY <1>1, <1>4, <1>5, <1>10, <2>1, <3>3
    <3>4. CASE l \in 1..n /\ k = n + 1
      BY <1>1, <1>4, <1>5, <1>10, <2>1, <3>4
    <3> QED
      BY <1>11, <3>1, <3>2, <3>3, <3>4
  <2>2. ASSUME NEW o \in Blocks(regions), NEW k \in 1..n+1 PROVE regions[o].data.buf # patches'[k].data
    <3>1. CASE k \in 1..n
      BY <1>4, <1>8, <3>1 DEF OneOwner, n
    <3>2. CASE k = n + 1
      BY <1>1, <1>4, <1>5, <1>9, <3>2
    <3> QED
      BY <1>11, <3>1, <3>2
  <2> QED
    BY <1>4, <1>8, <2>1, <2>2 DEF OneOwner
<1>15. AllOwned(regions, patches', heap')
  <2> SUFFICES ASSUME NEW c
               PROVE  c \in DOMAIN heap' <=> \/ c = Host
                                             \/ \E o \in Blocks(regions) : c = regions[o].data.buf
                                             \/ \E k \in 1..n+1 : c = patches'[k].data
    BY <1>4 DEF AllOwned
  <2>1. (\E k \in 1..n+1 : c = patches'[k].data) <=> (c = b \/ \E k \in 1..n : c = patches[k].data)
    BY <1>4, <1>5, <1>11, <1>12, <1>13
  <2>2. c \in DOMAIN heap <=> \/ c = Host
                              \/ \E o \in Blocks(regions) : c = regions[o].data.buf
                              \/ \E k \in 1..n : c = patches[k].data
    BY <1>8 DEF AllOwned, n
  <2> QED
    BY <1>6, <2>1, <2>2
<1>16. LongEnough(regions, patches', heap')
  <2>1. ASSUME NEW o \in Blocks(regions)
        PROVE  DOMAIN heap'[regions[o].data.buf] = 0..regions[o].size*PageSize-1
    <3>1. heap'[regions[o].data.buf] = heap[regions[o].data.buf]
      BY <1>7, <1>9
    <3>2. DOMAIN heap[regions[o].data.buf] = 0..regions[o].size*PageSize-1
      BY <1>8 DEF LongEnough
    <3> QED
      BY <3>1, <3>2
  <2>2. ASSUME NEW k \in 1..n+1 PROVE DOMAIN heap'[patches'[k].data] = 0..patches'[k].size-1
    <3>1. CASE k \in 1..n
      <4>1. heap'[patches[k].data] = heap[patches[k].data]
        BY <1>7, <1>10, <3>1
      <4>2. DOMAIN heap[patches[k].data] = 0..patches[k].size-1
        BY <1>8, <3>1 DEF LongEnough, n
      <4> QED
        BY <1>4, <3>1, <4>1, <4>2
    <3>2. CASE k = n + 1
      BY <1>4, <1>5, <1>6, <3>2
    <3> QED
      BY <1>11, <3>1, <3>2
  <2> QED
    BY <1>4, <2>1, <2>2 DEF LongEnough
<1> QED
  BY <1>2, <1>14, <1>15, <1>16 DEF OwnInv

LEMMA DelPatchOwned ==
  ASSUME TypeOK, OwnInv(regions, patches, heap), NEW i \in DOMAIN patches, DelPatch(i)
  PROVE  OwnInv(regions', patches', heap')
<1> DEFINE n == Len(patches)
           old(k) == IF k < i THEN k ELSE k + 1
<1>0. patches \in Seq(Patch) /\ n \in Nat /\ i \in 1..n /\ regions' = regions
  BY LenProperties DEF TypeOK, DelPatch
<1>1. patches' = SubSeq(patches, 1, i-1) \o SubSeq(patches, i+1, n)
  BY DEF DelPatch
<1>2. /\ Len(patches') = n - 1
      /\ \A k \in 1..n-1 : patches'[k] = patches[old(k)]
  BY <1>0, <1>1, RemovedEntries
<1>3. heap' = [b \in DOMAIN heap \ {patches[i].data} |-> heap[b]]
  BY DEF DelPatch
<1>4. DOMAIN heap' = DOMAIN heap \ {patches[i].data} /\ \A b \in DOMAIN heap' : heap'[b] = heap[b]
  BY <1>3
<1>5. \A k \in 1..n-1 : old(k) \in 1..n /\ old(k) # i
  BY <1>0
<1>6. \A k, l \in 1..n-1 : old(k) = old(l) => k = l
  BY <1>0
<1>7. \A o \in 1..n : o # i => \E k \in 1..n-1 : old(k) = o
  <2> SUFFICES ASSUME NEW o \in 1..n, o # i PROVE \E k \in 1..n-1 : old(k) = o
    OBVIOUS
  <2>1. CASE o < i
    <3>1. o \in 1..n-1 /\ old(o) = o
      BY <1>0, <2>1
    <3> QED BY <3>1
  <2>2. CASE o > i
    <3>1. o - 1 \in 1..n-1 /\ old(o - 1) = o
      BY <1>0, <2>2
    <3> QED BY <3>1
  <2> QED
    BY <1>0, <2>1, <2>2
<1> HIDE DEF old
<1>8. OneOwner(regions, patches) /\ AllOwned(regions, patches, heap) /\ LongEnough(regions, patches, heap)
  BY DEF OwnInv
<1>9. \A o \in Blocks(regions) : regions[o].data.buf \in DOMAIN heap'
  BY <1>0, <1>4, <1>8 DEF AllOwned, OneOwner
<1>10. \A k \in 1..n-1 : patches[old(k)].data \in DOMAIN heap'
  BY <1>0, <1>4, <1>5, <1>8 DEF AllOwned, OneOwner
<1>11. OneOwner(regions, patches')
  BY <1>2, <1>5, <1>6, <1>8 DEF OneOwner
<1>12. AllOwned(regions, patches', heap')
  <2> SUFFICES ASSUME NEW c
               PROVE  c \in DOMAIN heap' <=> \/ c = Host
                                             \/ \E o \in Blocks(regions) : c = regions[o].data.buf
                                             \/ \E k \in 1..n-1 : c = patches'[k].data
    BY <1>2 DEF AllOwned
  <2>1. c \in DOMAIN heap <=> \/ c = Host
                              \/ \E o \in Blocks(regions) : c = regions[o].data.buf
                              \/ \E k \in 1..n : c = patches[k].data
    BY <1>8 DEF AllOwned
  <2>2. patches[i].data # Host
    <3>1. patches[i] \in Patch
      BY <1>0, ElementOfSeq
    <3> QED
      BY <3>1, InputsAssumption DEF Patch
  <2>3. c = Host => c \in DOMAIN heap'
    BY <1>4, <2>1, <2>2
  <2>4. (\E k \in 1..n-1 : c = patches'[k].data) => c \in DOMAIN heap'
    BY <1>2, <1>10
  <2>5. ASSUME NEW o \in 1..n, c = patches[o].data, c \in DOMAIN heap'
        PROVE  \E k \in 1..n-1 : c = patches'[k].data
    <3>1. o # i
      BY <1>4, <2>5
    <3> QED
      BY <1>2, <1>7, <2>5, <3>1
  <2> QED
    BY <1>4, <1>9, <2>1, <2>3, <2>4, <2>5
<1>13. LongEnough(regions, patches', heap')
  <2>1. ASSUME NEW o \in Blocks(regions)
        PROVE  DOMAIN heap'[regions[o].data.buf] = 0..regions[o].size*PageSize-1
    <3>1. heap'[regions[o].data.buf] = heap[regions[o].data.buf]
      BY <1>4, <1>9
    <3>2. DOMAIN heap[regions[o].data.buf] = 0..regions[o].size*PageSize-1
      BY <1>8 DEF LongEnough
    <3> QED
      BY <3>1, <3>2
  <2>2. ASSUME NEW k \in 1..n-1 PROVE DOMAIN heap'[patches'[k].data] = 0..patches'[k].size-1
    <3>1. heap'[patches[old(k)].data] = heap[patches[old(k)].data]
      BY <1>4, <1>10
    <3>2. DOMAIN heap[patches[old(k)].data] = 0..patches[old(k)].size-1
      BY <1>5, <1>8 DEF LongEnough
    <3> QED
      BY <1>2, <3>1, <3>2
  <2> QED
    BY <1>2, <2>1, <2>2 DEF LongEnough
<1> QED
  BY <1>0, <1>11, <1>12, <1>13 DEF OwnInv

LEMMA OwnedKept ==
  TypeOK /\ OwnInv(regions, patches, heap) /\ [Next]_vars => OwnInv(regions', patches', heap')
<1> SUFFICES ASSUME TypeOK, OwnInv(regions, patches, heap), [Next]_vars
             PROVE  OwnInv(regions', patches', heap')
  OBVIOUS
<1>1. ASSUME NEW p \in MapPages, NEW n \in MapSizes, NEW perms \in PermChoices,
             MapInternal(p, n, perms)
      PROVE  OwnInv(regions', patches', heap')
  <2>0. p \in Pages /\ n \in 1..NPages /\ perms \in SUBSET Rights
    BY InputsAssumption DEF Pages
  <2>1. PICK b \in BufIds \ DOMAIN heap :
          /\ heap' = [c \in DOMAIN heap \cup {b} |->
                        IF c = b THEN [i \in 0..n*PageSize-1 |-> 0] ELSE heap[c]]
          /\ InsertRegion([base |-> p, size |-> n, data |-> [buf |-> b, off |-> 0],
                           perms |-> perms, user |-> TRUE, external |-> FALSE])
    BY <1>1 DEF MapInternal
  <2> DEFINE r == [base |-> p, size |-> n, data |-> [buf |-> b, off |-> 0],
                   perms |-> perms, user |-> TRUE, external |-> FALSE]
  <2>2. r \in Region /\ r.size = n /\ ~r.external /\ r.data.buf = b
    BY <2>0, <2>1, InputsAssumption DEF Region, Ptr
  <2>3. InsertRegion(r)
    BY <2>1
  <2> HIDE DEF r
  <2>4. /\ DOMAIN heap' = DOMAIN heap \cup {b} /\ DOMAIN heap'[b] = 0..n*PageSize-1
        /\ \A c \in DOMAIN heap : heap'[c] = heap[c]
    BY <2>1
  <2>5. patches' = patches
    BY <1>1 DEF MapInternal, UnchangedPatches
  <2>6. b \notin DOMAIN heap
    BY <2>1
  <2> QED
    BY <2>2, <2>3, <2>4, <2>5, <2>6, InsertOwned
<1>2. ASSUME NEW p \in MapPages, NEW n \in MapSizes, NEW perms \in PermChoices,
             NEW h \in HostPtrs, MapHost(p, n, perms, h)
      PROVE  OwnInv(regions', patches', heap')
  <2>0. p \in Pages /\ n \in 1..NPages /\ perms \in SUBSET Rights
    BY InputsAssumption DEF Pages
  <2>1. h * PageSize \in Nat
    <3>1. h \in Nat /\ PageSize \in Nat
      BY InputsAssumption, SizesAssumption
    <3> QED
      BY <3>1, TimesNat
  <2> DEFINE r == [base |-> p, size |-> n, data |-> [buf |-> Host, off |-> h * PageSize],
                   perms |-> perms, user |-> TRUE, external |-> TRUE]
  <2>2. r \in Region /\ r.external
    BY <2>0, <2>1 DEF Region, Ptr
  <2>3. InsertRegion(r) /\ heap' = heap /\ patches' = patches
    BY <1>2 DEF MapHost, UnchangedPatches
  <2> HIDE DEF r
  <2> QED
    BY <2>2, <2>3, InsertOwned
<1>3. CASE RangeStep
  BY <1>3, StepOwned
<1>4. ASSUME NEW q \in PatchRanges, NEW v \in StoreVals, AddPatch(q[1], q[2], v)
      PROVE  OwnInv(regions', patches', heap')
  BY <1>4, AddPatchOwned
<1>5. ASSUME NEW i \in DOMAIN patches, DelPatch(i)
      PROVE  OwnInv(regions', patches', heap')
  BY <1>5, DelPatchOwned
<1>6. ASSUME NEW a \in StoreAddrs, NEW v \in StoreVals, WriteByte(a, v)
      PROVE  OwnInv(regions', patches', heap')
  <2> DEFINE at == ByteAt(Query(PageOf(a)), a)
  <2>1. heap' = [heap EXCEPT ![at.buf][at.off] = v]
    BY <1>6 DEF WriteByte
  <2> HIDE DEF at
  <2>2. DOMAIN heap' = DOMAIN heap /\ \A b \in DOMAIN heap : DOMAIN heap'[b] = DOMAIN heap[b]
    BY <2>1
  <2>3. regions' = regions /\ patches' = patches
    BY <1>6 DEF WriteByte, UnchangedPatches
  <2>4. OneOwner(regions, patches) /\ AllOwned(regions, patches, heap) /\ LongEnough(regions, patches, heap)
    BY DEF OwnInv
  <2>5. AllOwned(regions, patches, heap')
    BY <2>2, <2>4 DEF AllOwned
  <2>6. LongEnough(regions, patches, heap')
    <3>1. \A i \in Blocks(regions) : regions[i].data.buf \in DOMAIN heap
      BY <2>4 DEF AllOwned
    <3>2. \A i \in 1..Len(patches) : patches[i].data \in DOMAIN heap
      BY <2>4 DEF AllOwned
    <3> QED
      BY <2>2, <2>4, <3>1, <3>2 DEF LongEnough
  <2> QED
    BY <2>3, <2>4, <2>5, <2>6 DEF OwnInv
<1>7. CASE Destroy
  <2>0. regions \in Seq(Region) /\ patches \in Seq(Patch) /\ DOMAIN regions = 1..Len(regions) /\ DOMAIN patches = 1..Len(patches)
    BY LenProperties DEF TypeOK
  <2>1. Len(regions') = 0 /\ Len(patches') = 0
    BY <1>7 DEF Destroy
  <2>2. Blocks(regions') = {} /\ 1..Len(patches') = {}
    BY <2>1 DEF Blocks
  <2> DEFINE R == {regions[i].data.buf : i \in {k \in DOMAIN regions : ~regions[k].external}}
             P == {patches[i].data : i \in DOMAIN patches}
  <2>3. DOMAIN heap' = DOMAIN heap \ (R \cup P)
    BY <1>7 DEF Destroy
  <2>4. \A b : b \in DOMAIN heap <=> b = Host \/ b \in R \/ b \in P
    BY <2>0 DEF OwnInv, AllOwned, Blocks
  <2>5. Host \notin R
    <3>1. \A k \in 1..Len(regions) : regions[k] \in Region
      BY <2>0, ElementOfSeq
    <3> QED
      BY <2>0, <3>1 DEF Region
  <2>6. Host \notin P
    <3>1. \A k \in 1..Len(patches) : patches[k] \in Patch
      BY <2>0, ElementOfSeq
    <3> QED
      BY <2>0, <3>1, InputsAssumption DEF Patch
  <2> HIDE DEF R, P
  <2>7. \A b : b \in DOMAIN heap' <=> b = Host
    BY <2>3, <2>4, <2>5, <2>6
  <2> QED
    BY <2>2, <2>7 DEF OwnInv, OneOwner, AllOwned, LongEnough
<1>8. CASE UNCHANGED <<regions, patches, heap>>
  BY <1>8
<1> QED
  BY <1>1, <1>2, <1>3, <1>4, <1>5, <1>6, <1>7, <1>8
  DEF Next, SetHostPassthrough, BeginRange, RangeEmpty, RangeFail, Access, Reopen, UnchangedPatches, vars

\* Counting the owners counts the blocks.
LEMMA ImageCount ==
  ASSUME NEW S, IsFiniteSet(S), NEW f, f \in [S -> {f[x] : x \in S}],
         \A x, y \in S : f[x] = f[y] => x = y
  PROVE  /\ IsFiniteSet({f[x] : x \in S})
         /\ Cardinality({f[x] : x \in S}) = Cardinality(S)
<1> DEFINE T == {f[x] : x \in S}
<1>1. \A y \in T : \E x \in S : f[x] = y
  OBVIOUS
<1>2. f \in [S -> T]
  OBVIOUS
<1> HIDE DEF T
<1>3. f \in Bijection(S, T)
  BY <1>1, <1>2 DEF Bijection, Injection, Surjection, IsInjective
<1>4. ExistsBijection(S, T)
  BY <1>3 DEF ExistsBijection
<1> QED
  BY <1>4, FS_Bijection DEF T

LEMMA OwnershipFromInv ==
  TypeOK /\ OwnInv(regions, patches, heap) => HeapOwnership
<1> SUFFICES ASSUME TypeOK, OwnInv(regions, patches, heap) PROVE HeapOwnership
  OBVIOUS
<1> DEFINE RB == {regions[i].data.buf : i \in RegionBlocks}
           PB == {patches[i].data : i \in DOMAIN patches}
           n == Len(patches)
<1>0. /\ regions \in Seq(Region) /\ DOMAIN regions = 1..Len(regions) /\ Len(regions) \in Nat
      /\ patches \in Seq(Patch) /\ DOMAIN patches = 1..n /\ n \in Nat
  BY LenProperties DEF TypeOK
<1>1. RegionBlocks = Blocks(regions)
  BY <1>0 DEF RegionBlocks, OwnedBy, Blocks
<1>2. DOMAIN heap = {Host} \cup RB \cup PB
  BY <1>0, <1>1 DEF OwnInv, AllOwned
<1>3. Host \notin RB
  <2>1. \A k \in 1..Len(regions) : regions[k] \in Region
    BY <1>0, ElementOfSeq
  <2> QED
    BY <1>1, <2>1 DEF Blocks, Region
<1>4. Host \notin PB
  <2>1. \A k \in 1..n : patches[k] \in Patch
    BY <1>0, ElementOfSeq
  <2> QED
    BY <1>0, <2>1, InputsAssumption DEF Patch
<1>5. RB \cap PB = {}
  BY <1>0, <1>1 DEF OwnInv, OneOwner
<1>6. IsFiniteSet(RB) /\ Cardinality(RB) = Cardinality(RegionBlocks)
  <2>1. IsFiniteSet(RegionBlocks)
    <3>1. IsFiniteSet(1..Len(regions))
      BY <1>0, FS_Interval
    <3>2. RegionBlocks \in SUBSET (1..Len(regions))
      BY <1>1 DEF Blocks
    <3> QED
      BY <3>1, <3>2, FS_Subset
  <2> DEFINE f == [i \in RegionBlocks |-> regions[i].data.buf]
  <2>2. f \in [RegionBlocks -> {f[x] : x \in RegionBlocks}]
    OBVIOUS
  <2>3. \A x, y \in RegionBlocks : f[x] = f[y] => x = y
    BY <1>1 DEF OwnInv, OneOwner
  <2>4. RB = {f[x] : x \in RegionBlocks}
    OBVIOUS
  <2> HIDE DEF f, RB
  <2> QED
    BY <2>1, <2>2, <2>3, <2>4, ImageCount
<1>7. IsFiniteSet(PB) /\ Cardinality(PB) = n
  <2>1. IsFiniteSet(1..n) /\ Cardinality(1..n) = n
    <3>0. n \in Nat /\ n \in Int /\ 1 \in Int
      BY <1>0
    <3> HIDE DEF n
    <3>1. Cardinality(1..n) = IF 1 > n THEN 0 ELSE n - 1 + 1
      BY <3>0, FS_Interval
    <3>2. Cardinality(1..n) = n
      BY <3>0, <3>1
    <3> QED
      BY <3>0, <3>2, FS_Interval
  <2> DEFINE f == [i \in 1..n |-> patches[i].data]
  <2>2. f \in [1..n -> {f[x] : x \in 1..n}]
    OBVIOUS
  <2>3. \A x, y \in 1..n : f[x] = f[y] => x = y
    BY DEF OwnInv, OneOwner
  <2>4. PB = {f[x] : x \in 1..n}
    BY <1>0
  <2> HIDE DEF f, PB, n
  <2>5. IsFiniteSet({f[x] : x \in 1..n}) /\ Cardinality({f[x] : x \in 1..n}) = Cardinality(1..n)
    <3> DEFINE S == 1..n
    <3>1. IsFiniteSet(S) /\ f \in [S -> {f[x] : x \in S}] /\ \A x, y \in S : f[x] = f[y] => x = y
      BY <2>1, <2>2, <2>3
    <3> HIDE DEF S
    <3>2. IsFiniteSet({f[x] : x \in S}) /\ Cardinality({f[x] : x \in S}) = Cardinality(S)
      BY <3>1, ImageCount
    <3> QED
      BY <3>2 DEF S
  <2> QED
    BY <2>1, <2>4, <2>5
<1> HIDE DEF RB, PB, n
<1>8. Cardinality(DOMAIN heap) = 1 + Cardinality(RegionBlocks) + n
  <2>1. IsFiniteSet(RB \cup PB) /\ Cardinality(RB \cup PB) = Cardinality(RegionBlocks) + n
    <3>1. IsFiniteSet(RB \cup PB) /\ Cardinality(RB \cup PB) = Cardinality(RB) + Cardinality(PB) - Cardinality(RB \cap PB)
      BY <1>6, <1>7, FS_Union
    <3>2. Cardinality({}) = 0
      BY FS_EmptySet
    <3>3. Cardinality(RegionBlocks) \in Nat
      BY <1>6, FS_CardinalityType
    <3>4. Cardinality(RB \cap PB) = 0
      BY <1>5, <3>2
    <3> QED
      BY <1>0, <1>6, <1>7, <3>1, <3>3, <3>4
  <2>2. DOMAIN heap = (RB \cup PB) \cup {Host} /\ Host \notin RB \cup PB
    BY <1>2, <1>3, <1>4
  <2>3. Cardinality(DOMAIN heap) = Cardinality(RB \cup PB) + 1
    BY <2>1, <2>2, FS_AddElement
  <2>4. Cardinality(RegionBlocks) \in Nat
    BY <1>6, FS_CardinalityType
  <2> QED
    BY <1>0, <2>1, <2>3, <2>4
<1> QED
  BY <1>0, <1>1, <1>2, <1>8 DEF OwnInv, LongEnough, HeapOwnership, RB, PB, n

(* Ownership: through every map, split, copy, half-failed walk, patch and  *)
(* teardown, each allocated block belongs to exactly one region or patch   *)
(* and has its owner's length: no leak, no double free, no use after free. *)
THEOREM BlocksOwned == Spec => []HeapOwnership
<1> DEFINE I == OwnInv(regions, patches, heap)
<1>1. Init => I
  <2> SUFFICES ASSUME Init PROVE I
    OBVIOUS
  <2>1. Len(regions) = 0 /\ Len(patches) = 0 /\ DOMAIN heap = {Host}
    BY DEF Init
  <2>2. Blocks(regions) = {} /\ 1..Len(patches) = {}
    BY <2>1 DEF Blocks
  <2> QED
    BY <2>1, <2>2 DEF OwnInv, OneOwner, AllOwned, LongEnough
<1>2. TypeOK /\ I /\ [Next]_vars => I'
  BY OwnedKept
<1>3. TypeOK /\ I => HeapOwnership
  BY OwnershipFromInv
<1> HIDE DEF I
<1> QED
  BY <1>1, <1>2, <1>3, TypeCorrect, PTL DEF Spec

=============================================================================
