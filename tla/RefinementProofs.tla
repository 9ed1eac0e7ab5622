-------------------------- MODULE RefinementProofs --------------------------
(***************************************************************************)
(* What the calls of MemoryManager do to the address space.                *)
(*                                                                         *)
(* First, what mm_unmap, mm_protect and mm_set_cpu_attrs do to every page, *)
(* for every layout of the regions they walk over: one iteration changes   *)
(* the pages of its chunk and no other, and keeps every byte across the    *)
(* copies that mm_build_region_segment makes.                              *)
(*                                                                         *)
(* Then, that MemoryManager implements AddressSpace: every call of the     *)
(* manager is, on the page table that the regions stand for, one of the    *)
(* changes that AddressSpace allows, or none.                              *)
(***************************************************************************)
EXTENDS MemoryManagerProofs

-----------------------------------------------------------------------------
(* The pieces of a region, by what they are rather than where they stand.  *)

Among(s, e) == \E k \in 1..Len(s) : s[k] = e

LEMMA AmongConcat ==
  ASSUME NEW S, NEW s \in Seq(S), NEW t \in Seq(S), NEW e
  PROVE  Among(s \o t, e) <=> Among(s, e) \/ Among(t, e)
<1> DEFINE c == s \o t
           m == Len(s)
           n == Len(t)
<1>0. m \in Nat /\ n \in Nat
  BY LenProperties
<1>1. Len(c) = m + n /\ \A k \in 1..m+n : c[k] = IF k <= m THEN s[k] ELSE t[k-m]
  BY ConcatProperties
<1> HIDE DEF c, m, n
<1>2. ASSUME NEW k \in 1..m PROVE k \in 1..m+n /\ c[k] = s[k]
  BY <1>0, <1>1
<1>3. ASSUME NEW k \in 1..n PROVE m + k \in 1..m+n /\ c[m + k] = t[k]
  <2>1. m + k \in 1..m+n /\ ~(m + k <= m) /\ (m + k) - m = k
    BY <1>0
  <2> QED
    BY <1>1, <2>1
<1>4. ASSUME NEW k \in 1..m+n
      PROVE  (k \in 1..m /\ c[k] = s[k]) \/ (k - m \in 1..n /\ c[k] = t[k-m])
  BY <1>0, <1>1
<1> QED
  BY <1>1, <1>2, <1>3, <1>4 DEF Among, c, m, n

LEMMA AmongFew ==
  ASSUME NEW x, NEW e
  PROVE  (Among(<<x>>, e) <=> e = x) /\ ~Among(<<>>, e)
<1>1. Len(<<x>>) = 1 /\ <<x>>[1] = x /\ Len(<<>>) = 0
  OBVIOUS
<1>2. \A k \in 1..1 : k = 1
  OBVIOUS
<1>3. 1 \in 1..1 /\ 1..0 = {}
  OBVIOUS
<1> QED
  BY <1>1, <1>2, <1>3 DEF Among

LEMMA SegmentsAre ==
  ASSUME TypeOK, op.pc = "walk", op.current < op.end, NEW r \in Region,
         r.base <= op.current, op.current < RegionEnd(r), NEW e
  PROVE  Among(Segments(r), e) <=>
           \/ r.base < op.current /\ e = Segment(r.base, op.current, r.perms, r.user)
           \/ op.kind = "protect" /\ e = Segment(op.current, ChunkEnd(r), op.arg, r.user)
           \/ op.kind = "attrs" /\ e = Segment(op.current, ChunkEnd(r), r.perms, op.arg)
           \/ ChunkEnd(r) < RegionEnd(r) /\ e = Segment(ChunkEnd(r), RegionEnd(r), r.perms, r.user)
<1> DEFINE S == [base : Int, size : Int, perms : SUBSET Rights, user : BOOLEAN]
           left  == IF r.base < op.current
                    THEN <<Segment(r.base, op.current, r.perms, r.user)>> ELSE <<>>
           mid   == CASE op.kind = "unmap"   -> <<>>
                      [] op.kind = "protect" -> <<Segment(op.current, ChunkEnd(r), op.arg, r.user)>>
                      [] op.kind = "attrs"   -> <<Segment(op.current, ChunkEnd(r), r.perms, op.arg)>>
           right == IF ChunkEnd(r) < RegionEnd(r)
                    THEN <<Segment(ChunkEnd(r), RegionEnd(r), r.perms, r.user)>> ELSE <<>>
           a == r.base
           b == op.current
           c == ChunkEnd(r)
           d == RegionEnd(r)
<1>0. a \in Int /\ b \in Int /\ c \in Int /\ d \in Int
  <2>1. RegionEnd(r) \in Pages /\ ChunkEnd(r) \in Pages
    BY SegmentsType
  <2>2. r.base \in Nat
    BY RegionNumbers
  <2> QED
    BY <2>1, <2>2, SizesAssumption DEF TypeOK, Pages
<1>1. /\ r.perms \in SUBSET Rights /\ r.user \in BOOLEAN /\ op.kind \in RangeKinds
      /\ op.kind = "protect" => op.arg \in SUBSET Rights
      /\ op.kind = "attrs" => op.arg \in BOOLEAN
  BY DEF TypeOK, Region
<1>s. ASSUME NEW x \in Int, NEW y \in Int, NEW perms \in SUBSET Rights, NEW user \in BOOLEAN
      PROVE  <<Segment(x, y, perms, user)>> \in Seq(S)
  <2>1. Segment(x, y, perms, user) \in S
    BY DEF Segment
  <2> HIDE DEF S
  <2> QED
    BY <2>1
<1>e. <<>> \in Seq(S)
  OBVIOUS
<1>2. left \in Seq(S) /\ (Among(left, e) <=> a < b /\ e = Segment(a, b, r.perms, r.user))
  <2>1. left \in Seq(S)
    <3> HIDE DEF S
    <3> QED BY <1>0, <1>1, <1>s, <1>e
  <2>2. CASE a < b
    BY <2>1, <2>2, AmongFew
  <2>3. CASE ~(a < b)
    BY <2>1, <2>3, AmongFew
  <2> QED
    BY <2>2, <2>3
<1>3. /\ mid \in Seq(S)
      /\ Among(mid, e) <=> \/ op.kind = "protect" /\ e = Segment(b, c, op.arg, r.user)
                           \/ op.kind = "attrs" /\ e = Segment(b, c, r.perms, op.arg)
  <2>1. CASE op.kind = "unmap"
    BY <1>e, <2>1, AmongFew
  <2>2. CASE op.kind = "protect"
    <3>1. mid = <<Segment(b, c, op.arg, r.user)>>
      BY <2>2
    <3>2. mid \in Seq(S)
      <4> HIDE DEF S, mid, b, c
      <4> QED BY <1>0, <1>1, <1>s, <2>2, <3>1
    <3> HIDE DEF mid
    <3> QED
      BY <2>2, <3>1, <3>2, AmongFew
  <2>3. CASE op.kind = "attrs"
    <3>1. mid = <<Segment(b, c, r.perms, op.arg)>>
      BY <2>3
    <3>2. mid \in Seq(S)
      <4> HIDE DEF S, mid, b, c
      <4> QED BY <1>0, <1>1, <1>s, <2>3, <3>1
    <3> HIDE DEF mid
    <3> QED
      BY <2>3, <3>1, <3>2, AmongFew
  <2> QED
    BY <1>1, <2>1, <2>2, <2>3 DEF RangeKinds
<1>4. right \in Seq(S) /\ (Among(right, e) <=> c < d /\ e = Segment(c, d, r.perms, r.user))
  <2>1. right \in Seq(S)
    <3> HIDE DEF S
    <3> QED BY <1>0, <1>1, <1>s, <1>e
  <2>2. CASE c < d
    BY <2>1, <2>2, AmongFew
  <2>3. CASE ~(c < d)
    BY <2>1, <2>3, AmongFew
  <2> QED
    BY <2>2, <2>3
<1>5. Segments(r) = (left \o mid) \o right
  BY DEF Segments
<1> HIDE DEF S, left, mid, right
<1>6. left \o mid \in Seq(S)
  BY <1>2, <1>3, ConcatProperties
<1>7. Among(left \o mid, e) <=> Among(left, e) \/ Among(mid, e)
  BY <1>2, <1>3, AmongConcat
<1>8. Among((left \o mid) \o right, e) <=> Among(left \o mid, e) \/ Among(right, e)
  BY <1>4, <1>6, AmongConcat
<1> QED
  BY <1>2, <1>3, <1>4, <1>5, <1>7, <1>8

InChunk(r, q) == op.current <= q /\ q < ChunkEnd(r)
PieceHolds(s, q) == s.base <= q /\ q < s.base + s.size

\* The piece that holds a page has the region's permissions and attribute, except in
\* the chunk, where the call's argument replaces one of them.
PieceFits(r, q, s) ==
  /\ InChunk(r, q) => /\ op.kind # "unmap"
                      /\ s.perms = IF op.kind = "protect" THEN op.arg ELSE r.perms
                      /\ s.user = IF op.kind = "attrs" THEN op.arg ELSE r.user
  /\ ~InChunk(r, q) => s.perms = r.perms /\ s.user = r.user

LEMMA PiecesFit ==
  ASSUME TypeOK, op.pc = "walk", op.current < op.end, NEW r \in Region,
         r.base <= op.current, op.current < RegionEnd(r), NEW q \in Nat
  PROVE  /\ \A k \in 1..Len(Segments(r)) :
              PieceHolds(Segments(r)[k], q) => PieceFits(r, q, Segments(r)[k])
         /\ r.base <= q /\ q < RegionEnd(r) /\ ~(op.kind = "unmap" /\ InChunk(r, q)) =>
              \E k \in 1..Len(Segments(r)) : PieceHolds(Segments(r)[k], q)
<1> DEFINE segs == Segments(r)
           a == r.base
           b == op.current
           c == ChunkEnd(r)
           d == RegionEnd(r)
           left  == Segment(a, b, r.perms, r.user)
           prot  == Segment(b, c, op.arg, r.user)
           attr  == Segment(b, c, r.perms, op.arg)
           right == Segment(c, d, r.perms, r.user)
<1>0. a \in Nat /\ b \in Nat /\ c \in Nat /\ d \in Nat /\ a <= b /\ b < c /\ c <= d
  <2>1. RegionEnd(r) \in Pages /\ ChunkEnd(r) \in Pages /\ op.current < ChunkEnd(r) /\ ChunkEnd(r) <= RegionEnd(r)
    BY SegmentsType
  <2>2. r.base \in Nat
    BY RegionNumbers
  <2> QED
    BY <2>1, <2>2, SizesAssumption DEF TypeOK, Pages
<1>1. op.kind \in RangeKinds
  BY DEF TypeOK
<1>2. \A e : Among(segs, e) <=> \/ a < b /\ e = left
                                \/ op.kind = "protect" /\ e = prot
                                \/ op.kind = "attrs" /\ e = attr
                                \/ c < d /\ e = right
  BY SegmentsAre
<1>3. InChunk(r, q) <=> b <= q /\ q < c
  BY DEF InChunk
<1> HIDE DEF segs, a, b, c, d
<1>4. /\ PieceHolds(left, q) <=> a <= q /\ q < b
      /\ left.perms = r.perms /\ left.user = r.user
  BY <1>0 DEF PieceHolds, Segment
<1>5. /\ PieceHolds(prot, q) <=> b <= q /\ q < c
      /\ prot.perms = op.arg /\ prot.user = r.user
  BY <1>0 DEF PieceHolds, Segment
<1>6. /\ PieceHolds(attr, q) <=> b <= q /\ q < c
      /\ attr.perms = r.perms /\ attr.user = op.arg
  BY <1>0 DEF PieceHolds, Segment
<1>7. /\ PieceHolds(right, q) <=> c <= q /\ q < d
      /\ right.perms = r.perms /\ right.user = r.user
  BY <1>0 DEF PieceHolds, Segment
<1> HIDE DEF left, prot, attr, right
<1>8. ASSUME NEW k \in 1..Len(segs), PieceHolds(segs[k], q)
      PROVE  PieceFits(r, q, segs[k])
  <2>1. Among(segs, segs[k])
    BY DEF Among
  <2>2. CASE segs[k] = left
    BY <1>0, <1>3, <1>4, <1>8, <2>2 DEF PieceFits
  <2>3. CASE op.kind = "protect" /\ segs[k] = prot
    BY <1>0, <1>3, <1>5, <1>8, <2>3 DEF PieceFits
  <2>4. CASE op.kind = "attrs" /\ segs[k] = attr
    BY <1>0, <1>3, <1>6, <1>8, <2>4 DEF PieceFits
  <2>5. CASE segs[k] = right
    BY <1>0, <1>3, <1>7, <1>8, <2>5 DEF PieceFits
  <2> QED
    BY <1>2, <2>1, <2>2, <2>3, <2>4, <2>5
<1>9. ASSUME a <= q, q < d, ~(op.kind = "unmap" /\ InChunk(r, q))
      PROVE  \E k \in 1..Len(segs) : PieceHolds(segs[k], q)
  <2>1. \E e : Among(segs, e) /\ PieceHolds(e, q)
    <3>1. CASE q < b
      <4>1. a < b /\ PieceHolds(left, q)
        BY <1>0, <1>4, <1>9, <3>1
      <4> QED
        BY <1>2, <4>1
    <3>2. CASE b <= q /\ q < c
      <4>1. op.kind = "protect" \/ op.kind = "attrs"
        BY <1>1, <1>3, <1>9, <3>2 DEF RangeKinds
      <4> QED
        BY <1>2, <1>5, <1>6, <3>2, <4>1
    <3>3. CASE c <= q
      <4>1. c < d /\ PieceHolds(right, q)
        BY <1>0, <1>7, <1>9, <3>3
      <4> QED
        BY <1>2, <4>1
    <3> QED
      BY <1>0, <3>1, <3>2, <3>3
  <2> QED
    BY <2>1 DEF Among
<1> QED
  BY <1>8, <1>9 DEF segs, a, d

-----------------------------------------------------------------------------
(* One iteration, as a change of the view of every page.                   *)

LEMMA OnlyHolder ==
  ASSUME NEW regs \in Seq(Region), InOrder(regs), NEW q \in Nat,
         NEW k \in 1..Len(regs), regs[k].base <= q, q < RegionEnd(regs[k])
  PROVE  /\ FindRegionIndex(regs, q) = k
         /\ \A j \in 1..Len(regs) : regs[j].base <= q /\ q < RegionEnd(regs[j]) => j = k
<1>0. Len(regs) \in Nat /\ DOMAIN regs = 1..Len(regs)
  BY LenProperties
<1>1. \A j \in 1..Len(regs) : regs[j].base \in Nat /\ RegionEnd(regs[j]) \in Nat
  BY ElementOfSeq, RegionNumbers
<1>2. ASSUME NEW j \in 1..Len(regs), regs[j].base <= q, q < RegionEnd(regs[j]) PROVE j = k
  <2>1. ~(j < k) /\ ~(k < j)
    BY <1>1, <1>2 DEF InOrder
  <2> QED
    BY <1>0, <2>1
<1>3. k \in Holders(regs, q) /\ \A j \in Holders(regs, q) : j = k
  BY <1>0, <1>2 DEF Holders
<1> QED
  BY <1>2, <1>3 DEF FindRegionIndex

LEMMA NoHolder ==
  ASSUME NEW regs \in Seq(Region), NEW q \in Nat,
         \A k \in 1..Len(regs) : ~(regs[k].base <= q /\ q < RegionEnd(regs[k]))
  PROVE  FindRegionIndex(regs, q) = 0
<1>0. DOMAIN regs = 1..Len(regs)
  BY LenProperties
<1> QED
  BY <1>0 DEF FindRegionIndex, Holders

\* Everything a step of a walk does to the array and the heap, with its pieces named.
LEMMA StepFacts ==
  ASSUME TypeOK, RangeStep
  PROVE  LET i == WalkRegion
             r == regions[i]
             segs == Segments(r)
         IN  \E t, bufs :
               /\ t \in Seq(Region)
               /\ regions' = Splice(regions, i, i+1, t) /\ Len(t) = Len(segs)
               /\ \A k \in 1..Len(segs) :
                    t[k] = BuildRegionSegment(r, segs[k], IF r.external THEN Host ELSE bufs[k])
               /\ ~r.external => \A k \in 1..Len(segs) :
                    heap'[bufs[k]] = [x \in 0..segs[k].size*PageSize-1 |->
                                        heap[r.data.buf][SegmentOffset(r, segs[k]) + x]]
               /\ \A b \in DOMAIN heap : (r.external \/ b # r.data.buf) => heap'[b] = heap[b]
<1> DEFINE i == WalkRegion
           r == regions[i]
           segs == Segments(r)
           n == Len(segs)
           need == IF r.external THEN {} ELSE DOMAIN segs
           freed == IF r.external THEN {} ELSE {r.data.buf}
<1>2. n \in Nat /\ DOMAIN segs = 1..n
  BY WalkRegionFacts, LenProperties
<1>3. PICK bufs \in [need -> BufIds \ DOMAIN heap] :
        /\ \A k, l \in need : bufs[k] = bufs[l] => k = l
        /\ heap' = [b \in (DOMAIN heap \ freed) \cup {bufs[k] : k \in need} |->
                      IF \E k \in need : bufs[k] = b
                      THEN LET k == CHOOSE l \in need : bufs[l] = b
                           IN  [x \in 0..segs[k].size*PageSize-1 |->
                                  heap[r.data.buf][SegmentOffset(r, segs[k]) + x]]
                      ELSE heap[b]]
        /\ NewPieces(r, bufs) \in Seq(Region)
        /\ regions' = Splice(regions, i, i+1, NewPieces(r, bufs))
  BY RangeStepSplices
<1> DEFINE t == NewPieces(r, bufs)
           body(b) == IF \E k \in need : bufs[k] = b
                      THEN LET k == CHOOSE l \in need : bufs[l] = b
                           IN  [x \in 0..segs[k].size*PageSize-1 |->
                                  heap[r.data.buf][SegmentOffset(r, segs[k]) + x]]
                      ELSE heap[b]
           D == (DOMAIN heap \ freed) \cup {bufs[k] : k \in need}
<1>4. t \in Seq(Region) /\ regions' = Splice(regions, i, i+1, t)
  BY <1>3
<1>5. Len(t) = n /\ \A k \in 1..n : t[k] = BuildRegionSegment(r, segs[k], IF r.external THEN Host ELSE bufs[k])
  <2>1. t = [k \in 1..n |-> BuildRegionSegment(r, segs[k], IF r.external THEN Host ELSE bufs[k])]
    BY DEF NewPieces
  <2> HIDE DEF t, n, segs, r
  <2> QED
    BY <1>2, <2>1
<1>6. heap' = [b \in D |-> body(b)]
  BY <1>3
<1>7. \A b \in D : heap'[b] = body(b)
  <2> HIDE DEF D, body
  <2> QED
    BY <1>6
<1>8. \A k \in need : bufs[k] \notin DOMAIN heap
  BY <1>3
<1>9. ASSUME ~r.external, NEW k \in 1..n
      PROVE  heap'[bufs[k]] = [x \in 0..segs[k].size*PageSize-1 |->
                                 heap[r.data.buf][SegmentOffset(r, segs[k]) + x]]
  <2>0. k \in need /\ bufs[k] \in D
    BY <1>2, <1>9
  <2>1. (CHOOSE l \in need : bufs[l] = bufs[k]) = k
    <3> HIDE DEF need
    <3> QED
      BY <1>3, <2>0
  <2>2. heap'[bufs[k]] = body(bufs[k])
    <3> HIDE DEF D, body
    <3> QED
      BY <1>7, <2>0
  <2> HIDE DEF need, segs, r
  <2> QED
    BY <2>0, <2>1, <2>2
<1>10. ASSUME NEW b \in DOMAIN heap, r.external \/ b # r.data.buf
       PROVE  heap'[b] = heap[b]
  <2>1. b \in D
    BY <1>10
  <2>2. body(b) = heap[b]
    <3> HIDE DEF need, segs, r
    <3> QED
      BY <1>8
  <2> HIDE DEF D, body
  <2> QED
    BY <1>7, <2>1, <2>2
<1> HIDE DEF t
<1> QED
  BY <1>4, <1>5, <1>9, <1>10

\* Offsets in a copy and in its source.
LEMMA CopyOffset ==
  ASSUME NEW o \in Nat, NEW rb \in Nat, NEW sb \in Nat, NEW q \in Nat, NEW P \in Nat, NEW x \in Nat
  PROVE  (o + (sb - rb) * P) + ((q - sb) * P + x) = o + (q - rb) * P + x
  OBVIOUS

LEMMA CopyInside ==
  ASSUME NEW sb \in Nat, NEW size \in Nat, NEW q \in Nat, NEW P \in Nat \ {0}, NEW x \in 0..P-1,
         sb <= q, q < sb + size
  PROVE  (q - sb) * P + x \in 0..size*P-1
<1> DEFINE d == q - sb
<1>1. d \in Nat /\ d + 1 <= size
  OBVIOUS
<1> HIDE DEF d
<1>2. d * P \in Nat /\ size * P \in Nat
  BY <1>1, TimesNat
<1>3. (size - (d + 1)) \in Nat
  BY <1>1
<1>4. (size - (d + 1)) * P \in Nat
  BY <1>3, TimesNat
<1>5. (size - (d + 1)) * P = size * P - d * P - P
  BY <1>1
<1>6. d * P + x \in 0..size*P-1
  BY <1>2, <1>4, <1>5
<1> QED
  BY <1>6 DEF d

\* What a range call makes of the view of a page.
Altered(kind, arg, view) ==
  CASE kind = "unmap"   -> [mapped |-> FALSE]
    [] kind = "protect" -> [view EXCEPT !.perms = arg]
    [] kind = "attrs"   -> [view EXCEPT !.user = arg]

View(perms, user, bytes) == [mapped |-> TRUE, perms |-> perms, user |-> user, bytes |-> bytes]

BytesOf(r, h, q) ==
  [k \in 0..PageSize-1 |-> h[r.data.buf][r.data.off + (q - r.base)*PageSize + k]]

LEMMA ViewOfHolder ==
  ASSUME NEW regs \in Seq(Region), InOrder(regs), NEW q \in Nat, NEW h,
         NEW k \in 1..Len(regs), regs[k].base <= q, q < RegionEnd(regs[k])
  PROVE  PageView(regs, h, q) = View(regs[k].perms, regs[k].user, BytesOf(regs[k], h, q))
<1>1. FindRegionIndex(regs, q) = k
  BY OnlyHolder
<1>2. k # 0
  BY LenProperties
<1> QED
  BY <1>1, <1>2 DEF PageView, View, BytesOf

\* The blocks h and g before and after piece s of region r was built in block buf: the
\* host's memory is as it was, an internal piece is a copy.
Carried(r, s, buf, h, g) ==
  /\ r.external => g[r.data.buf] = h[r.data.buf]
  /\ ~r.external => \A x \in 0..s.size*PageSize-1 :
                      g[buf][x] = h[r.data.buf][SegmentOffset(r, s) + x]

\* The bytes of a page in a piece are its bytes in the region it was cut from.
LEMMA PieceBytes ==
  ASSUME NEW r \in Region, NEW s, s.base \in Nat, s.size \in Nat, NEW q \in Nat, PieceHolds(s, q),
         NEW buf, NEW h, NEW g, Carried(r, s, buf, h, g)
  PROVE  BytesOf(BuildRegionSegment(r, s, buf), g, q) = BytesOf(r, h, q)
<1> DEFINE t == BuildRegionSegment(r, s, buf)
<1>c. /\ r.external => g[r.data.buf] = h[r.data.buf]
      /\ ~r.external => \A x \in 0..s.size*PageSize-1 :
                          g[buf][x] = h[r.data.buf][SegmentOffset(r, s) + x]
  BY DEF Carried
<1>0. /\ r.base \in Nat /\ r.data.off \in Nat /\ PageSize \in Nat \ {0} /\ r.external \in BOOLEAN
      /\ s.base <= q /\ q < s.base + s.size
  BY SizesAssumption, RegionNumbers DEF Region, Ptr, PieceHolds
<1>1. t.base = s.base
  BY DEF BuildRegionSegment
<1>2. ASSUME NEW x \in 0..PageSize-1
      PROVE  g[t.data.buf][t.data.off + (q - t.base)*PageSize + x]
               = h[r.data.buf][r.data.off + (q - r.base)*PageSize + x]
  <2> DEFINE y == (q - s.base)*PageSize + x
             o == SegmentOffset(r, s)
  <2>0. x \in Nat
    BY <1>0
  <2>1. y \in 0..s.size*PageSize-1 /\ y \in Nat
    <3>1. y \in 0..s.size*PageSize-1
      BY <1>0, CopyInside
    <3> HIDE DEF y
    <3> QED
      BY <3>1
  <2>2. o + y = r.data.off + (q - r.base)*PageSize + x
    <3> DEFINE rb == r.base
               sb == s.base
               f == r.data.off
               P == PageSize
    <3>1. rb \in Nat /\ sb \in Nat /\ f \in Nat /\ P \in Nat
      BY <1>0
    <3>2. o = f + (sb - rb) * P /\ y = (q - sb) * P + x
      BY DEF SegmentOffset
    <3> HIDE DEF o, y, rb, sb, f, P
    <3>3. (f + (sb - rb) * P) + ((q - sb) * P + x) = f + (q - rb) * P + x
      BY <2>0, <3>1, CopyOffset
    <3>4. o + y = f + (q - rb) * P + x
      BY <3>2, <3>3
    <3> QED
      BY <3>4 DEF f, rb, P
  <2>3. CASE r.external
    <3>1. t.data.buf = r.data.buf /\ t.data.off = o
      BY <2>3 DEF BuildRegionSegment
    <3>2. o \in Int /\ (q - s.base)*PageSize \in Int
      <4> DEFINE w == (s.base - r.base) * PageSize
      <4>1. w \in Int /\ (q - s.base)*PageSize \in Int
        BY <1>0
      <4>2. o = r.data.off + w
        BY DEF SegmentOffset
      <4> HIDE DEF w, o
      <4> QED
        BY <1>0, <4>1, <4>2
    <3> DEFINE z == (q - s.base)*PageSize
    <3>3. o + z + x = o + (z + x)
      <4> HIDE DEF o, z
      <4> QED
        BY <2>0, <3>2 DEF z
    <3> HIDE DEF o
    <3> QED
      BY <1>1, <1>c, <2>2, <2>3, <3>1, <3>3
  <2>4. CASE ~r.external
    <3>1. t.data.buf = buf /\ t.data.off = 0
      BY <2>4 DEF BuildRegionSegment
    <3>2. 0 + (q - s.base)*PageSize + x = y
      BY <1>0, <2>0
    <3>3. g[buf][y] = h[r.data.buf][o + y]
      <4> HIDE DEF y, o
      <4>1. \A z \in 0..s.size*PageSize-1 : g[buf][z] = h[r.data.buf][o + z]
        BY <1>c, <2>4 DEF o
      <4> QED
        BY <2>1, <4>1
    <3> HIDE DEF y, o
    <3> QED
      BY <1>1, <2>2, <3>1, <3>2, <3>3
  <2> QED
    BY <2>3, <2>4
<1> QED
  BY <1>2 DEF BytesOf


LEMMA AlteredView ==
  ASSUME NEW perms, NEW user, NEW bytes, NEW arg
  PROVE  /\ Altered("protect", arg, View(perms, user, bytes)) = View(arg, user, bytes)
         /\ Altered("attrs", arg, View(perms, user, bytes)) = View(perms, arg, bytes)
  BY DEF Altered, View

Holds(r, q) == r.base <= q /\ q < RegionEnd(r)

LEMMA NoView ==
  ASSUME NEW regs \in Seq(Region), NEW q \in Nat, NEW h, \A k \in 1..Len(regs) : ~Holds(regs[k], q)
  PROVE  PageView(regs, h, q) = [mapped |-> FALSE]
<1>1. FindRegionIndex(regs, q) = 0
  BY NoHolder DEF Holds
<1> QED
  BY <1>1 DEF PageView

\* c is s with its entry i replaced by the entries of t.
Replaced(c, s, i, t) ==
  /\ \A k \in 1..Len(c) : \/ \E u \in 1..Len(t) : c[k] = t[u]
                          \/ \E o \in 1..Len(s) : o # i /\ c[k] = s[o]
  /\ \A u \in 1..Len(t) : i - 1 + u \in 1..Len(c) /\ c[i - 1 + u] = t[u]
  /\ \A o \in 1..Len(s) : o # i => \E k \in 1..Len(c) : c[k] = s[o]

LEMMA SpliceReplaces ==
  ASSUME NEW s \in Seq(Region), NEW t \in Seq(Region),
         NEW i \in 1..Len(s)+1, NEW j \in i..Len(s)+1, j = i + 1
  PROVE  Replaced(Splice(s, i, j, t), s, i, t)
<1> DEFINE c == Splice(s, i, j, t)
<1>0. Len(s) \in Nat /\ i \in Nat /\ j \in Nat
  BY LenProperties
<1>1. \A k \in 1..Len(c) :
        \/ \E u \in 1..Len(t) : k = i - 1 + u /\ c[k] = t[u]
        \/ \E o \in 1..Len(s) : /\ o < i \/ j <= o
                                /\ k = NewPos(i, j, Len(t), o) /\ c[k] = s[o]
  BY SplicePositions
<1>2. \A u \in 1..Len(t) : i - 1 + u \in 1..Len(c) /\ c[i - 1 + u] = t[u]
  BY SplicePositions
<1>3. \A o \in 1..Len(s) : o < i \/ j <= o =>
        NewPos(i, j, Len(t), o) \in 1..Len(c) /\ c[NewPos(i, j, Len(t), o)] = s[o]
  BY SplicePositions
<1>4. \A o \in 1..Len(s) : (o < i \/ j <= o) <=> o # i
  BY <1>0
<1> HIDE DEF c
<1>5. \A k \in 1..Len(c) : \/ \E u \in 1..Len(t) : c[k] = t[u]
                           \/ \E o \in 1..Len(s) : o # i /\ c[k] = s[o]
  BY <1>1, <1>4
<1>6. \A o \in 1..Len(s) : o # i => \E k \in 1..Len(c) : c[k] = s[o]
  BY <1>3, <1>4
<1>7. Replaced(c, s, i, t)
  BY <1>2, <1>5, <1>6 DEF Replaced
<1> QED
  BY <1>7 DEF c

Bare(regs, q) == \A k \in 1..Len(regs) : ~Holds(regs[k], q)

\* Region e of the new array holds page q and is piece s of r.
FromPiece(e, r, s, buf, q) ==
  /\ e = BuildRegionSegment(r, s, buf) /\ Holds(e, q)
  /\ PieceHolds(s, q) /\ PieceFits(r, q, s) /\ s.base \in Nat /\ s.size \in Nat
  /\ Carried(r, s, buf, heap, heap')

\* Where a page is after one iteration: nowhere if it was nowhere, or is being unmapped;
\* in the same region with the same block; or in a piece of the region that was cut.
LEMMA HoldersAfterStep ==
  ASSUME TypeOK, InOrder(regions), OwnInv(regions, patches, heap), RangeStep, NEW q \in Nat
  PROVE  LET r == regions[WalkRegion]
         IN  /\ Bare(regions, q) => Bare(regions', q) /\ ~InChunk(r, q)
             /\ \A o \in 1..Len(regions) : o # WalkRegion /\ Holds(regions[o], q) =>
                  /\ ~InChunk(r, q)
                  /\ heap'[regions[o].data.buf] = heap[regions[o].data.buf]
                  /\ \E k \in 1..Len(regions') : regions'[k] = regions[o]
             /\ Holds(r, q) /\ op.kind = "unmap" /\ InChunk(r, q) => Bare(regions', q)
             /\ Holds(r, q) /\ ~(op.kind = "unmap" /\ InChunk(r, q)) =>
                  \E k \in 1..Len(regions') : \E s, buf : FromPiece(regions'[k], r, s, buf, q)
<1> DEFINE i == WalkRegion
           r == regions[i]
           segs == Segments(r)
           n == Len(regions)
           m == Len(segs)
<1>0. /\ i \in 1..n /\ r \in Region /\ op.pc = "walk" /\ op.kind \in RangeKinds
      /\ op.current < op.end
      /\ r.base <= op.current /\ op.current < RegionEnd(r)
      /\ Laid(segs, r.base, RegionEnd(r)) /\ op.current \in Nat
  BY WalkRegionFacts, SizesAssumption DEF TypeOK, Pages
<1>1. /\ RegionEnd(r) \in Nat /\ RegionEnd(r) < NPages /\ ChunkEnd(r) \in Nat
      /\ ChunkEnd(r) <= RegionEnd(r) /\ r.base \in Nat
  <2>1. RegionEnd(r) \in Pages /\ ChunkEnd(r) \in Pages /\ ChunkEnd(r) <= RegionEnd(r)
    BY <1>0, SegmentsType
  <2>2. r.base \in Nat
    BY <1>0, RegionNumbers
  <2> QED
    BY <2>1, <2>2, SizesAssumption DEF Pages
<1>2. regions \in Seq(Region) /\ n \in Nat /\ regions' \in Seq(Region) /\ InOrder(regions')
  <2>1. regions' \in Seq(Region)
    BY RangeStepType DEF TypeOK
  <2> QED
    BY <2>1, StepKeepsOrder, LenProperties DEF TypeOK
<1>2a. PICK t \in Seq(Region) : \E bufs :
        /\ regions' = Splice(regions, i, i+1, t) /\ Len(t) = m
        /\ \A k \in 1..m : t[k] = BuildRegionSegment(r, segs[k], IF r.external THEN Host ELSE bufs[k])
        /\ ~r.external => \A k \in 1..m :
             heap'[bufs[k]] = [x \in 0..segs[k].size*PageSize-1 |->
                                 heap[r.data.buf][SegmentOffset(r, segs[k]) + x]]
        /\ \A b \in DOMAIN heap : (r.external \/ b # r.data.buf) => heap'[b] = heap[b]
  BY StepFacts
<1>3. PICK bufs :
        /\ regions' = Splice(regions, i, i+1, t) /\ Len(t) = m
        /\ \A k \in 1..m : t[k] = BuildRegionSegment(r, segs[k], IF r.external THEN Host ELSE bufs[k])
        /\ ~r.external => \A k \in 1..m :
             heap'[bufs[k]] = [x \in 0..segs[k].size*PageSize-1 |->
                                 heap[r.data.buf][SegmentOffset(r, segs[k]) + x]]
        /\ \A b \in DOMAIN heap : (r.external \/ b # r.data.buf) => heap'[b] = heap[b]
  BY <1>2a
<1>4. \A k \in 1..m : segs[k].base \in Nat /\ segs[k].size \in Nat
                      /\ r.base <= segs[k].base /\ segs[k].base + segs[k].size <= RegionEnd(r)
  BY <1>0 DEF Laid
<1>5. ASSUME NEW k \in 1..m
      PROVE  /\ Holds(t[k], q) <=> PieceHolds(segs[k], q)
             /\ PieceHolds(segs[k], q) => Holds(r, q)
             /\ t[k].perms = segs[k].perms /\ t[k].user = segs[k].user
  <2> DEFINE s == segs[k]
             e == s.base + s.size
             b == IF r.external THEN Host ELSE bufs[k]
             u == t[k]
  <2>0. /\ s.base \in Nat /\ s.size \in Nat /\ r.base <= s.base /\ e <= RegionEnd(r)
        /\ e \in Nat /\ e < NPages
    <3>1. s.base \in Nat /\ s.size \in Nat /\ r.base <= s.base /\ e <= RegionEnd(r)
      BY <1>4
    <3> HIDE DEF s
    <3> QED
      BY <1>1, <3>1, SizesAssumption
  <2>1. u = BuildRegionSegment(r, s, b)
    BY <1>3
  <2> HIDE DEF s, b, segs, r, u
  <2>2. u.base = s.base /\ u.size = s.size /\ u.perms = s.perms /\ u.user = s.user
    BY <2>1 DEF BuildRegionSegment
  <2>3. RegionEnd(u) = e
    <3>1. RegionEnd(u) = e % NPages
      BY <2>2 DEF RegionEnd
    <3> HIDE DEF e
    <3> QED
      BY <2>0, <3>1, SizesAssumption
  <2>4. Holds(u, q) <=> PieceHolds(s, q)
    BY <2>2, <2>3 DEF Holds, PieceHolds
  <2>5. PieceHolds(s, q) => Holds(r, q)
    <3> HIDE DEF e
    <3>1. PieceHolds(s, q) => s.base <= q /\ q < e
      BY DEF PieceHolds, e
    <3> QED
      BY <1>1, <2>0, <3>1 DEF Holds
  <2> QED
    BY <2>2, <2>4, <2>5 DEF u, s
<1>6. /\ \A k \in 1..Len(regions') :
           \/ \E u \in 1..m : regions'[k] = t[u]
           \/ \E o \in 1..n : o # i /\ regions'[k] = regions[o]
      /\ \A u \in 1..m : i - 1 + u \in 1..Len(regions') /\ regions'[i - 1 + u] = t[u]
      /\ \A o \in 1..n : o # i => \E k \in 1..Len(regions') : regions'[k] = regions[o]
  <2>1. Replaced(regions', regions, i, t)
    <3>1. regions \in Seq(Region) /\ t \in Seq(Region) /\ i \in 1..Len(regions)
      BY <1>0, <1>2, <1>3
    <3> DEFINE j == i + 1
    <3>2. i \in 1..Len(regions)+1 /\ j \in i..Len(regions)+1 /\ j = i + 1
      BY <1>2, <3>1
    <3> HIDE DEF i, j
    <3>3. Replaced(Splice(regions, i, j, t), regions, i, t)
      BY <3>1, <3>2, SpliceReplaces
    <3> QED
      BY <1>3, <3>3 DEF i, j
  <2> HIDE DEF i, m
  <2> QED
    BY <1>3, <2>1 DEF Replaced, m, i
<1>7. Host \in DOMAIN heap /\ \A o \in 1..n : regions[o] \in Region
  BY <1>2, ElementOfSeq DEF TypeOK
<1>8. InChunk(r, q) => Holds(r, q)
  <2> HIDE DEF r
  <2> QED
    BY <1>0, <1>1 DEF InChunk, Holds
<1>9. ASSUME Bare(regions, q) PROVE Bare(regions', q) /\ ~InChunk(r, q)
  <2>1. \A k \in 1..Len(regions') : ~Holds(regions'[k], q)
    BY <1>0, <1>5, <1>6, <1>9 DEF Bare
  <2>2. ~InChunk(r, q)
    BY <1>0, <1>8, <1>9 DEF Bare
  <2> QED
    BY <2>1, <2>2 DEF Bare
<1>10. ASSUME NEW o \in 1..n, o # i, Holds(regions[o], q)
       PROVE  /\ ~InChunk(r, q)
              /\ heap'[regions[o].data.buf] = heap[regions[o].data.buf]
              /\ \E k \in 1..Len(regions') : regions'[k] = regions[o]
  <2> DEFINE w == regions[o]
             b == w.data.buf
  <2>1. ~Holds(r, q)
    BY <1>0, <1>2, <1>10, OnlyHolder DEF Holds
  <2>2. b \in DOMAIN heap /\ (r.external \/ b # r.data.buf)
    <3>1. w \in Region
      BY <1>7
    <3>2. CASE w.external
      BY <1>0, <1>7, <3>1, <3>2 DEF Region
    <3>3. CASE ~w.external
      <4>1. o \in Blocks(regions)
        BY <3>3 DEF Blocks
      <4>2. b \in DOMAIN heap
        BY <4>1 DEF OwnInv, AllOwned
      <4>3. ~r.external => i \in Blocks(regions)
        BY <1>0 DEF Blocks
      <4>4. ~r.external => b # r.data.buf
        BY <1>10, <4>1, <4>3 DEF OwnInv, OneOwner
      <4> QED
        BY <4>2, <4>4
    <3> QED
      BY <3>2, <3>3
  <2>3. heap'[b] = heap[b]
    BY <1>3, <2>2
  <2> QED
    BY <1>6, <1>8, <1>10, <2>1, <2>3
<1>11. ASSUME Holds(r, q), op.kind = "unmap", InChunk(r, q)
       PROVE  Bare(regions', q)
  <2>1. \A u \in 1..m : ~PieceHolds(segs[u], q)
    <3>1. ASSUME NEW u \in 1..m, PieceHolds(segs[u], q) PROVE FALSE
      <4>1. PieceFits(r, q, segs[u])
        BY <1>0, <3>1, PiecesFit
      <4> QED
        BY <1>11, <4>1 DEF PieceFits
    <3> QED
      BY <3>1
  <2>2. \A o \in 1..n : o # i => ~Holds(regions[o], q)
    BY <1>0, <1>2, <1>11, OnlyHolder DEF Holds
  <2>3. \A k \in 1..Len(regions') : ~Holds(regions'[k], q)
    BY <1>5, <1>6, <2>1, <2>2
  <2> QED
    BY <2>3 DEF Bare
<1>12. ASSUME Holds(r, q), ~(op.kind = "unmap" /\ InChunk(r, q))
       PROVE  \E k \in 1..Len(regions') : \E s, buf : FromPiece(regions'[k], r, s, buf, q)
  <2>1. PICK u \in 1..m : PieceHolds(segs[u], q)
    BY <1>0, <1>12, PiecesFit DEF Holds
  <2>2. PieceFits(r, q, segs[u])
    BY <1>0, <2>1, PiecesFit
  <2> DEFINE s == segs[u]
             b == IF r.external THEN Host ELSE bufs[u]
             e == t[u]
             k == i - 1 + u
  <2>3. k \in 1..Len(regions') /\ regions'[k] = e /\ Holds(e, q)
    BY <1>5, <1>6, <2>1
  <2>4. e = BuildRegionSegment(r, s, b) /\ s.base \in Nat /\ s.size \in Nat
    BY <1>3, <1>4, <2>1
  <2>5. r.external => heap'[r.data.buf] = heap[r.data.buf]
    <3>1. r.external => r.data.buf = Host
      BY <1>0 DEF Region
    <3> QED
      BY <1>3, <1>7, <3>1
  <2>6. ~r.external => \A x \in 0..s.size*PageSize-1 :
                          heap'[b][x] = heap[r.data.buf][SegmentOffset(r, s) + x]
    <3>1. ~r.external => heap'[b] = [x \in 0..s.size*PageSize-1 |->
                                       heap[r.data.buf][SegmentOffset(r, s) + x]]
      BY <1>3
    <3> HIDE DEF b, s, r
    <3> QED
      BY <3>1
  <2>7. Carried(r, s, b, heap, heap')
    BY <2>5, <2>6 DEF Carried
  <2>8. FromPiece(e, r, s, b, q)
    <3> HIDE DEF e, s, b, r
    <3> QED
      BY <2>1, <2>2, <2>3, <2>4, <2>7 DEF FromPiece, s
  <2> QED
    BY <2>3, <2>8
<1> HIDE DEF r
<1>13. /\ Bare(regions, q) => Bare(regions', q) /\ ~InChunk(r, q)
       /\ \A o \in 1..Len(regions) : o # i /\ Holds(regions[o], q) =>
            /\ ~InChunk(r, q)
            /\ heap'[regions[o].data.buf] = heap[regions[o].data.buf]
            /\ \E k \in 1..Len(regions') : regions'[k] = regions[o]
       /\ Holds(r, q) /\ op.kind = "unmap" /\ InChunk(r, q) => Bare(regions', q)
       /\ Holds(r, q) /\ ~(op.kind = "unmap" /\ InChunk(r, q)) =>
            \E k \in 1..Len(regions') : \E s, buf : FromPiece(regions'[k], r, s, buf, q)
  BY <1>9, <1>10, <1>11, <1>12
<1> QED
  BY <1>13 DEF r

\* One iteration changes the pages of its chunk as the call asks, and no other page:
\* not its permissions, not its attribute, not a byte of it.
LEMMA ViewAfterStep ==
  ASSUME TypeOK, InOrder(regions), OwnInv(regions, patches, heap), RangeStep, NEW q \in Nat
  PROVE  LET r == regions[WalkRegion]
         IN  PageView(regions', heap', q) =
               IF InChunk(r, q) THEN Altered(op.kind, op.arg, PageView(regions, heap, q))
               ELSE PageView(regions, heap, q)
<1> DEFINE i == WalkRegion
           r == regions[i]
           n == Len(regions)
           before == PageView(regions, heap, q)
           after == PageView(regions', heap', q)
           bytes == BytesOf(r, heap, q)
<1>0. i \in 1..n /\ r \in Region /\ op.kind \in RangeKinds
  BY WalkRegionFacts DEF TypeOK
<1>1. regions \in Seq(Region) /\ regions' \in Seq(Region) /\ InOrder(regions')
  <2>1. regions' \in Seq(Region)
    BY RangeStepType DEF TypeOK
  <2> QED
    BY <2>1, StepKeepsOrder DEF TypeOK
<1>2. ASSUME NEW k \in 1..Len(regions'), Holds(regions'[k], q)
      PROVE  after = View(regions'[k].perms, regions'[k].user, BytesOf(regions'[k], heap', q))
  BY <1>1, <1>2, ViewOfHolder DEF Holds
<1>3. CASE Bare(regions, q)
  <2>1. Bare(regions', q) /\ ~InChunk(r, q)
    BY <1>3, HoldersAfterStep
  <2>2. before = [mapped |-> FALSE]
    BY <1>1, <1>3, NoView DEF Bare
  <2>3. after = [mapped |-> FALSE]
    BY <1>1, <2>1, NoView DEF Bare
  <2> QED
    BY <2>1, <2>2, <2>3
<1>4. ASSUME NEW o \in 1..n, o # i, Holds(regions[o], q)
      PROVE  after = before /\ ~InChunk(r, q)
  <2> DEFINE w == regions[o]
  <2>1. ~InChunk(r, q) /\ heap'[w.data.buf] = heap[w.data.buf]
    BY <1>4, HoldersAfterStep
  <2>2. PICK k \in 1..Len(regions') : regions'[k] = w
    BY <1>4, HoldersAfterStep
  <2>3. before = View(w.perms, w.user, BytesOf(w, heap, q))
    BY <1>1, <1>4, ViewOfHolder DEF Holds
  <2>4. after = View(w.perms, w.user, BytesOf(w, heap', q))
    BY <1>2, <1>4, <2>2
  <2>5. BytesOf(w, heap', q) = BytesOf(w, heap, q)
    <3> HIDE DEF w
    <3> QED
      BY <2>1 DEF BytesOf
  <2> QED
    BY <2>1, <2>3, <2>4, <2>5
<1>5. CASE Holds(r, q)
  <2>1. before = View(r.perms, r.user, bytes)
    BY <1>0, <1>1, <1>5, ViewOfHolder DEF Holds
  <2>2. CASE op.kind = "unmap" /\ InChunk(r, q)
    <3>1. Altered(op.kind, op.arg, before) = [mapped |-> FALSE]
      BY <2>2 DEF Altered
    <3>2. Bare(regions', q)
      BY <1>5, <2>2, HoldersAfterStep
    <3>3. after = [mapped |-> FALSE]
      BY <1>1, <3>2, NoView DEF Bare
    <3> QED
      BY <2>2, <3>1, <3>3
  <2>3. CASE ~(op.kind = "unmap" /\ InChunk(r, q))
    <3>0. PICK k \in 1..Len(regions') : \E s, buf : FromPiece(regions'[k], r, s, buf, q)
      BY <1>5, <2>3, HoldersAfterStep
    <3>1. PICK s, buf : FromPiece(regions'[k], r, s, buf, q)
      BY <3>0
    <3> DEFINE e == regions'[k]
               g == heap'
    <3>2. /\ e = BuildRegionSegment(r, s, buf) /\ Holds(e, q) /\ PieceHolds(s, q)
          /\ PieceFits(r, q, s) /\ s.base \in Nat /\ s.size \in Nat
          /\ Carried(r, s, buf, heap, g)
      BY <3>1 DEF FromPiece
    <3>3. after = View(e.perms, e.user, BytesOf(e, g, q))
      BY <1>2, <3>2
    <3>4. BytesOf(e, g, q) = bytes
      <4> HIDE DEF e, g, r
      <4> QED
        BY <1>0, <3>2, PieceBytes
    <3>5. e.perms = s.perms /\ e.user = s.user
      <4> HIDE DEF e
      <4> QED
        BY <3>2 DEF BuildRegionSegment
    <3>6. after = View(s.perms, s.user, bytes)
      BY <3>3, <3>4, <3>5
    <3>7. CASE ~InChunk(r, q)
      BY <2>1, <3>2, <3>6, <3>7 DEF PieceFits
    <3>8. CASE InChunk(r, q) /\ op.kind = "protect"
      <4>1. after = View(op.arg, r.user, bytes)
        BY <3>2, <3>6, <3>8 DEF PieceFits
      <4>2. Altered(op.kind, op.arg, before) = View(op.arg, r.user, bytes)
        BY <2>1, <3>8, AlteredView
      <4> QED
        BY <3>8, <4>1, <4>2
    <3>9. CASE InChunk(r, q) /\ op.kind = "attrs"
      <4>1. after = View(r.perms, op.arg, bytes)
        BY <3>2, <3>6, <3>9 DEF PieceFits
      <4>2. Altered(op.kind, op.arg, before) = View(r.perms, op.arg, bytes)
        BY <2>1, <3>9, AlteredView
      <4> QED
        BY <3>9, <4>1, <4>2
    <3> QED
      BY <1>0, <2>3, <3>7, <3>8, <3>9 DEF RangeKinds
  <2> QED
    BY <2>2, <2>3
<1> QED
  BY <1>3, <1>4, <1>5 DEF Bare

-----------------------------------------------------------------------------
(* The whole call.                                                         *)

\* What page q looks like once the walk in progress has come to page cur.
Reached(q, cur) ==
  IF op.first <= q /\ q < cur THEN Altered(op.kind, op.arg, op.before[q]) ELSE op.before[q]

\* In the middle of a call the pages it has passed are changed, and no others.
WalkInv == op.pc = "walk" => \A q \in Pages : PageView(regions, heap, q) = Reached(q, op.current)

LEMMA WalkProgress ==
  ASSUME TypeOK, InOrder(regions), OwnInv(regions, patches, heap), WalkInv, RangeStep,
         NEW q \in Pages
  PROVE  PageView(regions', heap', q) = Reached(q, ChunkEnd(regions[WalkRegion]))
<1> DEFINE r == regions[WalkRegion]
           c == ChunkEnd(r)
           view == PageView(regions, heap, q)
           after == PageView(regions', heap', q)
<1>0. /\ r \in Region /\ op.pc = "walk" /\ r.base <= op.current /\ op.current < RegionEnd(r)
      /\ op.current < op.end
  BY WalkRegionFacts
<1>1. /\ q \in Nat /\ op.first \in Nat /\ op.current \in Nat /\ op.first <= op.current
      /\ c \in Nat /\ op.current < c
  <2>1. ChunkEnd(r) \in Pages /\ op.current < ChunkEnd(r)
    BY <1>0, SegmentsType
  <2> QED
    BY <1>0, <2>1, SizesAssumption DEF TypeOK, Pages
<1>2. view = Reached(q, op.current)
  BY <1>0 DEF WalkInv
<1>3. after = IF InChunk(r, q) THEN Altered(op.kind, op.arg, view) ELSE view
  BY <1>1, ViewAfterStep
<1>4. InChunk(r, q) <=> op.current <= q /\ q < c
  BY DEF InChunk
<1> HIDE DEF view, after, r, c
<1>5. after = Reached(q, c)
  <2>1. CASE op.current <= q /\ q < c
    <3>1. view = op.before[q]
      BY <1>1, <1>2, <2>1 DEF Reached
    <3> QED
      BY <1>1, <1>3, <1>4, <2>1, <3>1 DEF Reached
  <2>2. CASE ~(op.current <= q /\ q < c)
    <3>1. after = Reached(q, op.current)
      BY <1>2, <1>3, <1>4, <2>2
    <3>2. (op.first <= q /\ q < op.current) <=> (op.first <= q /\ q < c)
      BY <1>1, <2>2
    <3> QED
      BY <3>1, <3>2 DEF Reached
  <2> QED
    BY <2>1, <2>2
<1> QED
  BY <1>5 DEF after, c, r

\* What the step makes of op.
LEMMA StepOp ==
  ASSUME RangeStep
  PROVE  LET c == ChunkEnd(regions[WalkRegion])
         IN  /\ c < op.end => /\ op'.pc = "walk" /\ op'.kind = op.kind /\ op'.first = op.first
                              /\ op'.current = c /\ op'.arg = op.arg /\ op'.before = op.before
             /\ ~(c < op.end) => op' = Idle(TRUE)
<1> DEFINE c == ChunkEnd(regions[WalkRegion])
<1>1. op' = IF c < op.end THEN Walk(op.kind, op.first, c, op.end, op.arg, op.before) ELSE Idle(TRUE)
  BY DEF RangeStep
<1> HIDE DEF c
<1>2. /\ c < op.end => /\ op'.pc = "walk" /\ op'.kind = op.kind /\ op'.first = op.first
                       /\ op'.current = c /\ op'.arg = op.arg /\ op'.before = op.before
      /\ ~(c < op.end) => op' = Idle(TRUE)
  BY <1>1 DEF Walk
<1> QED
  BY <1>2 DEF c

LEMMA WalkInvKept ==
  TypeOK /\ InOrder(regions) /\ OwnInv(regions, patches, heap) /\ WalkInv /\ [Next]_vars => WalkInv'
<1> SUFFICES ASSUME TypeOK, InOrder(regions), OwnInv(regions, patches, heap), WalkInv, [Next]_vars
             PROVE  WalkInv'
  OBVIOUS
<1>1. ASSUME NEW kind, NEW p \in MapPages, NEW n \in MapSizes, NEW arg, BeginRange(kind, p, n, arg)
      PROVE  WalkInv'
  <2>0. p \in Nat
    BY InputsAssumption
  <2>1. regions' = regions /\ heap' = heap
    BY <1>1 DEF BeginRange
  <2>2. op' = Walk(kind, p, p, (p + n) % NPages, arg, [q \in Pages |-> PageView(regions, heap, q)])
    BY <1>1 DEF BeginRange
  <2>3. /\ op'.first = p /\ op'.current = p
        /\ op'.before = [q \in Pages |-> PageView(regions, heap, q)]
    BY <2>2 DEF Walk
  <2>4. ASSUME NEW q \in Pages
        PROVE  PageView(regions', heap', q) = Reached(q, op.current)'
    <3>1. q \in Nat
      BY SizesAssumption DEF Pages
    <3>2. ~(p <= q /\ q < p)
      BY <2>0, <3>1
    <3>3. Reached(q, op.current)' = op'.before[q]
      BY <2>3, <3>2 DEF Reached
    <3> QED
      BY <2>1, <2>3, <3>3
  <2> QED
    BY <2>4 DEF WalkInv
<1>2. CASE RangeStep
  <2> DEFINE c == ChunkEnd(regions[WalkRegion])
  <2>1. CASE c < op.end
    <3>1. /\ op'.pc = "walk" /\ op'.kind = op.kind /\ op'.first = op.first
          /\ op'.current = c /\ op'.arg = op.arg /\ op'.before = op.before
      BY <1>2, <2>1, StepOp
    <3>2. ASSUME NEW q \in Pages
          PROVE  PageView(regions', heap', q) = Reached(q, op.current)'
      <4>1. PageView(regions', heap', q) = Reached(q, c)
        BY <1>2, WalkProgress
      <4> HIDE DEF c
      <4>2. Reached(q, op.current)' = Reached(q, c)
        BY <3>1 DEF Reached
      <4> QED
        BY <4>1, <4>2
    <3> QED
      BY <3>2 DEF WalkInv
  <2>2. CASE ~(c < op.end)
    <3>1. op'.pc = "idle"
      BY <1>2, <2>2, StepOp DEF Idle
    <3> QED
      BY <3>1 DEF WalkInv
  <2> QED
    BY <2>1, <2>2
<1>3. CASE op'.pc # "walk"
  BY <1>3 DEF WalkInv
<1>4. CASE UNCHANGED vars
  <2>1. regions' = regions /\ heap' = heap /\ op' = op
    BY <1>4 DEF vars
  <2> QED
    BY <2>1 DEF WalkInv, Reached
<1>5. CASE op.pc = "idle" /\ op' = op
  BY <1>3, <1>5
<1>6. ASSUME NEW ok, op' = Idle(ok) PROVE WalkInv'
  <2>1. op'.pc # "walk"
    BY <1>6 DEF Idle
  <2> QED
    BY <1>3, <2>1
<1>7. CASE Destroy
  <2>1. op'.pc # "walk"
    BY <1>7 DEF Destroy, Closed
  <2> QED
    BY <1>3, <2>1
<1>8. ASSUME NEW p, NEW n, NEW perms, MapInternal(p, n, perms) PROVE WalkInv'
  BY <1>6, <1>8 DEF MapInternal
<1>9. ASSUME NEW p, NEW n, NEW perms, NEW h, MapHost(p, n, perms, h) PROVE WalkInv'
  BY <1>6, <1>9 DEF MapHost
<1>10. ASSUME NEW perms, SetHostPassthrough(perms) PROVE WalkInv'
  BY <1>5, <1>10 DEF SetHostPassthrough
<1>11. CASE RangeEmpty \/ RangeFail \/ Reopen
  BY <1>6, <1>11 DEF RangeEmpty, RangeFail, Reopen
<1>12. ASSUME NEW a, NEW n, NEW v, AddPatch(a, n, v) PROVE WalkInv'
  BY <1>5, <1>12 DEF AddPatch
<1>13. ASSUME NEW i, DelPatch(i) PROVE WalkInv'
  BY <1>5, <1>13 DEF DelPatch
<1>14. ASSUME NEW p, Access(p) PROVE WalkInv'
  BY <1>5, <1>14 DEF Access
<1>15. ASSUME NEW a, NEW v, WriteByte(a, v) PROVE WalkInv'
  BY <1>5, <1>15 DEF WriteByte
<1>16. CASE Next
  BY <1>1, <1>2, <1>7, <1>8, <1>9, <1>10, <1>11, <1>12, <1>13, <1>14, <1>15, <1>16 DEF Next
<1> QED
  BY <1>4, <1>16

(* A range call: when mm_unmap, mm_protect or mm_set_cpu_attrs returns,    *)
(* with success or after an allocation failed half way, every page of the  *)
(* part it walked has its new state, every other page the state it had     *)
(* before the call, and no byte has moved, however the range cuts the      *)
(* regions.  A call on a range that ends at the top of the address space   *)
(* answers true, and every page is what it was.                            *)
THEOREM RangeCallsDone == Spec => RangeCallsExact
<1> DEFINE O == InOrder(regions)
           I == OwnInv(regions, patches, heap)
           A == op.pc = "walk" /\ op'.pc = "idle" =>
                  /\ op.end = 0 => op'.ok
                  /\ \A q \in Pages : PageView(regions', heap', q) =
                                      IF op.end = 0 THEN op.before[q] ELSE RangeEffect(q)
<1>1. Init => O /\ I /\ WalkInv
  <2> SUFFICES ASSUME Init PROVE O /\ I /\ WalkInv
    OBVIOUS
  <2>1. Len(regions) = 0 /\ Len(patches) = 0 /\ DOMAIN heap = {Host} /\ op.pc = "idle"
    BY DEF Init, Idle
  <2>2. Blocks(regions) = {} /\ 1..Len(patches) = {}
    BY <2>1 DEF Blocks
  <2> QED
    BY <2>1, <2>2 DEF OwnInv, OneOwner, AllOwned, LongEnough, InOrder, WalkInv
<1>2. TypeOK /\ O /\ [Next]_vars => O'
  BY OrderKept
<1>3. TypeOK /\ I /\ [Next]_vars => I'
  BY OwnedKept
<1>4. TypeOK /\ O /\ I /\ WalkInv /\ [Next]_vars => WalkInv'
  BY WalkInvKept
<1>5. ASSUME TypeOK, O, I, WalkInv, [Next]_vars,
             op.pc = "walk", op'.pc = "idle"
      PROVE  /\ op.end = 0 => op'.ok
             /\ \A q \in Pages : PageView(regions', heap', q) =
                                 IF op.end = 0 THEN op.before[q] ELSE RangeEffect(q)
  <2>0. /\ op.kind \in RangeKinds /\ op.first \in Nat /\ op.current \in Nat /\ op.end \in Nat
        /\ \/ op.first <= op.current /\ op.current < op.end
           \/ op.current = op.first /\ op.end = 0
    BY <1>5, SizesAssumption DEF TypeOK, Pages
  <2>a. \A q \in Pages : q \in Nat
    BY SizesAssumption DEF Pages
  <2>1. CASE RangeStep
    <3> DEFINE c == ChunkEnd(regions[WalkRegion])
    <3>a. op.current < op.end
      BY <2>1 DEF RangeStep
    <3>0. op.end # 0
      BY <2>0, <3>a
    <3>1. op' = Idle(TRUE) /\ ~(c < op.end)
      BY <1>5, <2>1, StepOp
    <3>2. c = op.end
      BY <3>1 DEF ChunkEnd
    <3>3. \A q \in Pages : PageView(regions', heap', q) = Reached(q, op.end)
      BY <1>5, <2>1, <3>2, WalkProgress
    <3>4. op'.ok
      BY <3>1 DEF Idle
    <3> QED
      BY <2>0, <3>0, <3>3, <3>4 DEF Reached, RangeEffect, Altered
  <2>2. CASE RangeFail
    <3>0. op.end # 0
      BY <2>0, <2>2 DEF RangeFail
    <3>1. regions' = regions /\ heap' = heap /\ op' = Idle(FALSE)
      BY <2>2 DEF RangeFail
    <3>2. ~op'.ok
      BY <3>1 DEF Idle
    <3>3. \A q \in Pages : PageView(regions, heap, q) = Reached(q, op.current)
      BY <1>5 DEF WalkInv
    <3>4. \A q \in Pages : PageView(regions', heap', q) = Reached(q, op.current)
      BY <3>1, <3>3
    <3> QED
      BY <2>0, <3>0, <3>2, <3>4 DEF Reached, RangeEffect, Altered
  <2>3. CASE RangeEmpty
    <3>0. op.end = 0 /\ op.current = op.first
      BY <2>0, <2>3 DEF RangeEmpty
    <3>1. regions' = regions /\ heap' = heap /\ op' = Idle(TRUE)
      BY <2>3 DEF RangeEmpty
    <3>2. op'.ok
      BY <3>1 DEF Idle
    <3>3. \A q \in Pages : PageView(regions, heap, q) = Reached(q, op.first)
      BY <1>5, <3>0 DEF WalkInv
    <3>4. \A q \in Pages : Reached(q, op.first) = op.before[q]
      BY <2>0, <2>a DEF Reached
    <3>5. \A q \in Pages : PageView(regions', heap', q) = op.before[q]
      BY <3>1, <3>3, <3>4
    <3> QED
      BY <3>0, <3>2, <3>5
  <2>4. RangeStep \/ RangeFail \/ RangeEmpty \/ UNCHANGED vars
    BY <1>5 DEF Next, MapInternal, MapHost, CanMap, SetHostPassthrough, BeginRange, AddPatch,
                DelPatch, Access, WriteByte, Destroy, Reopen
  <2>5. ~UNCHANGED vars
    BY <1>5 DEF vars
  <2> QED
    BY <2>1, <2>2, <2>3, <2>4, <2>5
<1> HIDE DEF O, I
<1>6. TypeOK /\ O /\ I /\ WalkInv /\ [Next]_vars => A
  BY <1>5
<1> HIDE DEF A
<1>7. Spec => [][A]_vars
  BY <1>1, <1>2, <1>3, <1>4, <1>6, TypeCorrect, PTL DEF Spec
<1> QED
  BY <1>7 DEF RangeCallsExact, A

-----------------------------------------------------------------------------
(* The mapping.                                                            *)

Backing(r, h, q) ==
  LET off == r.data.off + (q - r.base) * PageSize
  IN  IF r.external THEN <<"host", off \div PageSize>>
      ELSE <<"own", [k \in 0..PageSize-1 |-> h[r.data.buf][off + k]]>>

DescOf(r, h, q) == <<"page", r.perms, r.user, Backing(r, h, q)>>

Desc(regs, h, q) ==
  LET i == FindRegionIndex(regs, q) IN IF i = 0 THEN <<"none">> ELSE DescOf(regs[i], h, q)

Table(regs, h)  == [q \in Pages |-> Desc(regs, h, q)]
Overlay(ps, h)  == {<<ps[i].address, h[ps[i].data]>> : i \in DOMAIN ps}

LEMMA TableIs ==
  /\ [p \in Pages |-> PageDescriptor(p)] = Table(regions, heap)
  /\ [p \in Pages |-> PageDescriptor(p)]' = Table(regions', heap')
  BY DEF Table, Desc, DescOf, Backing, PageDescriptor

LEMMA DescOfHolder ==
  ASSUME NEW regs \in Seq(Region), InOrder(regs), NEW q \in Nat, NEW h,
         NEW k \in 1..Len(regs), Holds(regs[k], q)
  PROVE  Desc(regs, h, q) = DescOf(regs[k], h, q)
<1>1. FindRegionIndex(regs, q) = k
  BY OnlyHolder DEF Holds
<1>2. k # 0
  BY LenProperties
<1> QED
  BY <1>1, <1>2 DEF Desc

\* Only the block of an internal region is part of a descriptor.
LEMMA DescKept ==
  ASSUME NEW r, NEW h, NEW g, NEW q, r.external \/ g[r.data.buf] = h[r.data.buf]
  PROVE  DescOf(r, g, q) = DescOf(r, h, q)
<1>1. Backing(r, g, q) = Backing(r, h, q)
  <2>1. CASE r.external
    BY <2>1 DEF Backing
  <2>2. CASE g[r.data.buf] = h[r.data.buf]
    BY <2>2 DEF Backing
  <2> QED
    BY <2>1, <2>2
<1> QED
  BY <1>1 DEF DescOf

LEMMA NoDesc ==
  ASSUME NEW regs \in Seq(Region), NEW q \in Nat, NEW h, Bare(regs, q)
  PROVE  Desc(regs, h, q) = <<"none">>
<1>1. FindRegionIndex(regs, q) = 0
  BY NoHolder DEF Holds, Bare
<1> QED
  BY <1>1 DEF Desc

-----------------------------------------------------------------------------
(* Steps that change a range of descriptors, or nothing.                   *)

\* The pages where two tables differ lie between two of them, all in a..b-1.
Between(t, u, a, b) ==
  LET changed == {q \in Pages : t[q] # u[q]}
  IN  \/ \A q \in Pages : t[q] = u[q]
      \/ \E lo, hi \in changed : /\ changed \subseteq lo..hi
                                 /\ \A q \in lo..hi : q \in Pages /\ a <= q /\ q < b

LEMMA ChangedInterval ==
  ASSUME NEW t, NEW u, NEW a \in Nat, NEW b \in Nat,
         \A q \in Pages : ~(a <= q /\ q < b) => t[q] = u[q]
  PROVE  Between(t, u, a, b)
<1> DEFINE changed == {q \in Pages : t[q] # u[q]}
<1>0. NPages - 1 \in Nat /\ Pages = 0..NPages-1 /\ \A q \in Pages : q \in Nat
  BY SizesAssumption DEF Pages
<1>1. CASE changed = {}
  BY <1>1 DEF Between
<1>2. CASE changed # {}
  <2>1. changed \in SUBSET (0..NPages-1) /\ changed \in SUBSET Nat
    BY <1>0
  <2>2. \A q \in changed : q \in Nat /\ q \in Pages /\ a <= q /\ q < b
    BY <1>0
  <2> HIDE DEF changed
  <2>3. PICK lo \in changed : \A y \in changed : lo <= y
    BY <1>2, <2>1, LeastExists
  <2>4. PICK hi \in changed : \A y \in changed : y <= hi
    <3> DEFINE n == NPages - 1
    <3>1. n \in Nat /\ changed \in SUBSET (0..n)
      BY <1>0, <2>1
    <3> HIDE DEF n
    <3> QED
      BY <1>2, <3>1, GreatestExists
  <2>5. changed \subseteq lo..hi
    BY <2>2, <2>3, <2>4
  <2>6. \A q \in lo..hi : q \in Pages /\ a <= q /\ q < b
    BY <1>0, <2>2, <2>3, <2>4
  <2> QED
    BY <2>5, <2>6 DEF changed, Between
<1> QED
  BY <1>1, <1>2 DEF Between

RangeRelation(t, u, R) ==
  \/ Abstract!MappedOwn(t, u, R)
  \/ Abstract!MappedHost(t, u, R)
  \/ Abstract!Dropped(t, u, R)
  \/ Abstract!Protected(t, u, R)
  \/ Abstract!Attributed(t, u, R)

AbsStep == [Abstract!ASNext]_(Abstract!asVars)

HostKept    == heap'[Host] = heap[Host]
OverlayKept == Overlay(patches', heap') = Overlay(patches, heap)

LEMMA StutterStep ==
  ASSUME HostKept, OverlayKept, passthrough' = passthrough,
         Table(regions', heap') = Table(regions, heap)
  PROVE  AbsStep
  BY TableIs DEF AbsStep, Abstract!asVars, HostKept, OverlayKept, Overlay

LEMMA TableStep ==
  ASSUME HostKept, OverlayKept, passthrough' = passthrough, NEW a \in Nat, NEW b \in Nat,
         \A q \in Pages : ~(a <= q /\ q < b) =>
            Table(regions', heap')[q] = Table(regions, heap)[q],
         \A lo, hi : (\A q \in lo..hi : q \in Pages /\ a <= q /\ q < b) =>
            RangeRelation(Table(regions, heap), Table(regions', heap'), lo..hi)
  PROVE  AbsStep
<1> DEFINE t == Table(regions, heap)
           u == Table(regions', heap')
           changed == {q \in Pages : t[q] # u[q]}
<1>1. \/ \A q \in Pages : t[q] = u[q]
      \/ \E lo, hi \in changed : /\ changed \subseteq lo..hi
                                 /\ \A q \in lo..hi : q \in Pages /\ a <= q /\ q < b
  <2> HIDE DEF t, u
  <2>1. \A q \in Pages : ~(a <= q /\ q < b) => t[q] = u[q]
    BY DEF t, u
  <2>2. Between(t, u, a, b)
    BY <2>1, ChangedInterval
  <2> QED
    BY <2>2 DEF Between
<1>2. CASE \A q \in Pages : t[q] = u[q]
  <2>1. u = t
    BY <1>2 DEF Table
  <2> QED
    BY <2>1, StutterStep
<1>3. ASSUME NEW lo \in changed, NEW hi \in changed, changed \subseteq lo..hi,
             \A q \in lo..hi : q \in Pages /\ a <= q /\ q < b
      PROVE  AbsStep
  <2>1. RangeRelation(t, u, lo..hi)
    BY <1>3
  <2>2. Abstract!RangeChange
    <3>1. Abstract!PageSet = Pages
      BY DEF Abstract!PageSet, Pages
    <3> HIDE DEF t, u
    <3>2. /\ [p \in Pages |-> PageDescriptor(p)] = t
          /\ [p \in Pages |-> PageDescriptor(p)]' = u
      BY TableIs DEF t, u
    <3>3. UNCHANGED <<heap[Host], {<<patches[i].address, heap[patches[i].data]>> : i \in DOMAIN patches}, passthrough>>
      BY DEF HostKept, OverlayKept, Overlay
    <3> QED
      BY <1>3, <2>1, <3>1, <3>2, <3>3 DEF Abstract!RangeChange, RangeRelation
  <2> QED
    BY <2>2 DEF AbsStep, Abstract!ASNext
<1> QED
  BY <1>1, <1>2, <1>3

-----------------------------------------------------------------------------
(* A step of a range walk.                                                 *)

\* A page in a piece has what is behind it in the region it was cut from.
LEMMA PieceBacking ==
  ASSUME NEW r \in Region, NEW s, s.base \in Nat, s.size \in Nat, NEW q \in Nat, PieceHolds(s, q),
         NEW buf, NEW h, NEW g, Carried(r, s, buf, h, g)
  PROVE  Backing(BuildRegionSegment(r, s, buf), g, q) = Backing(r, h, q)
<1> DEFINE t == BuildRegionSegment(r, s, buf)
<1> SUFFICES Backing(t, g, q) = Backing(r, h, q)
  OBVIOUS
<1>1. t.external = r.external /\ t.base = s.base
  BY DEF BuildRegionSegment
<1>2. CASE r.external
  <2> DEFINE rb == r.base
             sb == s.base
             f == r.data.off
             P == PageSize
  <2>1. t.data.off = f + (sb - rb) * P
    BY <1>2 DEF BuildRegionSegment, SegmentOffset
  <2>2. rb \in Nat /\ sb \in Nat /\ f \in Nat /\ P \in Nat
    BY SizesAssumption, RegionNumbers DEF Region, Ptr
  <2> HIDE DEF rb, sb, f, P
  <2>3. (f + (sb - rb) * P) + ((q - sb) * P + 0) = f + (q - rb) * P + 0
    BY <2>2, CopyOffset
  <2> DEFINE x == (sb - rb) * P
             y == (q - sb) * P
             z == (q - rb) * P
  <2>4. x \in Int /\ y \in Int /\ z \in Int
    BY <2>2
  <2>5. (f + x) + (y + 0) = f + z + 0
    BY <2>3
  <2> HIDE DEF x, y, z
  <2>6. (f + x) + y = f + z
    BY <2>2, <2>4, <2>5
  <2>7. t.data.off + (q - t.base) * PageSize = r.data.off + (q - r.base) * PageSize
    BY <1>1, <2>1, <2>6 DEF x, y, z, rb, sb, f, P
  <2> HIDE DEF t
  <2> QED
    BY <1>1, <1>2, <2>7 DEF Backing
<1>3. CASE ~r.external
  <2>1. BytesOf(t, g, q) = BytesOf(r, h, q)
    BY PieceBytes
  <2> HIDE DEF t
  <2>2. Backing(t, g, q) = <<"own", BytesOf(t, g, q)>> /\ Backing(r, h, q) = <<"own", BytesOf(r, h, q)>>
    BY <1>1, <1>3 DEF Backing, BytesOf
  <2> QED
    BY <2>1, <2>2
<1> QED
  BY <1>2, <1>3

Redescribed(kind, arg, d) ==
  CASE kind = "unmap"   -> <<"none">>
    [] kind = "protect" -> <<"page", arg, d[3], d[4]>>
    [] kind = "attrs"   -> <<"page", d[2], arg, d[4]>>

LEMMA DescAfterStep ==
  ASSUME TypeOK, InOrder(regions), OwnInv(regions, patches, heap), RangeStep, NEW q \in Nat
  PROVE  LET r == regions[WalkRegion]
         IN  /\ ~InChunk(r, q) => Desc(regions', heap', q) = Desc(regions, heap, q)
             /\ InChunk(r, q) =>
                  /\ Desc(regions, heap, q) = DescOf(r, heap, q)
                  /\ Desc(regions', heap', q) = Redescribed(op.kind, op.arg, DescOf(r, heap, q))
<1> DEFINE i == WalkRegion
           r == regions[i]
           n == Len(regions)
           before == Desc(regions, heap, q)
           after == Desc(regions', heap', q)
           back == Backing(r, heap, q)
<1>0. i \in 1..n /\ r \in Region /\ op.kind \in RangeKinds
  BY WalkRegionFacts DEF TypeOK
<1>1. regions \in Seq(Region) /\ regions' \in Seq(Region) /\ InOrder(regions')
  <2>1. regions' \in Seq(Region)
    BY RangeStepType DEF TypeOK
  <2> QED
    BY <2>1, StepKeepsOrder DEF TypeOK
<1>2. ASSUME NEW k \in 1..Len(regions'), Holds(regions'[k], q)
      PROVE  after = DescOf(regions'[k], heap', q)
  BY <1>1, <1>2, DescOfHolder
<1>3. CASE Bare(regions, q)
  <2>1. Bare(regions', q) /\ ~InChunk(r, q)
    BY <1>3, HoldersAfterStep
  <2>2. before = <<"none">> /\ after = <<"none">>
    BY <1>1, <1>3, <2>1, NoDesc
  <2> QED
    BY <2>1, <2>2
<1>4. ASSUME NEW o \in 1..n, o # i, Holds(regions[o], q)
      PROVE  after = before /\ ~InChunk(r, q)
  <2> DEFINE w == regions[o]
  <2>1. ~InChunk(r, q) /\ heap'[w.data.buf] = heap[w.data.buf]
    BY <1>4, HoldersAfterStep
  <2>2. PICK k \in 1..Len(regions') : regions'[k] = w
    BY <1>4, HoldersAfterStep
  <2>3. before = DescOf(w, heap, q)
    BY <1>1, <1>4, DescOfHolder
  <2>4. after = DescOf(w, heap', q)
    BY <1>2, <1>4, <2>2
  <2>5. DescOf(w, heap', q) = DescOf(w, heap, q)
    <3> HIDE DEF w
    <3> QED
      BY <2>1 DEF DescOf, Backing
  <2> QED
    BY <2>1, <2>3, <2>4, <2>5
<1>5. CASE Holds(r, q)
  <2>1. before = DescOf(r, heap, q) /\ DescOf(r, heap, q) = <<"page", r.perms, r.user, back>>
    BY <1>0, <1>1, <1>5, DescOfHolder DEF DescOf
  <2>2. CASE op.kind = "unmap" /\ InChunk(r, q)
    <3>1. Bare(regions', q)
      BY <1>5, <2>2, HoldersAfterStep
    <3>2. after = <<"none">>
      BY <1>1, <3>1, NoDesc
    <3> QED
      BY <2>1, <2>2, <3>2 DEF Redescribed
  <2>3. CASE ~(op.kind = "unmap" /\ InChunk(r, q))
    <3>0. PICK k \in 1..Len(regions') : \E s, buf : FromPiece(regions'[k], r, s, buf, q)
      BY <1>5, <2>3, HoldersAfterStep
    <3>1. PICK s, buf : FromPiece(regions'[k], r, s, buf, q)
      BY <3>0
    <3> DEFINE e == regions'[k]
               g == heap'
    <3>2. /\ e = BuildRegionSegment(r, s, buf) /\ Holds(e, q) /\ PieceHolds(s, q)
          /\ PieceFits(r, q, s) /\ s.base \in Nat /\ s.size \in Nat
          /\ Carried(r, s, buf, heap, g)
      BY <3>1 DEF FromPiece
    <3>3. after = <<"page", e.perms, e.user, Backing(e, g, q)>>
      BY <1>2, <3>2 DEF DescOf
    <3>4. Backing(e, g, q) = back
      <4> HIDE DEF e, g, r
      <4> QED
        BY <1>0, <3>2, PieceBacking
    <3>5. e.perms = s.perms /\ e.user = s.user
      <4> HIDE DEF e
      <4> QED
        BY <3>2 DEF BuildRegionSegment
    <3>6. after = <<"page", s.perms, s.user, back>>
      BY <3>3, <3>4, <3>5
    <3> DEFINE d == DescOf(r, heap, q)
    <3>7. d = <<"page", r.perms, r.user, back>> /\ before = d
      BY <2>1
    <3> HIDE DEF after, before, back, r, d
    <3>8. ~InChunk(r, q) => after = before
      BY <3>2, <3>6, <3>7 DEF PieceFits
    <3>9. InChunk(r, q) /\ op.kind = "protect" => after = Redescribed(op.kind, op.arg, d)
      <4>1. InChunk(r, q) /\ op.kind = "protect" => after = <<"page", op.arg, r.user, back>>
        BY <3>2, <3>6 DEF PieceFits
      <4>2. d[3] = r.user /\ d[4] = back
        BY <3>7
      <4> QED
        BY <4>1, <4>2 DEF Redescribed
    <3>10. InChunk(r, q) /\ op.kind = "attrs" => after = Redescribed(op.kind, op.arg, d)
      <4>1. InChunk(r, q) /\ op.kind = "attrs" => after = <<"page", r.perms, op.arg, back>>
        BY <3>2, <3>6 DEF PieceFits
      <4>2. d[2] = r.perms /\ d[4] = back
        BY <3>7
      <4> QED
        BY <4>1, <4>2 DEF Redescribed
    <3>11. InChunk(r, q) => op.kind = "protect" \/ op.kind = "attrs"
      BY <1>0, <2>3 DEF RangeKinds
    <3>12. /\ ~InChunk(r, q) => after = before
           /\ InChunk(r, q) => before = d /\ after = Redescribed(op.kind, op.arg, d)
      BY <3>7, <3>8, <3>9, <3>10, <3>11
    <3> QED
      BY <3>12 DEF after, before, r, d
  <2> QED
    BY <2>2, <2>3
<1> QED
  BY <1>3, <1>4, <1>5 DEF Bare

LEMMA OverlaySame ==
  ASSUME NEW ps \in Seq(Patch), NEW h, NEW g,
         \A i \in 1..Len(ps) : g[ps[i].data] = h[ps[i].data]
  PROVE  Overlay(ps, g) = Overlay(ps, h)
<1>1. DOMAIN ps = 1..Len(ps)
  BY LenProperties
<1> QED
  BY <1>1 DEF Overlay

LEMMA TableSame ==
  ASSUME NEW regs \in Seq(Region), NEW h, NEW g,
         \A o \in 1..Len(regs) : g[regs[o].data.buf] = h[regs[o].data.buf]
  PROVE  Table(regs, g) = Table(regs, h)
<1> SUFFICES ASSUME NEW q \in Pages PROVE Desc(regs, g, q) = Desc(regs, h, q)
  BY DEF Table
<1> DEFINE i == FindRegionIndex(regs, q)
<1>0. q \in Pages /\ i \in 0..Len(regs) /\ Len(regs) \in Nat
  BY RegionIndexType, LenProperties
<1>1. CASE i = 0
  BY <1>1 DEF Desc
<1>2. CASE i # 0
  <2>1. i \in 1..Len(regs)
    BY <1>0, <1>2
  <2>2. g[regs[i].data.buf] = h[regs[i].data.buf]
    BY <2>1
  <2>3. Backing(regs[i], g, q) = Backing(regs[i], h, q)
    BY <2>2 DEF Backing
  <2> QED
    BY <1>2, <2>3 DEF Desc, DescOf
<1> QED
  BY <1>1, <1>2

LEMMA StepRefines ==
  ASSUME TypeOK, InOrder(regions), OwnInv(regions, patches, heap), RangeStep
  PROVE  AbsStep
<1> DEFINE i == WalkRegion
           r == regions[i]
           a == op.current
           b == ChunkEnd(r)
           t == Table(regions, heap)
           u == Table(regions', heap')
<1>0. /\ i \in 1..Len(regions) /\ r \in Region /\ op.kind \in RangeKinds /\ op.pc = "walk"
      /\ op.kind = "protect" => op.arg \in SUBSET Rights
      /\ op.kind = "attrs" => op.arg \in BOOLEAN
  BY WalkRegionFacts DEF TypeOK
<1>1. a \in Nat /\ b \in Nat /\ \A q \in Pages : q \in Nat
  <2>1. ChunkEnd(r) \in Pages
    BY WalkRegionFacts, SegmentsType
  <2> QED
    BY <1>0, <2>1, SizesAssumption DEF TypeOK, Pages
<1>2. \A c \in DOMAIN heap : (r.external \/ c # r.data.buf) => heap'[c] = heap[c]
  BY StepFacts
<1>3. HostKept
  <2>1. Host \in DOMAIN heap /\ (r.external \/ Host # r.data.buf)
    BY <1>0 DEF TypeOK, Region
  <2> QED
    BY <1>2, <2>1 DEF HostKept
<1>4. OverlayKept
  <2>1. patches' = patches /\ patches \in Seq(Patch)
    BY DEF RangeStep, UnchangedPatches, TypeOK
  <2>2. ASSUME NEW k \in 1..Len(patches) PROVE heap'[patches[k].data] = heap[patches[k].data]
    <3>1. patches[k].data \in DOMAIN heap
      BY DEF OwnInv, AllOwned
    <3>2. ~r.external => i \in Blocks(regions)
      BY <1>0 DEF Blocks
    <3>3. ~r.external => patches[k].data # r.data.buf
      BY <3>2 DEF OwnInv, OneOwner
    <3> QED
      BY <1>2, <3>1, <3>3
  <2>3. Overlay(patches, heap') = Overlay(patches, heap)
    BY <2>1, <2>2, OverlaySame
  <2> QED
    BY <2>1, <2>3 DEF OverlayKept
<1>5. passthrough' = passthrough
  BY DEF RangeStep
<1>6. \A q \in Pages : t[q] = Desc(regions, heap, q) /\ u[q] = Desc(regions', heap', q)
  BY DEF Table
<1>7. ASSUME NEW q \in Pages, ~(a <= q /\ q < b) PROVE u[q] = t[q]
  <2>1. q \in Nat /\ ~InChunk(r, q)
    BY <1>1, <1>7 DEF InChunk
  <2>2. Desc(regions', heap', q) = Desc(regions, heap, q)
    BY <2>1, DescAfterStep
  <2> QED
    BY <1>6, <2>2
<1>8. ASSUME NEW lo, NEW hi, \A q \in lo..hi : q \in Pages /\ a <= q /\ q < b
      PROVE  RangeRelation(t, u, lo..hi)
  <2> DEFINE back(q) == Backing(r, heap, q)
  <2>1. ASSUME NEW q \in lo..hi
        PROVE  /\ t[q] = <<"page", r.perms, r.user, back(q)>>
               /\ u[q] = Redescribed(op.kind, op.arg, <<"page", r.perms, r.user, back(q)>>)
    <3>1. q \in Pages /\ q \in Nat /\ InChunk(r, q)
      BY <1>1, <1>8 DEF InChunk
    <3>2. DescOf(r, heap, q) = <<"page", r.perms, r.user, back(q)>>
      BY DEF DescOf
    <3>3. /\ Desc(regions, heap, q) = DescOf(r, heap, q)
          /\ Desc(regions', heap', q) = Redescribed(op.kind, op.arg, DescOf(r, heap, q))
      BY <3>1, DescAfterStep
    <3> QED
      BY <1>6, <3>1, <3>2, <3>3
  <2> HIDE DEF t, u, r, back
  <2>2. CASE op.kind = "unmap"
    <3>1. \A q \in lo..hi : t[q] # <<"none">> /\ u[q] = <<"none">>
      <4>1. ASSUME NEW q \in lo..hi PROVE t[q] # <<"none">> /\ u[q] = <<"none">>
        <5>1. t[q] = <<"page", r.perms, r.user, back(q)>> /\ u[q] = <<"none">>
          BY <2>1, <2>2 DEF Redescribed
        <5> QED
          BY <5>1
      <4> QED
        BY <4>1
    <3> QED
      BY <3>1 DEF RangeRelation, Abstract!Dropped, Abstract!NoPage
  <2>3. CASE op.kind = "protect"
    <3>1. \A q \in lo..hi : t[q] # <<"none">> /\ u[q] = <<"page", op.arg, t[q][3], t[q][4]>>
      <4>1. ASSUME NEW q \in lo..hi
            PROVE  t[q] # <<"none">> /\ u[q] = <<"page", op.arg, t[q][3], t[q][4]>>
        <5>1. /\ t[q] = <<"page", r.perms, r.user, back(q)>>
              /\ u[q] = <<"page", op.arg, r.user, back(q)>>
          BY <2>1, <2>3 DEF Redescribed
        <5> QED
          BY <5>1
      <4> QED
        BY <4>1
    <3>2. Abstract!Protected(t, u, lo..hi)
      BY <1>0, <2>3, <3>1 DEF Abstract!Protected, Abstract!NoPage, Abstract!Described,
         Abstract!Rights, Rights
    <3> QED
      BY <3>2 DEF RangeRelation
  <2>4. CASE op.kind = "attrs"
    <3>1. \A q \in lo..hi : t[q] # <<"none">> /\ u[q] = <<"page", t[q][2], op.arg, t[q][4]>>
      <4>1. ASSUME NEW q \in lo..hi
            PROVE  t[q] # <<"none">> /\ u[q] = <<"page", t[q][2], op.arg, t[q][4]>>
        <5>1. /\ t[q] = <<"page", r.perms, r.user, back(q)>>
              /\ u[q] = <<"page", r.perms, op.arg, back(q)>>
          BY <2>1, <2>4 DEF Redescribed
        <5> QED
          BY <5>1
      <4> QED
        BY <4>1
    <3>2. Abstract!Attributed(t, u, lo..hi)
      BY <1>0, <2>4, <3>1 DEF Abstract!Attributed, Abstract!NoPage, Abstract!Described
    <3> QED
      BY <3>2 DEF RangeRelation
  <2> QED
    BY <1>0, <2>2, <2>3, <2>4 DEF RangeKinds
<1> HIDE DEF a, b
<1> QED
  BY <1>1, <1>3, <1>4, <1>5, <1>7, <1>8, TableStep

-----------------------------------------------------------------------------
(* Calls that leave the regions and the blocks alone, and teardown.        *)

LEMMA QuietStep ==
  ASSUME UNCHANGED <<regions, patches, heap, passthrough>>
  PROVE  AbsStep
<1>1. HostKept /\ OverlayKept /\ passthrough' = passthrough
  BY DEF HostKept, OverlayKept
<1>2. Table(regions', heap') = Table(regions, heap)
  OBVIOUS
<1> QED
  BY <1>1, <1>2, StutterStep

LEMMA LendRefines ==
  ASSUME NEW perms \in PassChoices, SetHostPassthrough(perms)
  PROVE  AbsStep
<1>1. regions' = regions /\ patches' = patches /\ heap' = heap /\ passthrough' = perms
  BY DEF SetHostPassthrough, UnchangedPatches
<1>2. perms \subseteq Abstract!Rights
  BY InputsAssumption DEF Abstract!Rights, Rights
<1>3. Table(regions', heap') = Table(regions, heap)
  BY <1>1
<1>4. Abstract!Lend(passthrough')
  BY <1>1, <1>2, <1>3, TableIs DEF Abstract!Lend
<1> QED
  BY <1>4 DEF AbsStep, Abstract!ASNext

LEMMA EmptyTable ==
  ASSUME NEW h
  PROVE  Table(<<>>, h) = [q \in Abstract!PageSet |-> Abstract!NoPage] /\ Overlay(<<>>, h) = {}
<1>1. <<>> \in Seq(Region) /\ Len(<<>>) = 0 /\ DOMAIN <<>> = {}
  OBVIOUS
<1>2. ASSUME NEW q \in Pages PROVE Desc(<<>>, h, q) = <<"none">>
  <2> DEFINE regs == <<>>
  <2>1. regs \in Seq(Region) /\ q \in Nat /\ Bare(regs, q)
    BY <1>1, SizesAssumption DEF Bare, Pages
  <2> HIDE DEF regs
  <2>2. Desc(regs, h, q) = <<"none">>
    BY <2>1, NoDesc
  <2> QED
    BY <2>2 DEF regs
<1>3. Abstract!PageSet = Pages
  BY DEF Abstract!PageSet, Pages
<1> QED
  BY <1>1, <1>2, <1>3 DEF Table, Overlay, Abstract!NoPage

LEMMA ForgetRefines ==
  ASSUME TypeOK, Destroy
  PROVE  AbsStep
<1>1. regions' = <<>> /\ patches' = <<>> /\ passthrough' = {}
  BY DEF Destroy
<1>2. heap'[Host] = heap[Host]
  <2>1. \A i \in DOMAIN regions : ~regions[i].external => regions[i].data.buf # Host
    BY LenProperties, ElementOfSeq DEF TypeOK, Region
  <2>2. \A i \in DOMAIN patches : patches[i].data # Host
    BY LenProperties, ElementOfSeq, InputsAssumption DEF TypeOK, Patch
  <2> DEFINE gone == {regions[i].data.buf : i \in {k \in DOMAIN regions : ~regions[k].external}}
                     \cup {patches[i].data : i \in DOMAIN patches}
  <2>3. heap' = [b \in DOMAIN heap \ gone |-> heap[b]]
    BY DEF Destroy
  <2>4. Host \in DOMAIN heap \ gone
    BY <2>1, <2>2 DEF TypeOK
  <2> HIDE DEF gone
  <2> QED
    BY <2>3, <2>4
<1>3. Table(regions', heap') = [q \in Abstract!PageSet |-> Abstract!NoPage] /\ Overlay(patches', heap') = {}
  BY <1>1, EmptyTable
<1>4. Abstract!Forget
  <2>1. [p \in Pages |-> PageDescriptor(p)]' = [q \in Abstract!PageSet |-> Abstract!NoPage]
    BY <1>3, TableIs
  <2>2. {<<patches[i].address, heap[patches[i].data]>> : i \in DOMAIN patches}' = {}
    BY <1>3 DEF Overlay
  <2> QED
    BY <1>1, <1>2, <2>1, <2>2 DEF Abstract!Forget
<1> QED
  BY <1>4 DEF AbsStep, Abstract!ASNext

LEMMA InitRefines == Init => Abstract!ASInit
<1> SUFFICES ASSUME Init PROVE Abstract!ASInit
  OBVIOUS
<1>1. regions = <<>> /\ patches = <<>> /\ passthrough = {}
  BY DEF Init
<1>2. heap[Host] = [i \in 0..NPages*PageSize-1 |-> 0]
  BY DEF Init
<1>3. Table(regions, heap) = [q \in Abstract!PageSet |-> Abstract!NoPage] /\ Overlay(patches, heap) = {}
  BY <1>1, EmptyTable
<1>4. [p \in Pages |-> PageDescriptor(p)] = [q \in Abstract!PageSet |-> Abstract!NoPage]
  BY <1>3, TableIs
<1>5. {<<patches[i].address, heap[patches[i].data]>> : i \in DOMAIN patches} = {}
  BY <1>3 DEF Overlay
<1> QED
  BY <1>1, <1>2, <1>4, <1>5 DEF Abstract!ASInit, Abstract!AddrSet

-----------------------------------------------------------------------------
(* mm_map_internal and mm_map_host.                                        *)

\* Array c is s with the region r inserted at position i.
Added(c, s, r, i) ==
  /\ i \in 1..Len(c) /\ c[i] = r
  /\ \A k \in 1..Len(c) : k = i \/ \E o \in 1..Len(s) : c[k] = s[o]
  /\ \A o \in 1..Len(s) : \E k \in 1..Len(c) : k # i /\ c[k] = s[o]

\* Where the entries of Splice(s, i, j, t) come from and where those of s and t go.
SplicedFrom(c, s, t, i, j) ==
  /\ \A k \in 1..Len(c) :
       \/ \E q \in 1..Len(t) : k = i - 1 + q /\ c[k] = t[q]
       \/ \E o \in 1..Len(s) : /\ o < i \/ j <= o
                               /\ k = NewPos(i, j, Len(t), o) /\ c[k] = s[o]
  /\ \A q \in 1..Len(t) : i - 1 + q \in 1..Len(c) /\ c[i - 1 + q] = t[q]
  /\ \A o \in 1..Len(s) : o < i \/ j <= o =>
       NewPos(i, j, Len(t), o) \in 1..Len(c) /\ c[NewPos(i, j, Len(t), o)] = s[o]

LEMMA SpliceParts ==
  ASSUME NEW S, NEW s \in Seq(S), NEW t \in Seq(S),
         NEW i \in 1..Len(s)+1, NEW j \in i..Len(s)+1
  PROVE  SplicedFrom(Splice(s, i, j, t), s, t, i, j)
BY SplicePositions DEF SplicedFrom

LEMMA SpliceAdds ==
  ASSUME NEW s \in Seq(Region), NEW r, NEW t \in Seq(Region), Len(t) = 1, t[1] = r,
         NEW i \in 1..Len(s)+1, NEW j \in i..Len(s)+1, j = i
  PROVE  Added(Splice(s, i, j, t), s, r, i)
<1> DEFINE c == Splice(s, i, j, t)
<1>0. Len(s) \in Nat
  BY LenProperties
<1>1. /\ \A k \in 1..Len(c) :
           \/ \E q \in 1..Len(t) : k = i - 1 + q /\ c[k] = t[q]
           \/ \E o \in 1..Len(s) : /\ o < i \/ j <= o
                                   /\ k = NewPos(i, j, Len(t), o) /\ c[k] = s[o]
      /\ \A q \in 1..Len(t) : i - 1 + q \in 1..Len(c) /\ c[i - 1 + q] = t[q]
      /\ \A o \in 1..Len(s) : o < i \/ j <= o =>
           NewPos(i, j, Len(t), o) \in 1..Len(c) /\ c[NewPos(i, j, Len(t), o)] = s[o]
  <2>1. SplicedFrom(Splice(s, i, j, t), s, t, i, j)
    BY ONLY s \in Seq(Region), t \in Seq(Region), i \in 1..Len(s)+1, j \in i..Len(s)+1, SpliceParts
  <2> QED
    BY <2>1 DEF SplicedFrom
<1> HIDE DEF c
<1>2. i \in 1..Len(c) /\ c[i] = r
  BY <1>0, <1>1
<1>3. \A k \in 1..Len(c) : k = i \/ \E o \in 1..Len(s) : c[k] = s[o]
  BY <1>0, <1>1
<1>4. ASSUME NEW o \in 1..Len(s) PROVE \E k \in 1..Len(c) : k # i /\ c[k] = s[o]
  <2>1. o < i \/ j <= o
    BY <1>0
  <2>2. NewPos(i, j, Len(t), o) \in 1..Len(c) /\ c[NewPos(i, j, Len(t), o)] = s[o]
    BY <1>1, <2>1
  <2>3. NewPos(i, j, Len(t), o) # i
    BY <1>0 DEF NewPos
  <2> QED
    BY <2>2, <2>3
<1> QED
  BY <1>2, <1>3, <1>4 DEF c, Added

LEMMA InsertAdds ==
  ASSUME TypeOK, NEW r \in Region, InsertRegion(r)
  PROVE  \E i : Added(regions', regions, r, i)
<1> DEFINE i == FindInsertionIndex(regions, r.base)
           j == i
           t == <<r>>
<1>0. regions \in Seq(Region) /\ Len(regions) \in Nat /\ r.base \in Pages
  BY LenProperties DEF TypeOK, Region
<1>1. i \in 1..Len(regions)+1
  BY <1>0, InsertionIndexType
<1>2. regions' = Splice(regions, i, j, t)
  BY DEF InsertRegion, Splice
<1>3. j = i /\ t \in Seq(Region) /\ Len(t) = 1 /\ t[1] = r
  OBVIOUS
<1> HIDE DEF i, j, t
<1>4. j \in i..Len(regions)+1
  BY <1>0, <1>1, <1>3
<1>5. Added(Splice(regions, i, j, t), regions, r, i)
  BY <1>0, <1>1, <1>3, <1>4, SpliceAdds
<1> QED
  BY <1>2, <1>5

\* The blocks that were there stay as they are.
BlocksKept == \A b \in DOMAIN heap : heap'[b] = heap[b]

LEMMA KeptFacts ==
  ASSUME TypeOK, OwnInv(regions, patches, heap), BlocksKept
  PROVE  /\ HostKept
         /\ patches' = patches => OverlayKept
         /\ \A o \in 1..Len(regions) : heap'[regions[o].data.buf] = heap[regions[o].data.buf]
<1>1. HostKept
  BY DEF TypeOK, BlocksKept, HostKept
<1>2. \A k \in 1..Len(patches) : heap'[patches[k].data] = heap[patches[k].data]
  BY DEF OwnInv, AllOwned, BlocksKept
<1>3. patches' = patches => OverlayKept
  <2>1. Overlay(patches, heap') = Overlay(patches, heap)
    BY <1>2, OverlaySame DEF TypeOK
  <2> QED
    BY <2>1 DEF OverlayKept
<1>4. ASSUME NEW o \in 1..Len(regions)
      PROVE  heap'[regions[o].data.buf] = heap[regions[o].data.buf]
  <2>1. regions[o] \in Region
    BY ElementOfSeq DEF TypeOK
  <2>2. CASE regions[o].external
    BY <1>1, <2>1, <2>2 DEF Region, HostKept
  <2>3. CASE ~regions[o].external
    <3>1. o \in Blocks(regions)
      BY <2>3 DEF Blocks
    <3>2. regions[o].data.buf \in DOMAIN heap
      BY <3>1 DEF OwnInv, AllOwned
    <3> QED
      BY <3>2 DEF BlocksKept
  <2> QED
    BY <2>2, <2>3
<1> QED
  BY <1>1, <1>3, <1>4

LEMMA DescAfterInsert ==
  ASSUME TypeOK, InOrder(regions), OwnInv(regions, patches, heap), NEW r \in Region,
         ~HasOverlap(regions, r.base, r.size), InsertRegion(r), BlocksKept, NEW q \in Nat
  PROVE  /\ ~Holds(r, q) => Desc(regions', heap', q) = Desc(regions, heap, q)
         /\ Holds(r, q) => /\ Desc(regions, heap, q) = <<"none">>
                           /\ Desc(regions', heap', q) = DescOf(r, heap', q)
<1>0. /\ regions \in Seq(Region) /\ regions' \in Seq(Region) /\ InOrder(regions')
      /\ \A o \in 1..Len(regions) : heap'[regions[o].data.buf] = heap[regions[o].data.buf]
  BY InsertType, InsertKeepsOrder, KeptFacts DEF TypeOK
<1>1. PICK i : Added(regions', regions, r, i)
  BY InsertAdds
<1>2. i \in 1..Len(regions') /\ regions'[i] = r
  BY <1>1 DEF Added
<1>3. CASE Holds(r, q)
  <2>1. Desc(regions', heap', q) = DescOf(r, heap', q)
    BY <1>0, <1>2, <1>3, DescOfHolder
  <2>2. ASSUME NEW o \in 1..Len(regions), Holds(regions[o], q) PROVE FALSE
    <3>1. PICK k \in 1..Len(regions') : k # i /\ regions'[k] = regions[o]
      BY <1>1 DEF Added
    <3>2. Holds(regions'[k], q) /\ Holds(regions'[i], q)
      BY <1>2, <1>3, <2>2, <3>1
    <3>3. k = i
      BY <1>0, <1>2, <3>2, OnlyHolder DEF Holds
    <3> QED
      BY <3>1, <3>3
  <2>3. Bare(regions, q)
    BY <2>2 DEF Bare
  <2> QED
    BY <1>0, <1>3, <2>1, <2>3, NoDesc
<1>4. CASE ~Holds(r, q)
  <2>1. CASE Bare(regions, q)
    <3>1. Bare(regions', q)
      BY <1>1, <1>2, <1>4, <2>1 DEF Added, Bare
    <3> QED
      BY <1>0, <1>4, <2>1, <3>1, NoDesc
  <2>2. ASSUME NEW o \in 1..Len(regions), Holds(regions[o], q)
        PROVE  Desc(regions', heap', q) = Desc(regions, heap, q)
    <3> DEFINE w == regions[o]
    <3>1. PICK k \in 1..Len(regions') : regions'[k] = w
      BY <1>1 DEF Added
    <3>2. Desc(regions, heap, q) = DescOf(w, heap, q)
      BY <1>0, <2>2, DescOfHolder
    <3>3. Desc(regions', heap', q) = DescOf(w, heap', q)
      BY <1>0, <2>2, <3>1, DescOfHolder
    <3>4. heap'[w.data.buf] = heap[w.data.buf]
      BY <1>0
    <3> HIDE DEF w
    <3>5. DescOf(w, heap', q) = DescOf(w, heap, q)
      BY <3>4 DEF DescOf, Backing
    <3> QED
      BY <3>2, <3>3, <3>5
  <2> QED
    BY <1>4, <2>1, <2>2 DEF Bare
<1> QED
  BY <1>3, <1>4

LEMMA HeldBelowEnd ==
  ASSUME NEW r \in Region, NEW q \in Nat, Holds(r, q)
  PROVE  r.base <= q /\ q < r.base + r.size
<1>1. r.base \in Nat /\ r.size \in Nat /\ NPages \in Nat \ {0}
  BY RegionNumbers, SizesAssumption
<1>2. r.base <= q /\ q < (r.base + r.size) % NPages
  BY DEF Holds, RegionEnd
<1> DEFINE e == r.base + r.size
<1>3. e \in Nat
  BY <1>1
<1> HIDE DEF e
<1>4. e % NPages <= e
  BY <1>1, <1>3
<1>5. e % NPages \in 0..NPages-1
  BY <1>1, <1>3, ModType
<1>6. q < e
  BY <1>2, <1>3, <1>4, <1>5 DEF e
<1> QED
  BY <1>2, <1>6 DEF e

\* The pages of an inserted region were bare, and no other page changes.
LEMMA InsertRefines ==
  ASSUME TypeOK, InOrder(regions), OwnInv(regions, patches, heap), NEW r \in Region,
         ~HasOverlap(regions, r.base, r.size), InsertRegion(r), BlocksKept,
         patches' = patches, passthrough' = passthrough,
         NEW perms \in SUBSET Rights,
         \/ \A q \in Pages : Holds(r, q) =>
              DescOf(r, heap', q) = <<"page", perms, TRUE, <<"own", Abstract!ZeroPage>> >>
         \/ \E d \in -NPages..NPages : \A q \in Pages : Holds(r, q) =>
              DescOf(r, heap', q) = <<"page", perms, TRUE, <<"host", q + d>> >>
  PROVE  AbsStep
<1> DEFINE a == r.base
           b == RegionEnd(r)
           t == Table(regions, heap)
           u == Table(regions', heap')
<1>1. a \in Nat /\ b \in Nat /\ \A q \in Pages : q \in Nat
  BY RegionNumbers, SizesAssumption DEF Pages
<1>2. HostKept /\ OverlayKept
  BY KeptFacts
<1>3. \A q \in Pages : t[q] = Desc(regions, heap, q) /\ u[q] = Desc(regions', heap', q)
  BY DEF Table
<1>4. ASSUME NEW q \in Pages, ~(a <= q /\ q < b) PROVE u[q] = t[q]
  <2>1. q \in Nat /\ ~Holds(r, q)
    BY <1>1, <1>4 DEF Holds
  <2>2. Desc(regions', heap', q) = Desc(regions, heap, q)
    BY <2>1, DescAfterInsert
  <2> QED
    BY <1>3, <2>2
<1>5. ASSUME NEW lo, NEW hi, \A q \in lo..hi : q \in Pages /\ a <= q /\ q < b
      PROVE  RangeRelation(t, u, lo..hi)
  <2>1. ASSUME NEW q \in lo..hi
        PROVE  q \in Pages /\ Holds(r, q) /\ t[q] = <<"none">> /\ u[q] = DescOf(r, heap', q)
    <3>1. q \in Pages /\ q \in Nat /\ Holds(r, q)
      BY <1>1, <1>5 DEF Holds
    <3>2. Desc(regions, heap, q) = <<"none">> /\ Desc(regions', heap', q) = DescOf(r, heap', q)
      BY <3>1, DescAfterInsert
    <3> QED
      BY <1>3, <3>1, <3>2
  <2>2. perms \in SUBSET Abstract!Rights
    BY DEF Rights, Abstract!Rights
  <2> HIDE DEF t, u
  <2>3. CASE \A q \in Pages : Holds(r, q) =>
               DescOf(r, heap', q) = <<"page", perms, TRUE, <<"own", Abstract!ZeroPage>> >>
    <3>1. \A q \in lo..hi : t[q] = <<"none">> /\ u[q] = <<"page", perms, TRUE, <<"own", Abstract!ZeroPage>> >>
      BY <2>1, <2>3
    <3>2. Abstract!MappedOwn(t, u, lo..hi)
      BY <2>2, <3>1 DEF Abstract!MappedOwn, Abstract!NoPage, Abstract!Described, Abstract!OwnBytes
    <3> QED
      BY <3>2 DEF RangeRelation
  <2>4. ASSUME NEW d \in -NPages..NPages,
               \A q \in Pages : Holds(r, q) =>
                 DescOf(r, heap', q) = <<"page", perms, TRUE, <<"host", q + d>> >>
        PROVE  RangeRelation(t, u, lo..hi)
    <3>1. \A q \in lo..hi : t[q] = <<"none">> /\ u[q] = <<"page", perms, TRUE, <<"host", q + d>> >>
      BY <2>1, <2>4
    <3>2. Abstract!MappedHost(t, u, lo..hi)
      BY <2>2, <3>1 DEF Abstract!MappedHost, Abstract!NoPage, Abstract!Described, Abstract!HostPage
    <3> QED
      BY <3>2 DEF RangeRelation
  <2> QED
    BY <2>3, <2>4
<1> HIDE DEF a, b
<1> QED
  BY <1>1, <1>2, <1>4, <1>5, TableStep

LEMMA MapInternalRefines ==
  ASSUME TypeOK, InOrder(regions), OwnInv(regions, patches, heap),
         NEW p \in MapPages, NEW n \in MapSizes, NEW perms \in PermChoices, MapInternal(p, n, perms)
  PROVE  AbsStep
<1>1. PICK buf \in BufIds \ DOMAIN heap :
        /\ heap' = [c \in DOMAIN heap \cup {buf} |->
                      IF c = buf THEN [i \in 0..n*PageSize-1 |-> 0] ELSE heap[c]]
        /\ InsertRegion([base |-> p, size |-> n, data |-> [buf |-> buf, off |-> 0],
                         perms |-> perms, user |-> TRUE, external |-> FALSE])
  BY DEF MapInternal
<1> DEFINE r == [base |-> p, size |-> n, data |-> [buf |-> buf, off |-> 0],
                 perms |-> perms, user |-> TRUE, external |-> FALSE]
<1>2. /\ p \in Pages /\ n \in 1..NPages /\ perms \in SUBSET Rights /\ buf # Host
      /\ p \in Nat /\ n \in Nat /\ PageSize \in Nat \ {0}
  BY <1>1, InputsAssumption, SizesAssumption DEF Pages
<1>3. r \in Region
  BY <1>1, <1>2 DEF Region, Ptr
<1>4. heap'[buf] = [i \in 0..n*PageSize-1 |-> 0] /\ BlocksKept
  BY <1>1 DEF BlocksKept
<1>5. ~HasOverlap(regions, r.base, r.size) /\ InsertRegion(r)
  BY <1>1 DEF MapInternal, CanMap
<1>6. ASSUME NEW q \in Pages, Holds(r, q)
      PROVE  DescOf(r, heap', q) = <<"page", perms, TRUE, <<"own", Abstract!ZeroPage>> >>
  <2>1. q \in Nat
    BY SizesAssumption DEF Pages
  <2>2. p <= q /\ q < p + n
    <3>1. r.base <= q /\ q < r.base + r.size
      <4> HIDE DEF r
      <4> QED
        BY <1>3, <1>6, <2>1, HeldBelowEnd
    <3> QED
      BY <3>1
  <2>3. ASSUME NEW k \in 0..PageSize-1
        PROVE  heap'[buf][(0 + (q - p) * PageSize) + k] = 0
    <3> DEFINE x == (q - p) * PageSize
    <3>1. x + k \in 0..n*PageSize-1
      BY <1>2, <2>1, <2>2, CopyInside
    <3>2. x \in Int /\ k \in Int
      BY <1>2, <2>1
    <3> DEFINE D == 0..n*PageSize-1
    <3> HIDE DEF x, D
    <3>3. (0 + x) + k = x + k
      BY <3>2
    <3>4. heap'[buf] = [i \in D |-> 0] /\ x + k \in D
      BY <1>4, <3>1 DEF D
    <3>5. heap'[buf][(0 + x) + k] = 0
      BY <3>3, <3>4
    <3> QED
      BY <3>5 DEF x
  <2>4. [k \in 0..PageSize-1 |-> heap'[buf][(0 + (q - p) * PageSize) + k]] = Abstract!ZeroPage
    BY <2>3 DEF Abstract!ZeroPage
  <2>5. DescOf(r, heap', q) = <<"page", perms, TRUE,
           <<"own", [k \in 0..PageSize-1 |-> heap'[buf][(0 + (q - p) * PageSize) + k]]>> >>
    BY DEF DescOf, Backing
  <2> QED
    BY <2>4, <2>5
<1>7. patches' = patches /\ passthrough' = passthrough
  BY DEF MapInternal, UnchangedPatches
<1> HIDE DEF r
<1> QED
  BY <1>2, <1>3, <1>4, <1>5, <1>6, <1>7, InsertRefines

LEMMA WholePages ==
  ASSUME NEW x \in Int, NEW P \in Nat \ {0}
  PROVE  (x * P) \div P = x
  OBVIOUS

LEMMA MapHostRefines ==
  ASSUME TypeOK, InOrder(regions), OwnInv(regions, patches, heap),
         NEW p \in MapPages, NEW n \in MapSizes, NEW perms \in PermChoices, NEW h \in HostPtrs,
         MapHost(p, n, perms, h)
  PROVE  AbsStep
<1> DEFINE r == [base |-> p, size |-> n, data |-> [buf |-> Host, off |-> h * PageSize],
                 perms |-> perms, user |-> TRUE, external |-> TRUE]
           d == h - p
<1>2. /\ p \in Pages /\ n \in 1..NPages /\ perms \in SUBSET Rights /\ h \in Pages
      /\ p \in Nat /\ n \in Nat /\ h \in Nat /\ PageSize \in Nat \ {0} /\ NPages \in Nat
  BY InputsAssumption, SizesAssumption DEF Pages
<1>3. r \in Region
  <2>1. h * PageSize \in Nat
    BY <1>2, TimesNat
  <2> QED
    BY <1>2, <2>1 DEF Region, Ptr
<1>4. heap' = heap /\ BlocksKept
  BY DEF MapHost, BlocksKept
<1>5. ~HasOverlap(regions, r.base, r.size) /\ InsertRegion(r)
  BY DEF MapHost, CanMap
<1>6. d \in -NPages..NPages
  BY <1>2 DEF Pages
<1>7. ASSUME NEW q \in Pages, Holds(r, q)
      PROVE  DescOf(r, heap', q) = <<"page", perms, TRUE, <<"host", q + d>> >>
  <2>1. q \in Nat
    BY SizesAssumption DEF Pages
  <2>2. h * PageSize + (q - p) * PageSize = (q + (h - p)) * PageSize
    BY <1>2, <2>1
  <2>3. (h * PageSize + (q - p) * PageSize) \div PageSize = q + d
    <3> DEFINE x == q + (h - p)
    <3>1. x \in Int
      BY <1>2, <2>1
    <3> HIDE DEF x
    <3>2. (x * PageSize) \div PageSize = x
      BY <1>2, <3>1, WholePages
    <3> QED
      BY <2>2, <3>2 DEF x
  <2>4. DescOf(r, heap', q) = <<"page", perms, TRUE, <<"host", (h * PageSize + (q - p) * PageSize) \div PageSize>> >>
    BY DEF DescOf, Backing
  <2> QED
    BY <2>3, <2>4
<1>8. patches' = patches /\ passthrough' = passthrough
  BY DEF MapHost, UnchangedPatches
<1> HIDE DEF r, d
<1> QED
  BY <1>2, <1>3, <1>4, <1>5, <1>6, <1>7, <1>8, InsertRefines

-----------------------------------------------------------------------------
(* mm_add_patch and mm_del_patch.                                          *)

LEMMA OverlayOf ==
  ASSUME NEW ps \in Seq(Patch), NEW h, NEW o
  PROVE  o \in Overlay(ps, h) <=> \E i \in 1..Len(ps) : o = <<ps[i].address, h[ps[i].data]>>
<1>1. DOMAIN ps = 1..Len(ps)
  BY LenProperties
<1> QED
  BY <1>1 DEF Overlay

LEMMA PatchHolds ==
  ASSUME NEW o, NEW x
  PROVE  Abstract!Holds(o, x) <=> x - o[1] \in DOMAIN o[2]
  BY DEF Abstract!Holds

LEMMA AddPatchRefines ==
  ASSUME TypeOK, OwnInv(regions, patches, heap), NEW z \in PatchRanges, NEW v,
         AddPatch(z[1], z[2], v)
  PROVE  AbsStep
<1> DEFINE a == z[1]
           n == z[2]
           m == Len(patches)
           over == Overlay(patches, heap)
<1>1. PICK b \in BufIds \ DOMAIN heap :
        /\ heap' = [c \in DOMAIN heap \cup {b} |-> IF c = b THEN [i \in 0..n-1 |-> v] ELSE heap[c]]
        /\ patches' = Append(patches, [handle |-> next_patch_handle, address |-> a,
                                       size |-> n, data |-> b])
  BY DEF AddPatch
<1> DEFINE bytes == [i \in 0..n-1 |-> v]
           new == <<a, bytes>>
<1>2. heap'[b] = bytes /\ BlocksKept
  BY <1>1 DEF BlocksKept
<1>3. /\ patches \in Seq(Patch) /\ m \in Nat /\ a \in Nat /\ n \in Nat /\ n >= 1
      /\ DOMAIN patches = 1..m
  <2>1. a \in 0..NPages*PageSize-1 /\ n \in 1..NPages*PageSize
    BY InputsAssumption
  <2> QED
    BY <2>1, AddrsType, LenProperties DEF TypeOK
<1>4. patches' \in Seq(Patch)
  BY AddPatchType DEF TypeOK
<1>5. /\ Len(patches') = m + 1 /\ \A i \in 1..m : patches'[i] = patches[i]
      /\ patches'[m+1].address = a /\ patches'[m+1].data = b
  BY <1>1, <1>3, AppendProperties
<1>6. \A i \in 1..m : heap'[patches[i].data] = heap[patches[i].data]
  BY <1>2 DEF OwnInv, AllOwned, BlocksKept
<1>7. \A i \in 1..m : PatchEnd(patches[i]) < a \/ a + n - 1 < patches[i].address
  BY <1>3 DEF AddPatch
<1>8. \A i \in 1..m : /\ patches[i].address \in Nat /\ patches[i].size \in Nat /\ PatchEnd(patches[i]) \in Nat
                      /\ patches[i].address <= PatchEnd(patches[i])
                      /\ DOMAIN heap[patches[i].data] = 0..patches[i].size-1
  BY <1>3, ElementOfSeq, PatchNumbers DEF OwnInv, LongEnough
<1> HIDE DEF a, n, m, bytes, new
<1>9. Overlay(patches', heap') = over \cup {new}
  <2>1. ASSUME NEW o PROVE o \in Overlay(patches', heap') <=> o \in over \/ o = new
    <3>1. o \in over <=> \E i \in 1..m : o = <<patches[i].address, heap[patches[i].data]>>
      BY <1>3, OverlayOf DEF m
    <3>2. o \in Overlay(patches', heap') <=>
            \E i \in 1..m+1 : o = <<patches'[i].address, heap'[patches'[i].data]>>
      BY <1>4, <1>5, OverlayOf
    <3>3. \A i \in 1..m : <<patches'[i].address, heap'[patches'[i].data]>> =
                          <<patches[i].address, heap[patches[i].data]>>
      BY <1>5, <1>6
    <3>4. <<patches'[m+1].address, heap'[patches'[m+1].data]>> = new
      BY <1>2, <1>5 DEF new
    <3>5. \A i : i \in 1..m+1 <=> i \in 1..m \/ i = m + 1
      BY <1>3
    <3> HIDE DEF over
    <3> QED
      BY <3>1, <3>2, <3>3, <3>4, <3>5, Zenon
  <2> HIDE DEF over
  <2> QED
    BY <2>1
<1>10. ASSUME NEW o \in over
       PROVE  o # new /\ \A k \in DOMAIN bytes : ~Abstract!Holds(o, a + k)
  <2>1. PICK i \in 1..m : o = <<patches[i].address, heap[patches[i].data]>>
    BY <1>3, <1>10, OverlayOf DEF m
  <2> DEFINE c == patches[i].address
             s == patches[i].size
             f == heap[patches[i].data]
  <2>2. /\ c \in Nat /\ s \in Nat /\ DOMAIN f = 0..s-1 /\ c <= c + s - 1
        /\ c + s - 1 < a \/ a + n - 1 < c
    BY <1>7, <1>8 DEF PatchEnd
  <2>3. o = <<c, f>>
    BY <2>1
  <2> HIDE DEF c, s, f
  <2>4. c # a
    BY <1>3, <2>2
  <2>5. o[1] = c /\ o[2] = f
    BY <2>3
  <2>6. o # new
    BY <2>3, <2>4 DEF new
  <2>7. DOMAIN bytes = 0..n-1
    BY DEF bytes
  <2>8. \A k \in 0..n-1 : ~((a + k) - c \in 0..s-1)
    BY <1>3, <2>2
  <2>9. \A k \in DOMAIN bytes : ~((a + k) - o[1] \in DOMAIN o[2])
    BY <2>2, <2>5, <2>7, <2>8
  <2> QED
    BY <2>6, <2>9 DEF Abstract!Holds
<1>11. new \notin over
  BY <1>10
<1>12. HostKept /\ passthrough' = passthrough
  BY <1>2, KeptFacts DEF AddPatch
<1>13. Table(regions', heap') = Table(regions, heap)
  <2>1. regions' = regions /\ regions \in Seq(Region)
    BY DEF AddPatch, TypeOK
  <2>2. \A o \in 1..Len(regions) : heap'[regions[o].data.buf] = heap[regions[o].data.buf]
    BY <1>2, KeptFacts
  <2>3. Table(regions, heap') = Table(regions, heap)
    BY <2>1, <2>2, TableSame
  <2> QED
    BY <2>1, <2>3
<1>14. new[1] = a /\ new[2] = bytes
  BY DEF new
<1>15. /\ {<<patches[i].address, heap[patches[i].data]>> : i \in DOMAIN patches} = over
       /\ {<<patches[i].address, heap[patches[i].data]>> : i \in DOMAIN patches}' = over \cup {new}
       /\ [p \in Pages |-> PageDescriptor(p)]' = [p \in Pages |-> PageDescriptor(p)]
       /\ heap'[Host] = heap[Host]
  BY <1>9, <1>12, <1>13, TableIs DEF Overlay, HostKept
<1> HIDE DEF over
<1>16. Abstract!Cover(a, bytes)
  BY <1>10, <1>12, <1>15 DEF Abstract!Cover, new
<1> QED
  BY <1>11, <1>14, <1>15, <1>16 DEF AbsStep, Abstract!ASNext

LEMMA DelPatchRefines ==
  ASSUME TypeOK, OwnInv(regions, patches, heap), PatchInv, NEW x \in DOMAIN patches, DelPatch(x)
  PROVE  AbsStep
<1> DEFINE m == Len(patches)
           entry(ps, h, k) == <<ps[k].address, h[ps[k].data]>>
           gone == entry(patches, heap, x)
           over == Overlay(patches, heap)
           b == patches[x].data
<1>1. patches \in Seq(Patch) /\ m \in Nat /\ DOMAIN patches = 1..m /\ x \in 1..m
  BY LenProperties DEF TypeOK
<1>2. heap' = [c \in DOMAIN heap \ {b} |-> heap[c]]
  BY DEF DelPatch
<1>3. /\ patches' \in Seq(Patch) /\ Len(patches') = m - 1
      /\ \A k \in 1..Len(patches') : patches'[k] = patches[IF k < x THEN k ELSE k + 1]
  <2>1. patches' = SubSeq(patches, 1, x-1) \o SubSeq(patches, x+1, m)
    BY DEF DelPatch
  <2> QED
    BY <1>1, <2>1, RemovedEntries
<1>4. \A c \in DOMAIN heap : c # b => heap'[c] = heap[c]
  BY <1>2
<1>5. ASSUME NEW k \in 1..m, k # x
      PROVE  heap'[patches[k].data] = heap[patches[k].data] /\ patches[k].address # patches[x].address
  <2>1. patches[k].data \in DOMAIN heap /\ patches[k].data # b
    BY <1>1, <1>5 DEF OwnInv, AllOwned, OneOwner
  <2>2. /\ patches[k].address \in Nat /\ PatchEnd(patches[k]) \in Nat
        /\ patches[x].address \in Nat /\ PatchEnd(patches[x]) \in Nat
        /\ patches[k].address <= PatchEnd(patches[k]) /\ patches[x].address <= PatchEnd(patches[x])
    BY <1>1, ElementOfSeq, PatchNumbers
  <2>3. \/ PatchEnd(patches[x]) < patches[k].address
        \/ PatchEnd(patches[k]) < patches[x].address
    BY <1>1, <1>5 DEF PatchInv, PatchesApart
  <2>4. patches[k].address # patches[x].address
    BY <2>2, <2>3
  <2> QED
    BY <1>4, <2>1, <2>4
<1>6. Overlay(patches', heap') = over \ {gone}
  <2>1. ASSUME NEW o PROVE o \in Overlay(patches', heap') <=> o \in over /\ o # gone
    <3>1. o \in over <=> \E k \in 1..m : o = entry(patches, heap, k)
      <4>1. o \in Overlay(patches, heap) <=> \E k \in 1..Len(patches) : o = <<patches[k].address, heap[patches[k].data]>>
        BY <1>1, OverlayOf
      <4> QED
        BY <4>1
    <3>2. o \in Overlay(patches', heap') <=> \E k \in 1..m-1 : o = entry(patches', heap', k)
      <4>1. o \in Overlay(patches', heap') <=>
              \E k \in 1..Len(patches') : o = <<patches'[k].address, heap'[patches'[k].data]>>
        BY <1>3, OverlayOf
      <4> QED
        BY <1>3, <4>1
    <3>3. ASSUME NEW k \in 1..m-1
          PROVE  LET l == IF k < x THEN k ELSE k + 1
                 IN  l \in 1..m /\ l # x /\ entry(patches', heap', k) = entry(patches, heap, l)
      <4> DEFINE l == IF k < x THEN k ELSE k + 1
      <4>1. l \in 1..m /\ l # x
        BY <1>1
      <4>2. patches'[k] = patches[l]
        BY <1>3
      <4> HIDE DEF l
      <4>3. entry(patches', heap', k) = entry(patches, heap, l)
        BY <1>5, <4>1, <4>2
      <4> QED
        BY <4>1, <4>3 DEF l
    <3>4. ASSUME NEW l \in 1..m, l # x
          PROVE  \E k \in 1..m-1 : entry(patches', heap', k) = entry(patches, heap, l)
      <4> DEFINE k == IF l < x THEN l ELSE l - 1
      <4>1. k \in 1..m-1 /\ l = IF k < x THEN k ELSE k + 1
        BY <1>1, <3>4
      <4> HIDE DEF k
      <4> QED
        BY <3>3, <4>1
    <3>5. \A l \in 1..m : l # x => entry(patches, heap, l) # gone
      <4>1. ASSUME NEW l \in 1..m, l # x PROVE entry(patches, heap, l) # gone
        <5>1. patches[l].address # patches[x].address
          BY <1>5, <4>1
        <5> QED
          BY <5>1
      <4> QED
        BY <4>1
    <3> HIDE DEF entry, over, gone, m
    <3>6. o \in Overlay(patches', heap') => o \in over /\ o # gone
      BY <3>1, <3>2, <3>3, <3>5
    <3>7. o \in over /\ o # gone => o \in Overlay(patches', heap')
      BY <3>1, <3>2, <3>4 DEF gone
    <3> QED
      BY <3>6, <3>7
  <2> HIDE DEF over, gone
  <2> QED
    BY <2>1
<1>7. gone \in over
  BY <1>1, OverlayOf
<1>8. HostKept /\ passthrough' = passthrough /\ regions' = regions
  <2>1. b # Host /\ Host \in DOMAIN heap
    BY <1>1, ElementOfSeq, InputsAssumption DEF TypeOK, Patch
  <2> QED
    BY <1>4, <2>1 DEF HostKept, DelPatch
<1>9. ASSUME NEW o \in 1..Len(regions) PROVE heap'[regions[o].data.buf] = heap[regions[o].data.buf]
  <2>1. regions[o] \in Region
    BY ElementOfSeq DEF TypeOK
  <2>2. CASE regions[o].external
    BY <1>8, <2>1, <2>2 DEF Region, HostKept
  <2>3. CASE ~regions[o].external
    <3>1. o \in Blocks(regions)
      BY <2>3 DEF Blocks
    <3>2. regions[o].data.buf \in DOMAIN heap /\ regions[o].data.buf # b
      BY <1>1, <3>1 DEF OwnInv, AllOwned, OneOwner
    <3> QED
      BY <1>4, <3>2
  <2> QED
    BY <2>2, <2>3
<1>10. Table(regions', heap') = Table(regions, heap)
  <2>1. Table(regions, heap') = Table(regions, heap)
    BY <1>9, TableSame DEF TypeOK
  <2> QED
    BY <1>8, <2>1
<1>11. /\ {<<patches[i].address, heap[patches[i].data]>> : i \in DOMAIN patches} = over
       /\ {<<patches[i].address, heap[patches[i].data]>> : i \in DOMAIN patches}' = over \ {gone}
       /\ [p \in Pages |-> PageDescriptor(p)]' = [p \in Pages |-> PageDescriptor(p)]
       /\ heap'[Host] = heap[Host]
  BY <1>6, <1>8, <1>10, TableIs DEF Overlay, HostKept
<1> HIDE DEF over, gone
<1>12. PICK g \in over : g = gone
  BY <1>7
<1>13. Abstract!Uncover(g)
  BY <1>8, <1>11, <1>12 DEF Abstract!Uncover
<1> QED
  BY <1>11, <1>13 DEF AbsStep, Abstract!ASNext

-----------------------------------------------------------------------------
(* mm_write_byte_checked.                                                  *)

\* A store of v at byte a takes table t, host bytes h and overlay o to u, g and w
\* while the host lends the rights ps.
StoreRel(t, u, h, g, o, w, ps, a, v) ==
  LET p == a \div PageSize
      k == a % PageSize
  IN
  /\ IF t[p] = <<"none">> THEN "W" \in ps ELSE "W" \in t[p][2]
  /\ IF ps # {} /\ \E d \in o : a - d[1] \in DOMAIN d[2]
     THEN LET d == CHOOSE c \in o : a - c[1] \in DOMAIN c[2]
          IN  /\ w = (o \ {d}) \cup {<<d[1], [d[2] EXCEPT ![a - d[1]] = v]>>}
              /\ u = t /\ g = h
     ELSE IF t[p] # <<"none">> /\ t[p][4][1] = "own"
     THEN u = [t EXCEPT ![p][4][2][k] = v] /\ g = h /\ w = o
     ELSE /\ g = [h EXCEPT ![IF t[p] = <<"none">> THEN a ELSE t[p][4][2] * PageSize + k] = v]
          /\ u = t /\ w = o

LEMMA StoreIs ==
  ASSUME passthrough' = passthrough, NEW a \in Addrs, NEW v \in Byte,
         StoreRel(Table(regions, heap), Table(regions', heap'), heap[Host], heap'[Host],
                  Overlay(patches, heap), Overlay(patches', heap'), passthrough, a, v)
  PROVE  AbsStep
<1>1. Abstract!Store(a, v)
  <2>1. StoreRel([p \in Pages |-> PageDescriptor(p)], [p \in Pages |-> PageDescriptor(p)]',
                 heap[Host], heap'[Host],
                 {<<patches[i].address, heap[patches[i].data]>> : i \in DOMAIN patches},
                 {<<patches[i].address, heap[patches[i].data]>> : i \in DOMAIN patches}',
                 passthrough, a, v)
    BY TableIs DEF Overlay
  <2> QED
    BY <2>1 DEF StoreRel, Abstract!Store, Abstract!NoPage, Abstract!Holds
<1>2. a \in Abstract!AddrSet
  BY DEF Abstract!AddrSet, Addrs
<1> QED
  BY <1>1, <1>2 DEF AbsStep, Abstract!ASNext

\* Byte k of the page's own bytes becomes v: as AddressSpace writes it, and as a new
\* descriptor.
ByteSet(t, p, k, v) == [t EXCEPT ![p][4][2][k] = v]
OwnPage(perms, user, f) == <<"page", perms, user, <<"own", f>> >>
PageSet(t, p, d) == [t EXCEPT ![p] = d]

LEMMA ExceptTuple ==
  ASSUME NEW t, NEW p \in DOMAIN t, NEW perms, NEW user, NEW f, NEW k, NEW v,
         t[p] = OwnPage(perms, user, f)
  PROVE  ByteSet(t, p, k, v) = PageSet(t, p, OwnPage(perms, user, [f EXCEPT ![k] = v]))
<1>0. t[p] = <<"page", perms, user, <<"own", f>> >>
  BY DEF OwnPage
<1> DEFINE g == [f EXCEPT ![k] = v]
<1>1. [t EXCEPT ![p][4][2][k] = v] =
        [t EXCEPT ![p] = [t[p] EXCEPT ![4] = [t[p][4] EXCEPT ![2] = [t[p][4][2] EXCEPT ![k] = v]]]]
  OBVIOUS
<1>2. t[p][4] = <<"own", f>> /\ t[p][4][2] = f
  BY <1>0
<1>3. [t[p][4] EXCEPT ![2] = [t[p][4][2] EXCEPT ![k] = v]] = <<"own", g>>
  <2>1. \A x : [<<"own", f>> EXCEPT ![2] = x] = <<"own", x>>
    OBVIOUS
  <2> QED
    BY <1>2, <2>1
<1> HIDE DEF g
<1>4. \A x, y : [<<"page", perms, user, x>> EXCEPT ![4] = y] = <<"page", perms, user, y>>
  OBVIOUS
<1>5. [t[p] EXCEPT ![4] = <<"own", g>>] = <<"page", perms, user, <<"own", g>> >>
  BY <1>0, <1>4
<1> QED
  BY <1>1, <1>3, <1>5 DEF g, ByteSet, PageSet, OwnPage

LEMMA PlaceUnique ==
  ASSUME NEW a \in Nat, NEW b \in Nat, NEW P \in Nat \ {0}, NEW x \in 0..P-1, NEW y \in 0..P-1,
         a * P + x = b * P + y
  PROVE  a = b /\ x = y
<1>1. ASSUME NEW c \in Nat, NEW d \in Nat, NEW w \in 0..P-1, NEW z \in 0..P-1, c < d
      PROVE  c * P + w # d * P + z
  <2>1. PICK e \in Nat : d = c + 1 + e
    <3>1. d - c - 1 \in Nat /\ d = c + 1 + (d - c - 1)
      BY <1>1
    <3> QED
      BY <3>1
  <2>2. d * P = c * P + P + e * P
    BY <2>1
  <2>3. e * P >= 0 /\ c * P \in Int /\ e * P \in Int
    OBVIOUS
  <2> QED
    BY <2>2, <2>3
<1>2. a = b
  BY <1>1
<1> QED
  BY <1>2

LEMMA SplitAddress ==
  ASSUME NEW a \in Nat, NEW P \in Nat \ {0}
  PROVE  (a \div P) * P + (a % P) = a /\ a % P \in 0..P-1 /\ a \div P \in Nat
  OBVIOUS

LEMMA QueryIsLookup ==
  ASSUME TypeOK, PageCacheCoherent, NEW p \in Pages
  PROVE  Query(p) = LookupPage(regions, passthrough, p)
<1>1. CacheSlot(p) \in Slots
  BY SlotType
<1> QED
  BY <1>1 DEF Query, CacheHit, PageCacheCoherent

LEMMA HeapSet ==
  ASSUME NEW b \in DOMAIN heap, NEW x, NEW v, heap' = [heap EXCEPT ![b][x] = v]
  PROVE  /\ heap'[b] = [heap[b] EXCEPT ![x] = v]
         /\ \A c \in DOMAIN heap : c # b => heap'[c] = heap[c]
  OBVIOUS

\* Internal regions start at their block, external ones at a page of the host.
AlignedRegion(r) ==
  IF r.external THEN \E z \in Nat : r.data.off = z * PageSize ELSE r.data.off = 0
Aligned == \A i \in 1..Len(regions) : AlignedRegion(regions[i])

\* What a store finds at its page.
LEMMA StoreFinds ==
  ASSUME TypeOK, InOrder(regions), PageCacheCoherent, Aligned, NEW p \in Pages,
         Query(p).valid, "W" \in Query(p).perms
  PROVE  \/ /\ Desc(regions, heap, p) = <<"none">> /\ passthrough # {} /\ "W" \in passthrough
            /\ Query(p).ptr = [buf |-> Host, off |-> p * PageSize]
         \/ \E i \in 1..Len(regions) :
              /\ Holds(regions[i], p) /\ "W" \in regions[i].perms
              /\ Desc(regions, heap, p) = DescOf(regions[i], heap, p)
              /\ Query(p).ptr = [buf |-> regions[i].data.buf,
                                 off |-> regions[i].data.off + (p - regions[i].base) * PageSize]
<1> DEFINE i == FindRegionIndex(regions, p)
           e == LookupPage(regions, passthrough, p)
<1>1. Query(p) = e /\ regions \in Seq(Region)
  BY QueryIsLookup DEF TypeOK
<1>2. CASE i # 0
  <2>1. i \in 1..Len(regions) /\ Holds(regions[i], p)
    <3>1. i \in 0..Len(regions) /\ Len(regions) \in Nat
      BY <1>1, RegionIndexType, LenProperties
    <3>2. Holds(regions[i], p)
      BY <1>1, <1>2, RegionIndexType DEF Holds
    <3> HIDE DEF i
    <3> QED
      BY <1>2, <3>1, <3>2
  <2>2. /\ e.perms = regions[i].perms
        /\ e.ptr = [buf |-> regions[i].data.buf,
                    off |-> regions[i].data.off + (p - regions[i].base) * PageSize]
    BY <1>2 DEF LookupPage
  <2>3. Desc(regions, heap, p) = DescOf(regions[i], heap, p)
    BY <1>2 DEF Desc
  <2> HIDE DEF i, e
  <2> QED
    BY <1>1, <2>1, <2>2, <2>3
<1>3. CASE i = 0
  <2>1. passthrough # {}
    BY <1>1, <1>3 DEF LookupPage, NoEntry
  <2>2. e.perms = passthrough /\ e.ptr = [buf |-> Host, off |-> p * PageSize]
    BY <1>3, <2>1 DEF LookupPage
  <2>3. Desc(regions, heap, p) = <<"none">>
    BY <1>3 DEF Desc
  <2> HIDE DEF i, e
  <2> QED
    BY <1>1, <2>1, <2>2, <2>3
<1> QED
  BY <1>2, <1>3

Writable(t, ps, p) == IF t[p] = <<"none">> THEN "W" \in ps ELSE "W" \in t[p][2]
Patched(o, ps, a)  == ps # {} /\ \E d \in o : a - d[1] \in DOMAIN d[2]

LEMMA StorePatch ==
  ASSUME NEW t, NEW h, NEW o, NEW w, NEW ps, NEW a, NEW v, NEW d \in o,
         Writable(t, ps, a \div PageSize), ps # {},
         \A c \in o : a - c[1] \in DOMAIN c[2] <=> c = d,
         w = (o \ {d}) \cup {<<d[1], [d[2] EXCEPT ![a - d[1]] = v]>>}
  PROVE  StoreRel(t, t, h, h, o, w, ps, a, v)
<1>1. (CHOOSE c \in o : a - c[1] \in DOMAIN c[2]) = d
  OBVIOUS
<1>2. \E c \in o : a - c[1] \in DOMAIN c[2]
  OBVIOUS
<1> QED
  BY <1>1, <1>2 DEF StoreRel, Writable

LEMMA StoreOwn ==
  ASSUME NEW t, NEW u, NEW h, NEW o, NEW ps, NEW a, NEW v,
         NEW p \in DOMAIN t, p = a \div PageSize, Writable(t, ps, p), ~Patched(o, ps, a),
         NEW perms, NEW user, NEW f, t[p] = OwnPage(perms, user, f),
         u = PageSet(t, p, OwnPage(perms, user, [f EXCEPT ![a % PageSize] = v]))
  PROVE  StoreRel(t, u, h, h, o, o, ps, a, v)
<1> DEFINE k == a % PageSize
<1>1. u = ByteSet(t, p, k, v)
  <2>1. u = PageSet(t, p, OwnPage(perms, user, [f EXCEPT ![k] = v]))
    OBVIOUS
  <2> HIDE DEF k
  <2> QED
    BY <2>1, ExceptTuple
<1>2. t[p] # <<"none">> /\ t[p][4][1] = "own"
  BY DEF OwnPage
<1>3. u = [t EXCEPT ![p][4][2][k] = v]
  BY <1>1 DEF ByteSet
<1> HIDE DEF k
<1> QED
  BY <1>2, <1>3 DEF StoreRel, Writable, Patched, k

LEMMA StoreHost ==
  ASSUME NEW t, NEW h, NEW g, NEW o, NEW ps, NEW a, NEW v, NEW p, p = a \div PageSize,
         Writable(t, ps, p), ~Patched(o, ps, a), NEW x, g = [h EXCEPT ![x] = v],
         \/ t[p] = <<"none">> /\ x = a
         \/ \E perms, user, z : /\ t[p] = <<"page", perms, user, <<"host", z>> >>
                                /\ x = z * PageSize + (a % PageSize)
  PROVE  StoreRel(t, t, h, g, o, o, ps, a, v)
<1>1. CASE t[p] = <<"none">> /\ x = a
  BY <1>1 DEF StoreRel, Writable, Patched
<1>2. ASSUME NEW perms, NEW user, NEW z, t[p] = <<"page", perms, user, <<"host", z>> >>,
             x = z * PageSize + (a % PageSize)
      PROVE  StoreRel(t, t, h, g, o, o, ps, a, v)
  <2>1. t[p] # <<"none">> /\ t[p][4][1] # "own" /\ t[p][4][2] = z
    BY <1>2
  <2>2. g = [h EXCEPT ![IF t[p] = <<"none">> THEN a ELSE t[p][4][2] * PageSize + (a % PageSize)] = v]
    BY <1>2, <2>1
  <2> QED
    BY <2>1, <2>2 DEF StoreRel, Writable, Patched
<1> QED
  BY <1>1, <1>2

LEMMA PatchOver ==
  ASSUME NEW q \in Patch, NEW f, DOMAIN f = 0..q.size-1, NEW a \in Nat
  PROVE  a - q.address \in DOMAIN f <=> Covers(q, a)
<1>1. q.address \in Nat /\ q.size \in Nat
  BY PatchNumbers
<1> QED
  BY <1>1 DEF Covers, PatchEnd

LEMMA OnePatch ==
  ASSUME TypeOK, PatchInv, NEW a \in Nat, NEW x \in 1..Len(patches), NEW y \in 1..Len(patches),
         Covers(patches[x], a), Covers(patches[y], a)
  PROVE  x = y
<1>1. /\ patches[x].address \in Nat /\ PatchEnd(patches[x]) \in Nat
      /\ patches[y].address \in Nat /\ PatchEnd(patches[y]) \in Nat
  BY ElementOfSeq, PatchNumbers DEF TypeOK
<1>2. x # y => \/ PatchEnd(patches[x]) < patches[y].address
               \/ PatchEnd(patches[y]) < patches[x].address
  BY DEF PatchInv, PatchesApart
<1> QED
  BY <1>1, <1>2 DEF Covers

LEMMA OverlayHolds ==
  ASSUME TypeOK, OwnInv(regions, patches, heap), NEW a \in Nat, NEW x \in 1..Len(patches)
  PROVE  LET d == <<patches[x].address, heap[patches[x].data]>>
         IN  d \in Overlay(patches, heap) /\ (a - d[1] \in DOMAIN d[2] <=> Covers(patches[x], a))
<1> DEFINE q == patches[x]
           f == heap[patches[x].data]
<1>1. q \in Patch /\ DOMAIN f = 0..q.size-1
  BY ElementOfSeq DEF TypeOK, OwnInv, LongEnough
<1>2. <<q.address, f>> \in Overlay(patches, heap)
  BY OverlayOf DEF TypeOK
<1>3. a - q.address \in DOMAIN f <=> Covers(q, a)
  <2> HIDE DEF q, f
  <2> QED
    BY <1>1, PatchOver
<1> QED
  BY <1>2, <1>3

LEMMA PatchedIs ==
  ASSUME TypeOK, OwnInv(regions, patches, heap), NEW a \in Nat
  PROVE  Patched(Overlay(patches, heap), passthrough, a) <=>
           passthrough # {} /\ \E x \in 1..Len(patches) : Covers(patches[x], a)
<1>1. \A d : d \in Overlay(patches, heap) <=>
               \E x \in 1..Len(patches) : d = <<patches[x].address, heap[patches[x].data]>>
  BY OverlayOf DEF TypeOK
<1>2. ASSUME NEW x \in 1..Len(patches)
      PROVE  LET d == <<patches[x].address, heap[patches[x].data]>>
             IN  d \in Overlay(patches, heap) /\ (a - d[1] \in DOMAIN d[2] <=> Covers(patches[x], a))
  BY OverlayHolds
<1>3. (\E d \in Overlay(patches, heap) : a - d[1] \in DOMAIN d[2]) <=>
        \E x \in 1..Len(patches) : Covers(patches[x], a)
  BY <1>1, <1>2
<1> QED
  BY <1>3 DEF Patched

LEMMA WritePatchRefines ==
  ASSUME TypeOK, OwnInv(regions, patches, heap), PatchInv, NEW a \in Addrs, NEW v \in Byte,
         Writable(Table(regions, heap), passthrough, a \div PageSize), passthrough # {},
         NEW x \in 1..Len(patches), Covers(patches[x], a),
         heap' = [heap EXCEPT ![patches[x].data][a - patches[x].address] = v],
         UNCHANGED <<regions, patches, passthrough>>
  PROVE  AbsStep
<1> DEFINE m == Len(patches)
           entry(h, k) == <<patches[k].address, h[patches[k].data]>>
           d == entry(heap, x)
           b == patches[x].data
           o == Overlay(patches, heap)
           w == Overlay(patches, heap')
           new == <<d[1], [d[2] EXCEPT ![a - d[1]] = v]>>
<1>0. a \in Nat /\ patches \in Seq(Patch) /\ regions \in Seq(Region)
  BY AddrsType DEF Addrs, TypeOK
<1>1. b \in DOMAIN heap /\ b # Host /\ Host \in DOMAIN heap
  BY <1>0, ElementOfSeq, InputsAssumption DEF OwnInv, AllOwned, Patch, TypeOK
<1>2. heap'[b] = [heap[b] EXCEPT ![a - patches[x].address] = v] /\ \A c \in DOMAIN heap : c # b => heap'[c] = heap[c]
  <2> DEFINE y == a - patches[x].address
  <2>1. heap' = [heap EXCEPT ![b][y] = v]
    OBVIOUS
  <2> HIDE DEF b, y
  <2>2. heap'[b] = [heap[b] EXCEPT ![y] = v] /\ \A c \in DOMAIN heap : c # b => heap'[c] = heap[c]
    BY <1>1, <2>1, HeapSet
  <2> QED
    BY <2>2 DEF y
<1>3. ASSUME NEW k \in 1..m, k # x PROVE entry(heap', k) = entry(heap, k) /\ entry(heap, k) # d
  <2>1. patches[k].data \in DOMAIN heap /\ patches[k].data # b
    BY <1>3 DEF OwnInv, AllOwned, OneOwner
  <2>2. patches[k].address # patches[x].address
    <3>1. /\ patches[k].address \in Nat /\ patches[x].address \in Nat
          /\ patches[k].address <= PatchEnd(patches[k]) /\ patches[x].address <= PatchEnd(patches[x])
          /\ PatchEnd(patches[k]) \in Nat /\ PatchEnd(patches[x]) \in Nat
      BY <1>0, ElementOfSeq, PatchNumbers
    <3>2. \/ PatchEnd(patches[k]) < patches[x].address
          \/ PatchEnd(patches[x]) < patches[k].address
      BY <1>3 DEF PatchInv, PatchesApart
    <3> QED
      BY <3>1, <3>2
  <2> QED
    BY <1>2, <2>1, <2>2
<1>4. entry(heap', x) = new
  BY <1>2
<1>5. \A c : /\ c \in o <=> \E k \in 1..m : c = entry(heap, k)
             /\ c \in w <=> \E k \in 1..m : c = entry(heap', k)
  <2>1. ASSUME NEW c PROVE c \in o <=> \E k \in 1..m : c = entry(heap, k)
    BY <1>0, OverlayOf
  <2>2. ASSUME NEW c PROVE c \in w <=> \E k \in 1..m : c = entry(heap', k)
    <3> DEFINE h == heap'
    <3> SUFFICES c \in Overlay(patches, h) <=> \E k \in 1..m : c = entry(h, k)
      OBVIOUS
    <3> HIDE DEF h
    <3> QED
      BY <1>0, OverlayOf
  <2> HIDE DEF entry, m, o, w
  <2> QED
    BY <2>1, <2>2
<1>6. w = (o \ {d}) \cup {new}
  <2>1. ASSUME NEW c PROVE c \in w <=> (c \in o /\ c # d) \/ c = new
    <3> HIDE DEF o, w, new
    <3>1. c \in w => (c \in o /\ c # d) \/ c = new
      BY <1>3, <1>4, <1>5
    <3>2. c = new => c \in w
      BY <1>4, <1>5
    <3>3. c \in o /\ c # d => c \in w
      BY <1>3, <1>5
    <3> QED
      BY <3>1, <3>2, <3>3
  <2> HIDE DEF o, w, d, new
  <2> QED
    BY <2>1
<1>7. d \in o
  BY <1>5
<1>8. ASSUME NEW c \in o PROVE a - c[1] \in DOMAIN c[2] <=> c = d
  <2>1. PICK k \in 1..m : c = entry(heap, k)
    BY <1>5
  <2>2. a - c[1] \in DOMAIN c[2] <=> Covers(patches[k], a)
    <3>1. LET e == entry(heap, k) IN (a - e[1] \in DOMAIN e[2] <=> Covers(patches[k], a))
      BY <1>0, OverlayHolds
    <3> QED
      BY <2>1, <3>1
  <2>3. Covers(patches[k], a) <=> k = x
    BY <1>0, OnePatch
  <2>4. k = x <=> c = d
    BY <1>3, <2>1
  <2> QED
    BY <2>2, <2>3, <2>4
<1>9. Table(regions', heap') = Table(regions, heap) /\ heap'[Host] = heap[Host]
  <2>1. heap'[Host] = heap[Host]
    BY <1>1, <1>2
  <2>2. ASSUME NEW k \in 1..Len(regions) PROVE heap'[regions[k].data.buf] = heap[regions[k].data.buf]
    <3>1. regions[k] \in Region
      BY <1>0, ElementOfSeq
    <3>2. CASE regions[k].external
      BY <2>1, <3>1, <3>2 DEF Region
    <3>3. CASE ~regions[k].external
      <4>1. k \in Blocks(regions)
        BY <3>3 DEF Blocks
      <4>2. regions[k].data.buf \in DOMAIN heap /\ regions[k].data.buf # b
        BY <4>1 DEF OwnInv, AllOwned, OneOwner
      <4> QED
        BY <1>2, <4>2
    <3> QED
      BY <3>2, <3>3
  <2>3. Table(regions, heap') = Table(regions, heap)
    BY <1>0, <2>2, TableSame
  <2> QED
    BY <2>1, <2>3
<1> HIDE DEF o, w, d
<1>10. StoreRel(Table(regions, heap), Table(regions, heap), heap[Host], heap[Host], o, w, passthrough, a, v)
  BY <1>6, <1>7, <1>8, StorePatch
<1>11. StoreRel(Table(regions, heap), Table(regions', heap'), heap[Host], heap'[Host],
                Overlay(patches, heap), Overlay(patches', heap'), passthrough, a, v)
  BY <1>9, <1>10 DEF o, w
<1> QED
  BY <1>11, StoreIs

\* One byte of a block is one byte of one page of its region.
LEMMA ByteOfPage ==
  ASSUME NEW base \in Nat, NEW size \in Nat, NEW P \in Nat \ {0}, NEW H, NEW G, NEW v,
         NEW p \in Nat, base <= p, p < base + size, NEW k \in 0..P-1,
         NEW q \in Nat, base <= q, q < base + size, NEW l \in 0..P-1,
         DOMAIN H = 0..size*P-1, G = [H EXCEPT ![(0 + (p - base) * P) + k] = v]
  PROVE  G[(0 + (q - base) * P) + l] = IF q = p /\ l = k THEN v ELSE H[(0 + (q - base) * P) + l]
<1> DEFINE x == (p - base) * P + k
           y == (q - base) * P + l
           D == 0..size*P-1
<1>1. x \in D /\ y \in D
  BY CopyInside
<1>2. x = y => q = p /\ l = k
  <2> DEFINE c == p - base
             d == q - base
  <2>1. c \in Nat /\ d \in Nat
    OBVIOUS
  <2>2. x = c * P + k /\ y = d * P + l
    OBVIOUS
  <2> HIDE DEF c, d, x, y
  <2>3. x = y => c = d /\ k = l
    BY <2>1, <2>2, PlaceUnique
  <2> QED
    BY <2>3 DEF c, d
<1>3. (0 + (p - base) * P) + k = x /\ (0 + (q - base) * P) + l = y
  OBVIOUS
<1>4. q = p /\ l = k => y = x
  OBVIOUS
<1>5. DOMAIN H = D /\ G = [H EXCEPT ![x] = v]
  BY <1>3
<1> HIDE DEF x, y, D
<1>6. G[y] = IF y = x THEN v ELSE H[y]
  BY <1>1, <1>5
<1> QED
  BY <1>2, <1>3, <1>4, <1>6

\* A store into a block that no patch owns leaves the overlay alone.
LEMMA OverlayAside ==
  ASSUME TypeOK, OwnInv(regions, patches, heap), NEW b,
         \A k \in 1..Len(patches) : patches[k].data # b,
         \A c \in DOMAIN heap : c # b => heap'[c] = heap[c], patches' = patches
  PROVE  Overlay(patches', heap') = Overlay(patches, heap)
<1>1. \A k \in 1..Len(patches) : heap'[patches[k].data] = heap[patches[k].data]
  BY DEF OwnInv, AllOwned
<1>2. Overlay(patches, heap') = Overlay(patches, heap)
  BY <1>1, OverlaySame DEF TypeOK
<1> QED
  BY <1>2

LEMMA WriteHostRefines ==
  ASSUME TypeOK, OwnInv(regions, patches, heap), NEW a \in Addrs, NEW v \in Byte,
         NEW p, p = a \div PageSize, Writable(Table(regions, heap), passthrough, p),
         ~Patched(Overlay(patches, heap), passthrough, a), NEW x,
         \/ Table(regions, heap)[p] = <<"none">> /\ x = a
         \/ \E perms, user, z : /\ Table(regions, heap)[p] = <<"page", perms, user, <<"host", z>> >>
                                /\ x = z * PageSize + (a % PageSize),
         heap' = [heap EXCEPT ![Host][x] = v],
         UNCHANGED <<regions, patches, passthrough>>
  PROVE  AbsStep
<1> DEFINE t == Table(regions, heap)
           o == Overlay(patches, heap)
           h == heap[Host]
           g == heap'[Host]
<1>1. g = [h EXCEPT ![x] = v] /\ \A c \in DOMAIN heap : c # Host => heap'[c] = heap[c]
  BY HeapSet DEF TypeOK
<1>2. Overlay(patches', heap') = o
  <2>1. \A k \in 1..Len(patches) : patches[k] \in Patch
    BY ElementOfSeq DEF TypeOK
  <2>2. \A k \in 1..Len(patches) : patches[k].data # Host
    BY <2>1, InputsAssumption DEF Patch
  <2> QED
    BY <1>1, <2>2, OverlayAside
<1>3. Table(regions', heap') = t
  <2> SUFFICES ASSUME NEW q \in Pages PROVE Desc(regions, heap', q) = Desc(regions, heap, q)
    BY DEF Table
  <2> DEFINE i == FindRegionIndex(regions, q)
             r == regions[i]
  <2>1. CASE i = 0
    BY <2>1 DEF Desc
  <2>2. CASE i # 0
    <3>1. r \in Region /\ i \in 0..Len(regions) /\ Len(regions) \in Nat
      BY <2>2, RegionIndexType, LenProperties DEF TypeOK
    <3>2. ~r.external => heap'[r.data.buf] = heap[r.data.buf]
      <4>1. ~r.external => i \in Blocks(regions)
        <5> HIDE DEF i
        <5> QED
          BY <2>2, <3>1 DEF Blocks
      <4>2. ~r.external => r.data.buf \in DOMAIN heap /\ r.data.buf # Host
        BY <3>1, <4>1 DEF OwnInv, AllOwned, Region
      <4> QED
        BY <1>1, <4>2
    <3>3. Desc(regions, heap', q) = DescOf(r, heap', q) /\ Desc(regions, heap, q) = DescOf(r, heap, q)
      BY <2>2 DEF Desc
    <3>4. r.external \in BOOLEAN
      BY <3>1 DEF Region
    <3> HIDE DEF r
    <3>5. r.external \/ heap'[r.data.buf] = heap[r.data.buf]
      BY <3>2, <3>4
    <3>6. DescOf(r, heap', q) = DescOf(r, heap, q)
      BY <3>5, DescKept
    <3> QED
      BY <3>3, <3>6
  <2> QED
    BY <2>1, <2>2
<1> HIDE DEF t, o, h, g
<1>4. StoreRel(t, t, h, g, o, o, passthrough, a, v)
  <2>1. /\ Writable(t, passthrough, p) /\ ~Patched(o, passthrough, a)
        /\ \/ t[p] = <<"none">> /\ x = a
           \/ \E perms, user, z : /\ t[p] = <<"page", perms, user, <<"host", z>> >>
                                  /\ x = z * PageSize + (a % PageSize)
    BY DEF t, o
  <2> QED
    BY <1>1, <2>1, StoreHost
<1>5. StoreRel(Table(regions, heap), Table(regions', heap'), heap[Host], heap'[Host],
               Overlay(patches, heap), Overlay(patches', heap'), passthrough, a, v)
  BY <1>2, <1>3, <1>4 DEF t, o, h, g
<1> QED
  BY <1>5, StoreIs

LEMMA WriteOwnRefines ==
  ASSUME TypeOK, InOrder(regions), OwnInv(regions, patches, heap), NEW a \in Addrs, NEW v \in Byte,
         NEW p \in Pages, p = a \div PageSize, Writable(Table(regions, heap), passthrough, p),
         ~Patched(Overlay(patches, heap), passthrough, a),
         NEW i \in 1..Len(regions), Holds(regions[i], p), ~regions[i].external,
         regions[i].data.off = 0,
         heap' = [heap EXCEPT ![regions[i].data.buf]
                               [(0 + (p - regions[i].base) * PageSize) + (a % PageSize)] = v],
         UNCHANGED <<regions, patches, passthrough>>
  PROVE  AbsStep
<1> DEFINE t == Table(regions, heap)
           u == Table(regions', heap')
           o == Overlay(patches, heap)
           r == regions[i]
           b == r.data.buf
           k == a % PageSize
           f == BytesOf(r, heap, p)
           x == (0 + (p - r.base) * PageSize) + k
<1>0. /\ a \in Nat /\ regions \in Seq(Region) /\ r \in Region /\ i \in Blocks(regions)
      /\ PageSize \in Nat \ {0} /\ \A q \in Pages : q \in Nat
  <2>1. a \in Nat /\ PageSize \in Nat \ {0} /\ \A q \in Pages : q \in Nat
    BY AddrsType, SizesAssumption DEF Addrs, Pages
  <2>2. regions \in Seq(Region) /\ r \in Region
    BY ElementOfSeq DEF TypeOK
  <2>3. i \in Blocks(regions)
    BY DEF Blocks
  <2> QED
    BY <2>1, <2>2, <2>3
<1>1. k \in 0..PageSize-1
  BY <1>0, SplitAddress
<1>2. b \in DOMAIN heap /\ b # Host /\ Host \in DOMAIN heap /\ DOMAIN heap[b] = 0..r.size*PageSize-1
  BY <1>0 DEF OwnInv, AllOwned, LongEnough, Region, TypeOK
<1>3. heap'[b] = [heap[b] EXCEPT ![x] = v] /\ \A c \in DOMAIN heap : c # b => heap'[c] = heap[c]
  <2>1. heap' = [heap EXCEPT ![b][x] = v]
    OBVIOUS
  <2> HIDE DEF b, x
  <2> QED
    BY <1>2, <2>1, HeapSet
<1>4. heap'[Host] = heap[Host]
  BY <1>2, <1>3
<1>5. Overlay(patches', heap') = o
  <2>1. \A l \in 1..Len(patches) : patches[l].data # b
    BY <1>0 DEF OwnInv, OneOwner
  <2> HIDE DEF b
  <2> QED
    BY <1>3, <2>1, OverlayAside
<1>6. r.base \in Nat /\ r.size \in Nat
  BY <1>0, RegionNumbers
<1>7. ASSUME NEW q \in Pages, Holds(r, q), NEW l \in 0..PageSize-1
      PROVE  BytesOf(r, heap', q)[l] = IF q = p /\ l = k THEN v ELSE BytesOf(r, heap, q)[l]
  <2>1. /\ q \in Nat /\ p \in Nat /\ r.base <= q /\ q < r.base + r.size
        /\ r.base <= p /\ p < r.base + r.size
    BY <1>0, <1>7, HeldBelowEnd
  <2> DEFINE base == r.base
             size == r.size
             H == heap[b]
             G == heap'[b]
             P == PageSize
  <2>2. /\ base \in Nat /\ size \in Nat /\ P \in Nat \ {0} /\ DOMAIN H = 0..size*P-1
        /\ G = [H EXCEPT ![(0 + (p - base) * P) + k] = v]
        /\ q \in Nat /\ p \in Nat /\ base <= q /\ q < base + size
        /\ base <= p /\ p < base + size /\ k \in 0..P-1 /\ l \in 0..P-1
    BY <1>0, <1>1, <1>2, <1>3, <1>6, <2>1
  <2>3. /\ BytesOf(r, heap', q)[l] = G[(0 + (q - base) * P) + l]
        /\ BytesOf(r, heap, q)[l] = H[(0 + (q - base) * P) + l]
    BY <1>0 DEF BytesOf
  <2> HIDE DEF base, size, H, G, P, k, r, b
  <2>4. G[(0 + (q - base) * P) + l] = IF q = p /\ l = k THEN v ELSE H[(0 + (q - base) * P) + l]
    BY ONLY <2>2, ByteOfPage
  <2> QED
    BY <2>3, <2>4
<1>8. ASSUME NEW q \in Pages
      PROVE  u[q] = IF q = p THEN OwnPage(r.perms, r.user, [f EXCEPT ![k] = v]) ELSE t[q]
  <2>1. u[q] = Desc(regions, heap', q) /\ t[q] = Desc(regions, heap, q)
    BY DEF Table
  <2>2. CASE Holds(r, q)
    <3>1. Desc(regions, heap, q) = DescOf(r, heap, q) /\ Desc(regions, heap', q) = DescOf(r, heap', q)
      BY <1>0, <2>2, DescOfHolder
    <3>2. /\ DescOf(r, heap, q) = OwnPage(r.perms, r.user, BytesOf(r, heap, q))
          /\ DescOf(r, heap', q) = OwnPage(r.perms, r.user, BytesOf(r, heap', q))
      BY DEF DescOf, Backing, BytesOf, OwnPage
    <3>3. q = p => BytesOf(r, heap', q) = [f EXCEPT ![k] = v]
      <4> SUFFICES ASSUME q = p PROVE BytesOf(r, heap', p) = [f EXCEPT ![k] = v]
        OBVIOUS
      <4>1. \A l \in 0..PageSize-1 : BytesOf(r, heap', p)[l] = IF l = k THEN v ELSE f[l]
        BY <1>7, <2>2
      <4>2. \E F : f = [l \in 0..PageSize-1 |-> F[l]]
        <5>1. f = [l \in 0..PageSize-1 |-> f[l]]
          BY DEF BytesOf
        <5> QED
          BY <5>1
      <4>3. \E F : BytesOf(r, heap', p) = [l \in 0..PageSize-1 |-> F[l]]
        <5>1. BytesOf(r, heap', p) = [l \in 0..PageSize-1 |-> BytesOf(r, heap', p)[l]]
          BY DEF BytesOf
        <5> QED
          BY <5>1
      <4> HIDE DEF f, k, r
      <4> QED
        BY <4>1, <4>2, <4>3
    <3>4. q # p => BytesOf(r, heap', q) = BytesOf(r, heap, q)
      <4> SUFFICES ASSUME q # p PROVE BytesOf(r, heap', q) = BytesOf(r, heap, q)
        OBVIOUS
      <4>1. \A l \in 0..PageSize-1 : BytesOf(r, heap', q)[l] = BytesOf(r, heap, q)[l]
        BY <1>7, <2>2
      <4> QED
        BY <4>1 DEF BytesOf
    <3> HIDE DEF f, k, r
    <3> QED
      BY <2>1, <3>1, <3>2, <3>3, <3>4
  <2>3. CASE ~Holds(r, q)
    <3>1. q # p
      BY <2>3
    <3> DEFINE j == FindRegionIndex(regions, q)
               s == regions[j]
    <3>2. CASE j = 0
      BY <2>1, <3>1, <3>2 DEF Desc
    <3>3. CASE j # 0
      <4>1. s \in Region /\ Holds(s, q) /\ j \in 0..Len(regions) /\ Len(regions) \in Nat
        BY <1>0, <3>3, RegionIndexType, LenProperties DEF Holds
      <4>2. j # i
        BY <2>3, <4>1
      <4>3. heap'[s.data.buf] = heap[s.data.buf]
        <5>1. CASE s.external
          BY <1>4, <4>1, <5>1 DEF Region
        <5>2. CASE ~s.external
          <6>1. j \in Blocks(regions)
            <7> HIDE DEF j
            <7> QED
              BY <3>3, <4>1, <5>2 DEF Blocks
          <6>2. s.data.buf \in DOMAIN heap /\ s.data.buf # b
            BY <1>0, <4>2, <6>1 DEF OwnInv, AllOwned, OneOwner
          <6> HIDE DEF b
          <6> QED
            BY <1>3, <6>2
        <5> QED
          BY <5>1, <5>2
      <4>4. Desc(regions, heap', q) = DescOf(s, heap', q) /\ Desc(regions, heap, q) = DescOf(s, heap, q)
        BY <3>3 DEF Desc
      <4> HIDE DEF s
      <4>5. DescOf(s, heap', q) = DescOf(s, heap, q)
        BY ONLY <4>3, DescKept
      <4> QED
        BY <2>1, <3>1, <4>4, <4>5
    <3> QED
      BY <3>2, <3>3
  <2> QED
    BY <2>2, <2>3
<1>9. t[p] = OwnPage(r.perms, r.user, f) /\ p \in DOMAIN t
  <2>1. t[p] = Desc(regions, heap, p) /\ p \in DOMAIN t
    BY DEF Table
  <2>2. Desc(regions, heap, p) = DescOf(r, heap, p)
    BY <1>0, DescOfHolder
  <2>3. DescOf(r, heap, p) = OwnPage(r.perms, r.user, f)
    BY DEF DescOf, Backing, BytesOf, OwnPage
  <2> QED
    BY <2>1, <2>2, <2>3
<1>10. u = PageSet(t, p, OwnPage(r.perms, r.user, [f EXCEPT ![k] = v]))
  <2> DEFINE d == OwnPage(r.perms, r.user, [f EXCEPT ![k] = v])
  <2>1. \A q \in Pages : u[q] = IF q = p THEN d ELSE t[q]
    BY <1>8
  <2>2. u = [q \in Pages |-> u[q]] /\ t = [q \in Pages |-> t[q]]
    BY DEF Table
  <2> HIDE DEF d, t, u
  <2>3. u = PageSet(t, p, d)
    BY <2>1, <2>2 DEF PageSet
  <2> QED
    BY <2>3 DEF d
<1> DEFINE perms == r.perms
           user == r.user
           h == heap[Host]
<1>11. /\ Writable(t, passthrough, p) /\ ~Patched(o, passthrough, a)
       /\ t[p] = OwnPage(perms, user, f)
       /\ u = PageSet(t, p, OwnPage(perms, user, [f EXCEPT ![a % PageSize] = v]))
  BY <1>9, <1>10
<1> HIDE DEF t, u, o, f, perms, user, h
<1>12. StoreRel(t, u, h, h, o, o, passthrough, a, v)
  BY <1>9, <1>11, StoreOwn
<1>13. StoreRel(Table(regions, heap), Table(regions', heap'), heap[Host], heap'[Host],
                Overlay(patches, heap), Overlay(patches', heap'), passthrough, a, v)
  BY <1>4, <1>5, <1>12 DEF t, u, o, h
<1> QED
  BY <1>13, StoreIs

\* mm_get_ptr_checked finds the one patch over the address, or the page.
LEMMA ByteAtIs ==
  ASSUME TypeOK, PatchInv, NEW a \in Addrs, NEW e
  PROVE  /\ \A x \in 1..Len(patches) : passthrough # {} /\ Covers(patches[x], a) =>
              ByteAt(e, a) = [buf |-> patches[x].data, off |-> a - patches[x].address]
         /\ ~(passthrough # {} /\ \E x \in 1..Len(patches) : Covers(patches[x], a)) =>
              ByteAt(e, a) = [buf |-> e.ptr.buf, off |-> e.ptr.off + (a % PageSize)]
<1> DEFINE found == {x \in 1..Len(patches) : Covers(patches[x], a)}
<1>0. a \in Nat /\ DOMAIN patches = 1..Len(patches)
  BY AddrsType, LenProperties DEF Addrs, TypeOK
<1>1. PatchIndexes(a) = found
  <2>1. PatchLookupExact
    BY LookupFromInv
  <2> QED
    BY <1>0, <2>1 DEF PatchLookupExact
<1>2. ASSUME NEW x \in 1..Len(patches), passthrough # {}, Covers(patches[x], a)
      PROVE  ByteAt(e, a) = [buf |-> patches[x].data, off |-> a - patches[x].address]
  <2>1. x \in found /\ \A y \in found : y = x
    BY <1>0, <1>2, OnePatch
  <2>2. x <= x
    BY LenProperties DEF TypeOK
  <2> HIDE DEF found
  <2>3. (CHOOSE k \in found : \A j \in found : k <= j) = x
    BY <2>1, <2>2
  <2>4. found # {}
    BY <2>1
  <2> QED
    BY <1>1, <1>2, <2>3, <2>4 DEF ByteAt
<1>3. ASSUME ~(passthrough # {} /\ \E x \in 1..Len(patches) : Covers(patches[x], a))
      PROVE  ByteAt(e, a) = [buf |-> e.ptr.buf, off |-> e.ptr.off + (a % PageSize)]
  <2>1. passthrough = {} \/ found = {}
    BY <1>3
  <2> HIDE DEF found
  <2> QED
    BY <1>1, <2>1 DEF ByteAt
<1> QED
  BY <1>2, <1>3

LEMMA HostPlace ==
  ASSUME NEW z \in Nat, NEW c \in Nat, NEW P \in Nat \ {0}
  PROVE  ((z * P + c * P) \div P) * P = z * P + c * P
<1> DEFINE x == z + c
<1>1. x \in Int /\ z * P + c * P = x * P
  OBVIOUS
<1> HIDE DEF x
<1>2. (x * P) \div P = x
  BY <1>1, WholePages
<1> QED
  BY <1>1, <1>2

LEMMA WriteByteRefines ==
  ASSUME TypeOK, InOrder(regions), OwnInv(regions, patches, heap), PatchInv, PageCacheCoherent,
         Aligned, NEW a \in StoreAddrs, NEW v \in StoreVals, WriteByte(a, v)
  PROVE  AbsStep
<1> DEFINE p == a \div PageSize
           k == a % PageSize
           e == Query(p)
           at == ByteAt(e, a)
           t == Table(regions, heap)
<1>0. /\ a \in Addrs /\ a \in Nat /\ v \in Byte /\ p \in Pages /\ p \in Nat /\ PageSize \in Nat \ {0}
      /\ regions \in Seq(Region)
  <2>1. a \in Addrs /\ v \in Byte
    BY InputsAssumption DEF Addrs
  <2>2. a \in Nat /\ PageSize \in Nat \ {0}
    BY <2>1, AddrsType, SizesAssumption DEF Addrs
  <2>3. p \in Pages
    BY <2>1, PageOfType DEF PageOf
  <2>4. p \in Nat
    BY <2>3, SizesAssumption DEF Pages
  <2> QED
    BY <2>1, <2>2, <2>3, <2>4 DEF TypeOK
<1>1. /\ e.valid /\ "W" \in e.perms /\ heap' = [heap EXCEPT ![at.buf][at.off] = v]
      /\ regions' = regions /\ patches' = patches /\ passthrough' = passthrough
  BY DEF WriteByte, PageOf, UnchangedPatches
<1>2. t[p] = Desc(regions, heap, p)
  BY <1>0 DEF Table
<1>3. p * PageSize + k = a /\ k \in 0..PageSize-1
  BY <1>0, SplitAddress
<1>4. \/ /\ Desc(regions, heap, p) = <<"none">> /\ passthrough # {} /\ "W" \in passthrough
         /\ e.ptr = [buf |-> Host, off |-> p * PageSize]
      \/ \E i \in 1..Len(regions) :
           /\ Holds(regions[i], p) /\ "W" \in regions[i].perms
           /\ Desc(regions, heap, p) = DescOf(regions[i], heap, p)
           /\ e.ptr = [buf |-> regions[i].data.buf,
                       off |-> regions[i].data.off + (p - regions[i].base) * PageSize]
  <2> HIDE DEF p
  <2> QED
    BY <1>0, <1>1, StoreFinds
<1>5. Writable(t, passthrough, p)
  <2>1. CASE Desc(regions, heap, p) = <<"none">> /\ "W" \in passthrough
    BY <1>2, <2>1 DEF Writable
  <2>2. ASSUME NEW i \in 1..Len(regions), "W" \in regions[i].perms,
               Desc(regions, heap, p) = DescOf(regions[i], heap, p)
        PROVE  Writable(t, passthrough, p)
    <3> DEFINE d == t[p]
               back == Backing(regions[i], heap, p)
    <3>1. d = <<"page", regions[i].perms, regions[i].user, back>>
      BY <1>2, <2>2 DEF DescOf
    <3> HIDE DEF d, back
    <3>2. d # <<"none">> /\ d[2] = regions[i].perms
      BY <3>1
    <3> QED
      BY <2>2, <3>2 DEF Writable, d
  <2> QED
    BY <1>4, <2>1, <2>2
<1>6. ASSUME passthrough # {}, NEW x \in 1..Len(patches), Covers(patches[x], a)
      PROVE  AbsStep
  <2>1. at = [buf |-> patches[x].data, off |-> a - patches[x].address]
    BY <1>0, <1>6, ByteAtIs
  <2>2. heap' = [heap EXCEPT ![patches[x].data][a - patches[x].address] = v]
    <3>1. at.buf = patches[x].data /\ at.off = a - patches[x].address
      BY <2>1
    <3> HIDE DEF at
    <3> QED
      BY <1>1, <3>1
  <2>3. Writable(Table(regions, heap), passthrough, a \div PageSize)
    BY <1>5
  <2>4. UNCHANGED <<regions, patches, passthrough>>
    BY <1>1
  <2> QED
    BY ONLY TypeOK, OwnInv(regions, patches, heap), PatchInv, <1>0, <1>6, <2>2, <2>3, <2>4,
       WritePatchRefines
<1>7. CASE ~(passthrough # {} /\ \E x \in 1..Len(patches) : Covers(patches[x], a))
  <2>1. at = [buf |-> e.ptr.buf, off |-> e.ptr.off + k]
    BY <1>0, <1>7, ByteAtIs
  <2>2. ~Patched(Overlay(patches, heap), passthrough, a)
    BY <1>0, <1>7, PatchedIs
  <2>3. UNCHANGED <<regions, patches, passthrough>>
    BY <1>1
  <2>4. ASSUME NEW x, heap' = [heap EXCEPT ![Host][x] = v],
               \/ t[p] = <<"none">> /\ x = a
               \/ \E perms, user, z : /\ t[p] = <<"page", perms, user, <<"host", z>> >>
                                      /\ x = z * PageSize + k
        PROVE  AbsStep
    BY ONLY TypeOK, OwnInv(regions, patches, heap), <1>0, <1>5, <2>2, <2>3, <2>4, WriteHostRefines
  <2>5. CASE Desc(regions, heap, p) = <<"none">> /\ e.ptr = [buf |-> Host, off |-> p * PageSize]
    <3>1. at.buf = Host /\ at.off = a
      BY <1>3, <2>1, <2>5
    <3>2. heap' = [heap EXCEPT ![Host][a] = v]
      BY <1>1, <3>1
    <3> QED
      BY <1>2, <2>4, <2>5, <3>2
  <2>6. ASSUME NEW i \in 1..Len(regions), Holds(regions[i], p),
               Desc(regions, heap, p) = DescOf(regions[i], heap, p),
               e.ptr = [buf |-> regions[i].data.buf,
                        off |-> regions[i].data.off + (p - regions[i].base) * PageSize]
        PROVE  AbsStep
    <3> DEFINE r == regions[i]
               off == r.data.off + (p - r.base) * PageSize
    <3>0. r \in Region /\ AlignedRegion(r) /\ r.base \in Nat /\ r.base <= p
      <4>1. r \in Region
        BY <1>0, ElementOfSeq
      <4> QED
        BY <2>6, <4>1, RegionNumbers DEF Aligned, Holds
    <3>1. at.buf = r.data.buf /\ at.off = off + k
      BY <2>1, <2>6
    <3>2. heap' = [heap EXCEPT ![r.data.buf][off + k] = v]
      BY <1>1, <3>1
    <3>3. CASE r.external
      <4>1. PICK z \in Nat : r.data.off = z * PageSize
        BY <3>0, <3>3 DEF AlignedRegion
      <4>2. r.data.buf = Host
        BY <3>0, <3>3 DEF Region
      <4>3. (off \div PageSize) * PageSize = off
        <5> DEFINE c == p - r.base
        <5>1. c \in Nat
          BY <1>0, <3>0
        <5>2. off = z * PageSize + c * PageSize
          BY <4>1
        <5> HIDE DEF c, off
        <5> QED
          BY <1>0, <5>1, <5>2, HostPlace
      <4>4. t[p] = <<"page", r.perms, r.user, <<"host", off \div PageSize>> >>
        BY <1>2, <2>6, <3>3 DEF DescOf, Backing
      <4>5. heap' = [heap EXCEPT ![Host][off + k] = v]
        BY <3>2, <4>2
      <4>6. off + k = (off \div PageSize) * PageSize + k
        BY <4>3
      <4> DEFINE x == off + k
                 y == off \div PageSize
                 perms == r.perms
                 user == r.user
      <4>7. /\ heap' = [heap EXCEPT ![Host][x] = v] /\ x = y * PageSize + k
            /\ t[p] = <<"page", perms, user, <<"host", y>> >>
        BY <4>4, <4>5, <4>6
      <4> HIDE DEF x, y, perms, user
      <4> QED
        BY <2>4, <4>7
    <3>4. CASE ~r.external
      <4>1. r.data.off = 0
        BY <3>0, <3>4 DEF AlignedRegion
      <4>2. heap' = [heap EXCEPT ![r.data.buf][(0 + (p - r.base) * PageSize) + k] = v]
        BY <3>2, <4>1
      <4>3. /\ Holds(regions[i], p) /\ ~regions[i].external /\ regions[i].data.off = 0
            /\ heap' = [heap EXCEPT ![regions[i].data.buf]
                               [(0 + (p - regions[i].base) * PageSize) + (a % PageSize)] = v]
        BY <2>6, <3>4, <4>1, <4>2
      <4>4. \E q \in Pages : q = p
        BY <1>0
      <4>5. Writable(Table(regions, heap), passthrough, p)
        BY <1>5
      <4>6. p = a \div PageSize
        OBVIOUS
      <4> HIDE DEF p
      <4> QED
        BY ONLY TypeOK, InOrder(regions), OwnInv(regions, patches, heap), <1>0, <2>2, <2>3, <2>6,
           <4>3, <4>5, <4>6, WriteOwnRefines
    <3> QED
      BY <3>3, <3>4
  <2> QED
    BY <1>4, <2>5, <2>6
<1> QED
  BY <1>6, <1>7

-----------------------------------------------------------------------------
(* Regions stay aligned, and the theorem.                                  *)

LEMMA PieceAligned ==
  ASSUME NEW r \in Region, AlignedRegion(r), NEW s, s.base \in Nat, r.base <= s.base, NEW buf
  PROVE  AlignedRegion(BuildRegionSegment(r, s, buf))
<1> DEFINE t == BuildRegionSegment(r, s, buf)
<1>1. t.external = r.external
  BY DEF BuildRegionSegment
<1>2. CASE r.external
  <2>1. PICK z \in Nat : r.data.off = z * PageSize
    BY <1>2 DEF AlignedRegion
  <2> DEFINE c == s.base - r.base
             y == z + c
  <2>2. c \in Nat /\ PageSize \in Nat
    BY RegionNumbers, SizesAssumption
  <2>3. t.data.off = z * PageSize + c * PageSize
    BY <1>2, <2>1 DEF BuildRegionSegment, SegmentOffset
  <2> HIDE DEF c, t
  <2>4. y \in Nat /\ z * PageSize + c * PageSize = y * PageSize
    BY <2>2
  <2>5. \E w \in Nat : t.data.off = w * PageSize
    <3> HIDE DEF y
    <3> QED
      BY <2>3, <2>4
  <2>6. AlignedRegion(t)
    BY <1>1, <1>2, <2>5 DEF AlignedRegion
  <2> QED
    BY <2>6 DEF t
<1>3. CASE ~r.external
  <2>1. t.data.off = 0
    BY <1>3 DEF BuildRegionSegment
  <2> HIDE DEF t
  <2>2. AlignedRegion(t)
    BY <1>1, <1>3, <2>1 DEF AlignedRegion
  <2> QED
    BY <2>2 DEF t
<1> QED
  BY <1>2, <1>3

LEMMA StepAligned ==
  ASSUME TypeOK, Aligned, RangeStep
  PROVE  Aligned'
<1> DEFINE i == WalkRegion
           j == i + 1
           r == regions[i]
           segs == Segments(r)
<1>0. /\ regions \in Seq(Region) /\ Len(regions) \in Nat /\ i \in 1..Len(regions) /\ r \in Region
      /\ segs \in Seq([base : r.base..NPages-1, size : 1..NPages, perms : SUBSET Rights, user : BOOLEAN])
  BY WalkRegionFacts, LenProperties DEF TypeOK
<1>1. PICK t, bufs :
        /\ t \in Seq(Region) /\ regions' = Splice(regions, i, i+1, t) /\ Len(t) = Len(segs)
        /\ \A k \in 1..Len(segs) :
             t[k] = BuildRegionSegment(r, segs[k], IF r.external THEN Host ELSE bufs[k])
  BY StepFacts
<1>2. ASSUME NEW k \in 1..Len(t) PROVE AlignedRegion(t[k])
  <2> DEFINE s == segs[k]
             buf == IF r.external THEN Host ELSE bufs[k]
  <2>1. k \in 1..Len(segs) /\ AlignedRegion(r)
    BY <1>0, <1>1 DEF Aligned
  <2>2. s.base \in Nat /\ r.base <= s.base
    <3>1. s \in [base : r.base..NPages-1, size : 1..NPages, perms : SUBSET Rights, user : BOOLEAN]
      <4> HIDE DEF segs, r
      <4> QED
        BY <1>0, <2>1, ElementOfSeq
    <3>2. s.base \in r.base..NPages-1 /\ r.base \in Nat
      BY <1>0, <3>1, RegionNumbers
    <3> QED
      BY <3>2, SizesAssumption
  <2>3. t[k] = BuildRegionSegment(r, s, buf)
    BY <1>1, <2>1
  <2> HIDE DEF s, buf, r
  <2>4. AlignedRegion(BuildRegionSegment(r, s, buf))
    BY <1>0, <2>1, <2>2, PieceAligned
  <2> QED
    BY <2>3, <2>4
<1>3. regions' = Splice(regions, i, j, t) /\ t \in Seq(Region)
  BY <1>1
<1>4. i \in 1..Len(regions)+1 /\ j \in i..Len(regions)+1 /\ j = i + 1
  <2> HIDE DEF i
  <2> QED
    BY <1>0
<1> HIDE DEF i, j
<1>5. Replaced(Splice(regions, i, j, t), regions, i, t)
  BY <1>0, <1>3, <1>4, SpliceReplaces
<1>6. ASSUME NEW k \in 1..Len(regions') PROVE AlignedRegion(regions'[k])
  <2>1. \/ \E u \in 1..Len(t) : regions'[k] = t[u]
        \/ \E o \in 1..Len(regions) : regions'[k] = regions[o]
    BY <1>3, <1>5 DEF Replaced
  <2> QED
    BY <1>2, <2>1 DEF Aligned
<1> QED
  BY <1>6 DEF Aligned

LEMMA InsertAligned ==
  ASSUME TypeOK, Aligned, NEW r \in Region, AlignedRegion(r), InsertRegion(r)
  PROVE  Aligned'
<1>1. PICK i : Added(regions', regions, r, i)
  BY InsertAdds
<1>2. \A k \in 1..Len(regions') : AlignedRegion(regions'[k])
  BY <1>1 DEF Added, Aligned
<1> QED
  BY <1>2 DEF Aligned

LEMMA AlignedKept == TypeOK /\ Aligned /\ [Next]_vars => Aligned'
<1> SUFFICES ASSUME TypeOK, Aligned, [Next]_vars PROVE Aligned'
  OBVIOUS
<1>1. ASSUME NEW p \in MapPages, NEW n \in MapSizes, NEW perms \in PermChoices,
             MapInternal(p, n, perms)
      PROVE  Aligned'
  <2>1. PICK b \in BufIds :
          InsertRegion([base |-> p, size |-> n, data |-> [buf |-> b, off |-> 0],
                        perms |-> perms, user |-> TRUE, external |-> FALSE])
    BY <1>1 DEF MapInternal
  <2> DEFINE r == [base |-> p, size |-> n, data |-> [buf |-> b, off |-> 0],
                   perms |-> perms, user |-> TRUE, external |-> FALSE]
  <2>2. r \in Region /\ AlignedRegion(r) /\ InsertRegion(r)
    BY <2>1, InputsAssumption DEF Region, Ptr, Pages, AlignedRegion
  <2> HIDE DEF r
  <2> QED
    BY <2>2, InsertAligned
<1>2. ASSUME NEW p \in MapPages, NEW n \in MapSizes, NEW perms \in PermChoices, NEW h \in HostPtrs,
             MapHost(p, n, perms, h)
      PROVE  Aligned'
  <2> DEFINE r == [base |-> p, size |-> n, data |-> [buf |-> Host, off |-> h * PageSize],
                   perms |-> perms, user |-> TRUE, external |-> TRUE]
  <2>1. h \in Nat /\ h * PageSize \in Nat
    BY InputsAssumption, SizesAssumption, TimesNat
  <2>2. r \in Region
    BY <2>1, InputsAssumption DEF Region, Ptr, Pages
  <2>3. AlignedRegion(r)
    <3>1. r.external /\ r.data.off = h * PageSize
      OBVIOUS
    <3> HIDE DEF r
    <3> QED
      BY <2>1, <3>1 DEF AlignedRegion
  <2>4. InsertRegion(r)
    BY <1>2 DEF MapHost
  <2> HIDE DEF r
  <2> QED
    BY <2>2, <2>3, <2>4, InsertAligned
<1>3. CASE RangeStep
  BY <1>3, StepAligned
<1>4. CASE regions' = <<>>
  BY <1>4 DEF Aligned
<1>5. CASE regions' = regions
  BY <1>5 DEF Aligned
<1> QED
  BY <1>1, <1>2, <1>3, <1>4, <1>5
  DEF Next, SetHostPassthrough, BeginRange, RangeEmpty, RangeFail, AddPatch, DelPatch, Access, WriteByte,
      Destroy, Reopen, vars

\* What the steps of the refinement rest on.
RefInv == /\ InOrder(regions) /\ OwnInv(regions, patches, heap)
          /\ PatchInv /\ PageCacheCoherent /\ Aligned

LEMMA NextRefines == TypeOK /\ RefInv /\ [Next]_vars => AbsStep
<1> SUFFICES ASSUME TypeOK, RefInv, [Next]_vars PROVE AbsStep
  OBVIOUS
<1>0. /\ InOrder(regions) /\ OwnInv(regions, patches, heap)
      /\ PatchInv /\ PageCacheCoherent /\ Aligned
  BY DEF RefInv
<1>1. ASSUME NEW p \in MapPages, NEW n \in MapSizes, NEW perms \in PermChoices,
             MapInternal(p, n, perms)
      PROVE  AbsStep
  BY <1>0, <1>1, MapInternalRefines
<1>2. ASSUME NEW p \in MapPages, NEW n \in MapSizes, NEW perms \in PermChoices, NEW h \in HostPtrs,
             MapHost(p, n, perms, h)
      PROVE  AbsStep
  BY <1>0, <1>2, MapHostRefines
<1>3. ASSUME NEW perms \in PassChoices, SetHostPassthrough(perms) PROVE AbsStep
  BY <1>3, LendRefines
<1>4. CASE RangeStep
  BY <1>0, <1>4, StepRefines
<1>5. ASSUME NEW r \in PatchRanges, NEW v \in StoreVals, AddPatch(r[1], r[2], v) PROVE AbsStep
  BY <1>0, <1>5, AddPatchRefines
<1>6. ASSUME NEW x \in DOMAIN patches, DelPatch(x) PROVE AbsStep
  BY <1>0, <1>6, DelPatchRefines
<1>7. ASSUME NEW a \in StoreAddrs, NEW v \in StoreVals, WriteByte(a, v) PROVE AbsStep
  BY <1>0, <1>7, WriteByteRefines
<1>8. CASE Destroy
  BY <1>8, ForgetRefines
<1>9. CASE UNCHANGED <<regions, patches, heap, passthrough>>
  BY <1>9, QuietStep
<1> QED
  BY <1>1, <1>2, <1>3, <1>4, <1>5, <1>6, <1>7, <1>8, <1>9
  DEF Next, BeginRange, RangeEmpty, RangeFail, Access, Reopen, UnchangedPatches, vars

\* The array of regions, with its splits, copies and releases, its page cache and its
\* patch table, is a page table: every step of the manager, a failed allocation in the
\* middle of a range call included, is a step AddressSpace allows, or no step of it at
\* all.  Whatever holds of every behaviour of AddressSpace holds of the manager, for
\* every number and size of pages, cache size, set of blocks and set of inputs.
THEOREM ActsAsPageTable == Spec => ImplementsAddressSpace
<1>1. Init => RefInv
  <2> SUFFICES ASSUME Init PROVE RefInv
    OBVIOUS
  <2>1. Len(regions) = 0 /\ Len(patches) = 0 /\ DOMAIN heap = {Host}
    BY DEF Init
  <2>2. Blocks(regions) = {} /\ 1..Len(patches) = {}
    BY <2>1 DEF Blocks
  <2>3. PageCacheCoherent
    BY EmptyIsCoherent DEF Init
  <2>4. OwnInv(regions, patches, heap)
    BY <2>1, <2>2 DEF OwnInv, OneOwner, AllOwned, LongEnough
  <2> QED
    BY <2>1, <2>3, <2>4 DEF RefInv, InOrder, PatchInv, PatchesApart, PatchesBounded, Aligned
<1>2. TypeOK /\ PageCacheCoherent' /\ RefInv /\ [Next]_vars => RefInv'
  <2> SUFFICES ASSUME TypeOK, PageCacheCoherent', RefInv, [Next]_vars PROVE RefInv'
    OBVIOUS
  <2>1. InOrder(regions') /\ OwnInv(regions', patches', heap') /\ PatchInv' /\ Aligned'
    BY OrderKept, OwnedKept, PatchInvKept, AlignedKept DEF RefInv
  <2> QED
    BY <2>1 DEF RefInv
<1>3. Init => Abstract!ASInit
  BY InitRefines
<1>4. TypeOK /\ RefInv /\ [Next]_vars => [Abstract!ASNext]_(Abstract!asVars)
  BY NextRefines DEF AbsStep
<1>5. Spec => Abstract!ASInit /\ [][Abstract!ASNext]_(Abstract!asVars)
  BY <1>1, <1>2, <1>3, <1>4, TypeCorrect, CacheCoherence, PTL DEF Spec
<1> QED
  BY <1>5 DEF ImplementsAddressSpace, Abstract!ASSpec

=============================================================================
