-------------------------- MODULE MemAccessProofs ---------------------------
(***************************************************************************)
(* Proofs about MemAccess: an access of several bytes ends as a whole, for *)
(* every page size, layout of frames and patches, set of hooks and number  *)
(* of things the callbacks do in the middle of it.                         *)
(***************************************************************************)
EXTENDS MemAccess, TLAPS

Addrs == 0..NPages*PageSize-1

InContig  == acc.pc \in {"contig", "invalid1", "split"}
InInvalid == acc.pc \in {"invalid1", "invalid2"}
InEnd     == acc.pc \in {"ready", "notify"}

\* The bytes before this one are resolved.
Done == IF InEnd THEN acc.n ELSE acc.k

\* The record of an access in progress.
Record ==
  acc = [pc |-> acc.pc, kind |-> acc.kind, a |-> acc.a, n |-> acc.n, tag |-> acc.tag,
         k |-> acc.k, attempt |-> acc.attempt, ptrs |-> acc.ptrs, got |-> acc.got,
         stale |-> acc.stale, reports |-> acc.reports, before |-> acc.before,
         seen |-> acc.seen]

\* What its fields are: it is never past its last byte or its last try.
Fields ==
  /\ acc.pc \in {"contig", "bytes", "invalid1", "invalid2", "split", "ready", "notify"}
  /\ acc.kind \in Kinds /\ acc.a \in Starts /\ acc.n \in Sizes /\ acc.tag \in Tags
  /\ acc.k \in Nat /\ acc.attempt \in 0..Attempts /\ acc.stale \in BOOLEAN
  /\ ~InEnd => acc.k < acc.n
  /\ InInvalid => acc.attempt < Attempts /\ acc.seen \in {"prot", "unmapped"}

Shaped == Record /\ Fields

TypeOK ==
  /\ pages \in [PageNos -> PageEntries] /\ patched \subseteq Addrs
  /\ heap \in [Pointers -> Tags \cup {0}]
  /\ exc \in [kind : {"none", "prot", "unmapped", "host"}, cr2 : Nat]
  /\ calls \in 0..MaxCalls
  /\ acc.pc # "idle" => Shaped

\* Nothing is stored and nothing reported before the end.
NothingYet ==
  acc.pc # "idle" => heap = acc.before /\ acc.reports = IF acc.pc = "notify" THEN 1 ELSE 0

\* A pointer is kept for every byte, or in the contiguous pass for one byte per page.
Extent ==
  acc.pc # "idle" =>
    /\ \A i \in DOMAIN acc.ptrs : i \in 0..Done-1
    /\ \A i \in 0..Done-1 : Held(PageOf(acc.a + i))
    /\ InContig /\ acc.k # 0 => 0 \in DOMAIN acc.ptrs
    /\ ~InContig => DOMAIN acc.ptrs = 0..Done-1

\* Unless a callback took a page away, the pointers kept are those the pages give; in the
\* contiguous pass they also stand for the bytes between them.
PointersHold ==
  acc.pc # "idle" /\ ~acc.stale =>
    /\ \A i \in 0..Done-1 : Status(acc.a + i) = "ok"
    /\ \A i \in DOMAIN acc.ptrs : acc.ptrs[i] = Ptr(acc.a + i)
    /\ InContig => \A i \in 0..Done-1 : Ptr(acc.a + i) = Ptr(acc.a) + i

\* A read has taken what its bytes hold.
ReadSoFar ==
  acc.pc # "idle" /\ ~InContig /\ acc.kind # "write" =>
    /\ \A i \in 0..Done-1 : i \in DOMAIN acc.got
    /\ ~acc.stale => \A i \in 0..Done-1 : acc.got[i] = heap[Ptr(acc.a + i)]

Inv == TypeOK /\ NothingYet /\ Extent /\ PointersHold /\ ReadSoFar

-----------------------------------------------------------------------------
(* Addresses, pages and pointers                                           *)

\* A byte at offset j of what is left of a page is on that page.
LEMMA SamePage ==
  ASSUME NEW P \in Nat \ {0}, NEW x \in Nat, NEW j \in 0..(P - (x % P))-1
  PROVE  (x + j) \div P = x \div P /\ (x + j) % P = (x % P) + j
<1> DEFINE q == x \div P
           m == x % P
<1>1. q \in Nat /\ m \in 0..P-1 /\ x = q * P + m
  OBVIOUS
<1> HIDE DEF q, m
<1>2. j \in Nat /\ m + j \in 0..P-1
  BY <1>1 DEF m
<1>3. ASSUME NEW r \in 0..P-1 PROVE (q * P + r) \div P = q /\ (q * P + r) % P = r
  BY <1>1
<1>4. x + j = q * P + (m + j)
  BY <1>1, <1>2
<1> QED
  BY <1>2, <1>3, <1>4 DEF q, m

LEMMA PageOfType ==
  ASSUME NEW x \in Addrs
  PROVE  PageOf(x) \in PageNos /\ x \in Nat
<1>1. PageSize \in Nat \ {0} /\ NPages \in Nat \ {0}
  BY MemAccessAssumption
<1> QED
  BY <1>1 DEF PageOf, PageNos, Addrs

LEMMA ByteAddr ==
  ASSUME NEW a \in Starts, NEW n \in Sizes, NEW i \in 0..n-1
  PROVE  a + i \in Addrs
<1>1. a \in Nat /\ n \in Nat /\ a + n <= NPages * PageSize
  BY MemAccessAssumption
<1>2. NPages * PageSize \in Nat
  BY MemAccessAssumption
<1> QED
  BY <1>1, <1>2 DEF Addrs

LEMMA InFrame ==
  ASSUME NEW P \in Nat \ {0}, NEW N \in Nat, NEW f \in 0..N-1, NEW m \in 0..P-1
  PROVE  f * P + m \in 0..N*P-1
<1>1. f * P + m \in Nat
  OBVIOUS
<1>2. (f + 1) * P <= N * P
  BY Z3
<1>3. (f + 1) * P = f * P + P
  OBVIOUS
<1> QED
  BY <1>1, <1>2, <1>3

LEMMA PtrType ==
  ASSUME TypeOK, NEW x \in Addrs
  PROVE  Ptr(x) \in Pointers /\ Ptr(x) \in Int
<1> DEFINE A == NPages * PageSize
           F == NFrames * PageSize
<1>1. A \in Nat /\ F \in Nat /\ PageSize \in Nat \ {0} /\ NFrames \in Nat
  BY MemAccessAssumption
<1>2. x \in 0..A-1 /\ Pointers = 0..(F+1)+A-1 /\ PatchBase = F + 1
  BY DEF Addrs, Pointers, PatchBase
<1>3. CASE x \in patched
  <2>1. Ptr(x) = F + 1 + x
    BY <1>2, <1>3 DEF Ptr
  <2> HIDE DEF A, F
  <2> QED
    BY <1>1, <1>2, <2>1
<1>4. CASE x \notin patched
  <2>1. pages[PageOf(x)].frame \in 0..NFrames-1
    BY PageOfType DEF TypeOK, PageEntries, Frames
  <2>2. x % PageSize \in 0..PageSize-1
    BY <1>1, <1>2
  <2>3. pages[PageOf(x)].frame * PageSize + (x % PageSize) \in 0..F-1
    BY <1>1, <2>1, <2>2, InFrame
  <2>4. Ptr(x) \in 0..F-1
    BY <1>4, <2>3 DEF Ptr
  <2> HIDE DEF A, F
  <2> QED
    BY <1>1, <1>2, <2>4
<1> QED
  BY <1>3, <1>4

LEMMA HereType ==
  ASSUME Shaped, ~InEnd
  PROVE  Here \in Addrs /\ Here \in Nat
<1>1. acc.a \in Starts /\ acc.n \in Sizes /\ acc.k \in Nat /\ acc.k < acc.n
  BY DEF Shaped, Fields
<1>2. acc.n \in Nat
  BY <1>1, MemAccessAssumption
<1>3. acc.k \in 0..acc.n-1
  BY <1>1, <1>2
<1>4. Here \in Addrs
  BY <1>1, <1>3, ByteAddr DEF Here
<1> QED
  BY <1>4, PageOfType

\* The contiguous pass: what it resolves at one byte holds for all bytes up to the next
\* one it looks at.
LEMMA StrideCovers ==
  ASSUME TypeOK, Shaped, ~InEnd
  PROVE  /\ Stride \in Nat \ {0}
         /\ \A j \in 0..Stride-1 : Here + j \in Addrs =>
              /\ PageOf(Here + j) = PageOf(Here)
              /\ Status(Here + j) = Status(Here)
              /\ Ptr(Here + j) = Ptr(Here) + j
<1>1. Here \in Addrs /\ PageSize \in Nat \ {0}
  BY HereType, MemAccessAssumption
<1>2. Here \in Nat
  BY <1>1, PageOfType
<1>3. CASE patched # {}
  <2>1. Stride = 1
    BY <1>3 DEF Stride
  <2>2. Ptr(Here) \in Int
    BY <1>1, PtrType
  <2>3. \A j \in 0..Stride-1 : j = 0 /\ Here + j = Here /\ Ptr(Here) = Ptr(Here) + j
    BY <1>2, <2>1, <2>2
  <2> QED
    BY <2>1, <2>3
<1>4. CASE patched = {}
  <2>1. Stride = PageSize - (Here % PageSize)
    BY <1>4 DEF Stride
  <2>2. Here % PageSize \in 0..PageSize-1
    BY <1>1, <1>2
  <2>3. ASSUME NEW j \in 0..Stride-1, Here + j \in Addrs
        PROVE  /\ PageOf(Here + j) = PageOf(Here)
               /\ Status(Here + j) = Status(Here)
               /\ Ptr(Here + j) = Ptr(Here) + j
    <3>1. PageOf(Here + j) = PageOf(Here) /\ (Here + j) % PageSize = (Here % PageSize) + j
      BY <1>1, <1>2, <2>1, <2>3, SamePage DEF PageOf
    <3>2. pages[PageOf(Here)].frame * PageSize \in Int
      <4>1. pages[PageOf(Here)].frame \in Nat
        BY <1>1, PageOfType, MemAccessAssumption DEF TypeOK, PageEntries, Frames
      <4> QED
        BY <1>1, <4>1
    <3>3. /\ Ptr(Here) = pages[PageOf(Here)].frame * PageSize + (Here % PageSize)
          /\ Ptr(Here + j) = pages[PageOf(Here)].frame * PageSize + ((Here % PageSize) + j)
      BY <1>4, <3>1 DEF Ptr
    <3> QED
      BY <2>1, <2>2, <2>3, <3>1, <3>2, <3>3 DEF Status
  <2> QED
    BY <1>1, <2>1, <2>2, <2>3
<1> QED
  BY <1>3, <1>4

-----------------------------------------------------------------------------
(* The state and the record stay well-formed                               *)

LEMMA FaultType ==
  ASSUME TypeOK, NEW x \in Nat, NEW kind \in {"prot", "unmapped"}, PageFault(x, kind)
  PROVE  exc' \in [kind : {"none", "prot", "unmapped", "host"}, cr2 : Nat]
  BY DEF TypeOK, PageFault

LEMMA StatusType ==
  ASSUME TypeOK, NEW x \in Addrs
  PROVE  Status(x) \in {"ok", "prot", "unmapped"}
  BY PageOfType DEF TypeOK, Status, PageEntries, Statuses

LEMMA StoredType ==
  ASSUME TypeOK, Shaped
  PROVE  Stored \in [Pointers -> Tags \cup {0}]
  BY DEF TypeOK, Shaped, Fields, Stored

LEMMA TypeInit == Init => TypeOK
<1> SUFFICES ASSUME Init PROVE TypeOK
  OBVIOUS
<1>1. acc.pc = "idle"
  BY DEF Init, Ended
<1>2. calls \in 0..MaxCalls
  BY MemAccessAssumption DEF Init
<1>3. patched \subseteq Addrs /\ pages \in [PageNos -> PageEntries]
  BY MemAccessAssumption DEF Init, Addrs
<1>4. heap \in [Pointers -> Tags \cup {0}]
  BY DEF Init
<1>5. exc \in [kind : {"none", "prot", "unmapped", "host"}, cr2 : Nat]
  BY DEF Init, NoExc
<1> QED
  BY <1>1, <1>2, <1>3, <1>4, <1>5 DEF TypeOK

\* A frame is the page of host memory that its bytes are on.
LEMMA FrameOf ==
  ASSUME NEW P \in Nat \ {0}, NEW f \in Nat, NEW m \in 0..P-1
  PROVE  (f * P + m) \div P = f /\ (f * P + m) % P = m
OBVIOUS

\* What a byte of an accessible page resolves to is never in a free frame.
LEMMA InUse ==
  ASSUME TypeOK, NEW x \in Addrs, Status(x) = "ok"
  PROVE  Ptr(x) \div PageSize \notin FreeFrames
<1> DEFINE P == PageSize
           N == NFrames
<1>1. P \in Nat \ {0} /\ N \in Nat \ {0} /\ x \in Nat /\ PageOf(x) \in PageNos
  BY PageOfType, MemAccessAssumption
<1>2. CASE x \in patched
  <2> DEFINE y == N * P + 1 + x
             f == y \div P
             m == y % P
  <2>1. N * P \in Nat /\ y \in Nat
    BY <1>1
  <2>2. Ptr(x) = y
    BY <1>2 DEF Ptr, PatchBase
  <2>3. f \in Nat /\ m \in 0..P-1 /\ y = f * P + m
    BY <1>1, <2>1
  <2>4. y > N * P
    BY <1>1, <2>1
  <2> HIDE DEF y, f, m
  <2>5. f \notin 0..N-1
    <3> SUFFICES ASSUME f \in 0..N-1 PROVE FALSE
      OBVIOUS
    <3>1. f * P + m \in 0..N*P-1
      BY <1>1, <2>3, InFrame
    <3> QED
      BY <2>1, <2>3, <2>4, <3>1
  <2>6. Ptr(x) \div PageSize = f
    BY <2>2 DEF f
  <2> QED
    BY <2>5, <2>6 DEF FreeFrames, Frames
<1>3. CASE x \notin patched
  <2> DEFINE f == pages[PageOf(x)].frame
             m == x % P
  <2>1. f \in Nat /\ m \in 0..P-1
    BY <1>1, MemAccessAssumption DEF TypeOK, PageEntries, Frames
  <2>2. Ptr(x) = f * P + m
    BY <1>3 DEF Ptr
  <2>3. PageOf(x) \in Mapped
    BY <1>1 DEF Mapped, Status
  <2>4. f \notin FreeFrames
    BY <2>3 DEF FreeFrames
  <2> HIDE DEF f, m
  <2>5. (f * P + m) \div P = f
    BY <1>1, <2>1, FrameOf
  <2> QED
    BY <2>2, <2>4, <2>5
<1> QED
  BY <1>2, <1>3

\* What a callback does that maps, unmaps or protects: the pages in touched may change and
\* so may the frames that were free; everything else stays.
Changes(touched) ==
  /\ InCallback /\ calls < MaxCalls /\ calls' = calls + 1 /\ UNCHANGED <<patched, exc>>
  /\ Disturbs(touched)
  /\ pages' \in [PageNos -> PageEntries] /\ heap' \in [Pointers -> Tags \cup {0}]
  /\ \A q \in PageNos \ touched : pages'[q] = pages[q]
  /\ \A x \in Pointers : x \div PageSize \notin FreeFrames => heap'[x] = heap[x]

LEMMA NoPageType == NoPage \in PageEntries
  BY MemAccessAssumption DEF NoPage, PageEntries, Frames, Statuses

\* The copies that rebuild a region go to frames that were free.
LEMMA CopiedType ==
  ASSUME TypeOK, NEW kept \in SUBSET PageNos, NEW new \in [kept -> FreeFrames]
  PROVE  /\ Copied(new) \in [Pointers -> Tags \cup {0}]
         /\ \A x \in Pointers : x \div PageSize \notin FreeFrames => Copied(new)[x] = heap[x]
<1>0. PageSize \in Nat \ {0} /\ NFrames \in Nat \ {0} /\ NPages * PageSize \in Nat
  BY MemAccessAssumption
<1>1. ASSUME NEW x \in Pointers, NEW q \in kept
      PROVE  heap[pages[q].frame * PageSize + (x % PageSize)] \in Tags \cup {0}
  <2>1. pages[q].frame \in 0..NFrames-1
    BY <1>1 DEF TypeOK, PageEntries, Frames
  <2>2. x \in Nat
    BY <1>1 DEF Pointers
  <2>3. x % PageSize \in 0..PageSize-1
    BY <1>0, <2>2
  <2>4. pages[q].frame * PageSize + (x % PageSize) \in 0..NFrames*PageSize-1
    BY <1>0, <2>1, <2>3, InFrame
  <2> DEFINE y == pages[q].frame * PageSize + (x % PageSize)
             F == NFrames * PageSize
             A == NPages * PageSize
  <2>5. y \in 0..F-1 /\ F \in Nat /\ A \in Nat /\ Pointers = 0..(F+1)+A-1
    BY <1>0, <2>4 DEF Pointers, PatchBase
  <2> HIDE DEF y, F, A
  <2>6. y \in Pointers
    BY <2>5
  <2> QED
    BY <2>6 DEF TypeOK, y
<1>2. ASSUME NEW x \in Pointers, ~ \E q \in kept : new[q] = x \div PageSize
      PROVE  Copied(new)[x] = heap[x]
  BY <1>2 DEF Copied
<1>3. ASSUME NEW x \in Pointers, \E q \in kept : new[q] = x \div PageSize
      PROVE  Copied(new)[x] \in Tags \cup {0}
  <2> DEFINE q == CHOOSE r \in kept : new[r] = x \div PageSize
  <2>1. q \in kept
    BY <1>3
  <2>2. Copied(new)[x] = heap[pages[q].frame * PageSize + (x % PageSize)]
    BY <1>3 DEF Copied
  <2> HIDE DEF q
  <2> QED
    BY <1>1, <2>1, <2>2
<1>4. \A x \in Pointers : Copied(new)[x] \in Tags \cup {0}
  BY <1>2, <1>3 DEF TypeOK
<1>5. Copied(new) = [x \in Pointers |-> Copied(new)[x]]
  BY DEF Copied
<1>6. Copied(new) \in [Pointers -> Tags \cup {0}]
  BY <1>4, <1>5
<1>7. ASSUME NEW x \in Pointers, x \div PageSize \notin FreeFrames
      PROVE  Copied(new)[x] = heap[x]
  BY <1>2, <1>7
<1> QED
  BY <1>6, <1>7

\* A rebuilt region: only its own pages change.
LEMMA RebuildChanges ==
  ASSUME TypeOK, NEW p \in PageNos, NEW status \in Statuses, Rebuild(p, status)
  PROVE  Changes(Siblings(p))
<1> DEFINE kept == Siblings(p) \ (IF status = "unmapped" THEN {p} ELSE {})
<1>1. /\ p \in Siblings(p) /\ Siblings(p) \subseteq PageNos /\ kept \in SUBSET PageNos
      /\ kept \subseteq Siblings(p)
  BY DEF Rebuild, Siblings, Mapped
<1>2. PICK new \in NewBlocks(p, kept) :
        /\ pages' = [q \in PageNos |->
             IF q \in kept
             THEN [frame |-> new[q], block |-> PieceOf(p, q),
                   status |-> IF q = p THEN status ELSE pages[q].status]
             ELSE IF q = p THEN NoPage ELSE pages[q]]
        /\ heap' = Copied(new)
  BY DEF Rebuild
<1> HIDE DEF kept
<1>3. new \in [kept -> FreeFrames]
  BY <1>2 DEF NewBlocks
<1>4. ASSUME NEW q \in PageNos PROVE pages'[q] \in PageEntries
  <2>1. CASE q \in kept
    <3>1. new[q] \in Frames
      BY <1>3, <2>1 DEF FreeFrames
    <3>2. PieceOf(p, q) \in PageNos \cup {External}
      <4>1. pages[q].block \in PageNos \cup {External}
        BY DEF TypeOK, PageEntries
      <4>2. p < q => p + 1 \in PageNos
        BY MemAccessAssumption DEF PageNos
      <4>3. q < p \/ q = p \/ p < q
        BY MemAccessAssumption DEF PageNos
      <4> QED
        BY <4>1, <4>2, <4>3 DEF PieceOf
    <3>3. (IF q = p THEN status ELSE pages[q].status) \in Statuses
      BY DEF TypeOK, PageEntries
    <3> QED
      BY <1>2, <2>1, <3>1, <3>2, <3>3 DEF PageEntries
  <2>2. CASE q \notin kept
    BY <1>2, <2>2, NoPageType DEF TypeOK
  <2> QED
    BY <2>1, <2>2
<1>5. pages' \in [PageNos -> PageEntries]
  BY <1>2, <1>4
<1>6. \A q \in PageNos \ Siblings(p) : pages'[q] = pages[q]
  BY <1>1, <1>2
<1> QED
  BY <1>1, <1>2, <1>3, <1>5, <1>6, CopiedType DEF Changes, Rebuild, HostCall

LEMMA MapChanges ==
  ASSUME TypeOK, NEW p \in PageNos, NEW frame \in Frames, NEW block \in PageNos \cup {External},
         NEW status \in Statuses, MapPage(p, frame, block, status)
  PROVE  Changes({p})
<1>1. [frame |-> frame, status |-> status, block |-> block] \in PageEntries
  BY DEF PageEntries
<1>2. pages' \in [PageNos -> PageEntries] /\ \A q \in PageNos \ {p} : pages'[q] = pages[q]
  BY <1>1 DEF MapPage, TypeOK
<1>3. /\ heap' \in [Pointers -> Tags \cup {0}]
      /\ \A x \in Pointers : x \div PageSize \notin FreeFrames => heap'[x] = heap[x]
  <2>1. CASE heap' = heap
    BY <2>1 DEF TypeOK
  <2>2. CASE /\ frame \in FreeFrames
             /\ heap' = [x \in Pointers |-> IF x \div PageSize = frame THEN 0 ELSE heap[x]]
    BY <2>2 DEF TypeOK
  <2> QED
    BY <2>1, <2>2 DEF MapPage
<1> QED
  BY <1>2, <1>3 DEF Changes, MapPage, HostCall

LEMMA ExternalChanges ==
  ASSUME TypeOK, NEW p \in PageNos, NEW status \in Statuses, ChangeExternal(p, status)
  PROVE  Changes({p})
<1> DEFINE entry == IF status = "unmapped" THEN NoPage ELSE [pages[p] EXCEPT !.status = status]
<1>1. entry \in PageEntries
  BY NoPageType DEF TypeOK, PageEntries
<1>2. pages' = [pages EXCEPT ![p] = entry] /\ heap' = heap
  BY DEF ChangeExternal
<1> HIDE DEF entry
<1>3. pages' \in [PageNos -> PageEntries] /\ \A q \in PageNos \ {p} : pages'[q] = pages[q]
  BY <1>1, <1>2 DEF TypeOK
<1> QED
  BY <1>2, <1>3 DEF Changes, ChangeExternal, HostCall, TypeOK

\* The steps of the host that change pages.
HostStep ==
  \/ \E p \in PageNos, frame \in Frames, block \in PageNos \cup {External},
       status \in Statuses : MapPage(p, frame, block, status)
  \/ \E p \in PageNos, status \in Statuses : ChangeExternal(p, status) \/ Rebuild(p, status)

LEMMA HostChanges ==
  ASSUME TypeOK, HostStep
  PROVE  \E touched \in SUBSET PageNos : Changes(touched)
<1>1. ASSUME NEW p \in PageNos PROVE {p} \in SUBSET PageNos /\ Siblings(p) \in SUBSET PageNos
  BY <1>1 DEF Siblings, Mapped
<1> QED
  BY <1>1, MapChanges, ExternalChanges, RebuildChanges DEF HostStep

\* They leave the access where it is.
LEMMA ChangesAcc ==
  ASSUME Shaped, NEW touched, Changes(touched)
  PROVE  /\ acc'.pc = acc.pc /\ acc'.kind = acc.kind /\ acc'.a = acc.a /\ acc'.n = acc.n
         /\ acc'.tag = acc.tag /\ acc'.k = acc.k /\ acc'.attempt = acc.attempt
         /\ acc'.ptrs = acc.ptrs /\ acc'.got = acc.got /\ acc'.reports = acc.reports
         /\ acc'.seen = acc.seen /\ acc'.before = heap'
         /\ acc'.stale \in BOOLEAN
         /\ ~acc'.stale => ~acc.stale /\ \A q \in touched : ~Held(q)
         /\ Record'
<1> DEFINE s == acc.stale \/ \E q \in touched : Held(q)
<1>1. acc' = [acc EXCEPT !.stale = s, !.before = heap']
  BY DEF Changes, Disturbs
<1>2. s \in BOOLEAN /\ (~s => ~acc.stale /\ \A q \in touched : ~Held(q))
  OBVIOUS
<1> HIDE DEF s
<1>3. acc'.stale = s
  BY <1>1 DEF Shaped, Record
<1>4. /\ acc'.pc = acc.pc /\ acc'.kind = acc.kind /\ acc'.a = acc.a /\ acc'.n = acc.n
      /\ acc'.tag = acc.tag /\ acc'.k = acc.k /\ acc'.attempt = acc.attempt
      /\ acc'.ptrs = acc.ptrs /\ acc'.got = acc.got /\ acc'.reports = acc.reports
      /\ acc'.seen = acc.seen /\ acc'.before = heap'
  BY <1>1 DEF Shaped, Record
<1>5. Record'
  BY <1>1 DEF Shaped, Record
<1> QED
  BY <1>2, <1>3, <1>4, <1>5

LEMMA TypeKept == TypeOK /\ [Next]_vars => TypeOK'
<1> SUFFICES ASSUME TypeOK, [Next]_vars PROVE TypeOK'
  OBVIOUS
<1> DEFINE Excs == [kind : {"none", "prot", "unmapped", "host"}, cr2 : Nat]
<1>a. Attempts \in Nat \ {0} /\ Sizes \subseteq Nat \ {0} /\ Starts \subseteq Nat
  BY MemAccessAssumption
<1>f. ASSUME Fail, exc' \in Excs, UNCHANGED <<pages, patched, calls>> PROVE TypeOK'
  BY <1>f DEF TypeOK, Fail, Ended
<1>1. ASSUME NEW kind \in Kinds, NEW a \in Starts, NEW n \in Sizes, NEW tag \in Tags,
             Begin(kind, a, n, tag)
      PROVE  TypeOK'
  <2>1. exc' \in Excs
    BY <1>1 DEF Begin, NoExc
  <2>2. Shaped'
    BY <1>1, MemAccessAssumption DEF Begin, Shaped, Record, Fields, InEnd, InInvalid
  <2> QED
    BY <1>1, <2>1, <2>2 DEF TypeOK, Begin
<1>2. CASE ResolveRefused
  BY <1>2, <1>f DEF ResolveRefused, TypeOK
<1>3. CASE ResolveInvalid
  <2>1. Shaped /\ ~InEnd /\ ~InInvalid
    BY <1>3 DEF ResolveInvalid, Resolving, TypeOK, InEnd, InInvalid
  <2>2. Here \in Addrs /\ Here \in Nat
    BY <2>1, HereType
  <2>3. CASE PageFault(Here, "prot") /\ Fail
    BY <1>3, <1>f, <2>2, <2>3, FaultType DEF ResolveInvalid
  <2>4. CASE Status(Here) # "ok" /\ PageFault(Here, Status(Here)) /\ Fail
    BY <1>3, <1>f, <2>2, <2>4, FaultType, StatusType DEF ResolveInvalid
  <2>5. CASE /\ ~RetriesExhausted /\ Status(Here) \in InvalidHooks
             /\ acc' = [acc EXCEPT !.pc = IF @ = "contig" THEN "invalid1" ELSE "invalid2",
                                   !.seen = Status(Here)]
             /\ UNCHANGED <<heap, exc>>
    <3>1. Status(Here) \in {"prot", "unmapped"}
      BY <2>5, MemAccessAssumption
    <3>2. acc.attempt < Attempts
      BY <2>1, <2>5, MemAccessAssumption DEF Shaped, Fields, RetriesExhausted
    <3>3. Shaped'
      BY <2>1, <2>5, <3>1, <3>2 DEF Shaped, Record, Fields, InEnd, InInvalid
    <3> QED
      BY <1>3, <2>5, <3>3 DEF TypeOK, ResolveInvalid
  <2> QED
    BY <1>3, <2>3, <2>4, <2>5 DEF ResolveInvalid
<1>4. CASE ResolveContiguous
  <2>1. Shaped /\ acc.pc = "contig" /\ ~InEnd
    BY <1>4 DEF ResolveContiguous, TypeOK, InEnd
  <2>2. Stride \in Nat \ {0} /\ acc.n \in Nat \ {0}
    BY <2>1, StrideCovers, MemAccessAssumption DEF Shaped, Fields
  <2>3. Shaped'
    <3> DEFINE base == IF acc.k = 0 THEN Ptr(Here) ELSE acc.ptrs[0]
               all == [i \in 0..acc.n-1 |-> base + i]
               more == Extend(acc.ptrs, acc.k, Ptr(Here))
    <3>1. CASE ContiguousDone(all)
      <4> DEFINE got == IF acc.kind = "write" THEN acc.got
                        ELSE [i \in 0..acc.n-1 |-> heap[all[i]]]
      <4>1. acc' = [acc EXCEPT !.pc = "ready", !.ptrs = all, !.got = got]
        BY <3>1 DEF ContiguousDone
      <4> HIDE DEF all, got
      <4>2. Record'
        BY <2>1, <4>1 DEF Shaped, Record
      <4>3. Fields'
        BY <2>1, <4>1 DEF Shaped, Record, Fields, InEnd, InInvalid
      <4> QED
        BY <4>2, <4>3 DEF Shaped
    <3>2. CASE /\ acc.k + Stride < acc.n
               /\ acc' = [acc EXCEPT !.k = @ + Stride, !.attempt = 0, !.ptrs = more]
      <4> HIDE DEF more
      <4>1. Record'
        BY <2>1, <3>2 DEF Shaped, Record
      <4>2. /\ acc'.k = acc.k + Stride /\ acc'.attempt = 0
            /\ acc'.pc = acc.pc /\ acc'.kind = acc.kind /\ acc'.a = acc.a /\ acc'.n = acc.n
            /\ acc'.tag = acc.tag /\ acc'.stale = acc.stale /\ acc'.seen = acc.seen
        BY <2>1, <3>2 DEF Shaped, Record
      <4>3. Fields'
        BY <1>a, <2>1, <2>2, <3>2, <4>2 DEF Shaped, Fields, InEnd, InInvalid
      <4> QED
        BY <4>1, <4>3 DEF Shaped
    <3>3. CASE acc' = [acc EXCEPT !.pc = "split", !.attempt = 0]
      <4>1. Record'
        BY <2>1, <3>3 DEF Shaped, Record
      <4>2. /\ acc'.pc = "split" /\ acc'.attempt = 0
            /\ acc'.k = acc.k /\ acc'.kind = acc.kind /\ acc'.a = acc.a /\ acc'.n = acc.n
            /\ acc'.tag = acc.tag /\ acc'.stale = acc.stale
        BY <2>1, <3>3 DEF Shaped, Record
      <4>3. Fields'
        BY <1>a, <2>1, <4>2 DEF Shaped, Fields, InEnd, InInvalid
      <4> QED
        BY <4>1, <4>3 DEF Shaped
    <3>4. CASE acc' = [acc EXCEPT !.pc = "bytes", !.k = 0, !.attempt = 0,
                                  !.ptrs = [i \in {} |-> 0], !.stale = FALSE]
      <4>1. Record'
        BY <2>1, <3>4 DEF Shaped, Record
      <4>s. acc'.stale \in BOOLEAN
        BY <2>1, <3>4 DEF Shaped, Record
      <4>2. /\ acc'.pc = "bytes" /\ acc'.attempt = 0 /\ acc'.k = 0
            /\ acc'.kind = acc.kind /\ acc'.a = acc.a /\ acc'.n = acc.n /\ acc'.tag = acc.tag
        BY <2>1, <3>4 DEF Shaped, Record
      <4>3. Fields'
        <5>1. acc'.k \in Nat /\ acc'.k < acc'.n
          BY <2>2, <4>2
        <5>2. acc'.attempt \in 0..Attempts
          BY <1>a, <4>2
        <5> QED
          BY <2>1, <4>s, <4>2, <5>1, <5>2 DEF Shaped, Fields, InEnd, InInvalid
      <4> QED
        BY <4>1, <4>3 DEF Shaped
    <3> QED
      BY <1>4, <3>1, <3>2, <3>3, <3>4 DEF ResolveContiguous
  <2> QED
    BY <1>4, <2>3 DEF TypeOK, ResolveContiguous
<1>5. CASE ResolveByte
  <2>1. Shaped /\ acc.pc = "bytes" /\ ~InEnd
    BY <1>5 DEF ResolveByte, TypeOK, InEnd
  <2>2. acc.n \in Nat \ {0}
    BY <2>1, MemAccessAssumption DEF Shaped, Fields
  <2> DEFINE more == Extend(acc.ptrs, acc.k, Ptr(Here))
             got == IF acc.kind = "write" THEN acc.got ELSE Extend(acc.got, acc.k, heap[Ptr(Here)])
  <2>3. acc' = [acc EXCEPT !.k = @ + 1, !.attempt = 0, !.ptrs = more, !.got = got,
                           !.pc = IF acc.k + 1 = acc.n THEN "ready" ELSE "bytes"]
    BY <1>5 DEF ResolveByte
  <2> HIDE DEF more, got
  <2>4. Record'
    BY <2>1, <2>3 DEF Shaped, Record
  <2>5. /\ acc'.pc = (IF acc.k + 1 = acc.n THEN "ready" ELSE "bytes")
        /\ acc'.k = acc.k + 1 /\ acc'.attempt = 0
        /\ acc'.kind = acc.kind /\ acc'.a = acc.a /\ acc'.n = acc.n
        /\ acc'.tag = acc.tag /\ acc'.stale = acc.stale
    BY <2>1, <2>3 DEF Shaped, Record
  <2>6. Fields'
    BY <1>a, <2>1, <2>2, <2>5 DEF Shaped, Fields, InEnd, InInvalid
  <2> QED
    BY <1>5, <2>4, <2>6 DEF TypeOK, ResolveByte, Shaped
<1>6. CASE ReadyToFinish
  <2>1. Shaped /\ acc.pc = "ready"
    BY <1>6 DEF ReadyToFinish, TypeOK
  <2>2. CASE acc' = [acc EXCEPT !.pc = "notify", !.reports = @ + 1] /\ UNCHANGED heap
    <3>1. Shaped'
      BY <2>1, <2>2 DEF Shaped, Record, Fields, InEnd, InInvalid
    <3> QED
      BY <1>6, <2>2, <3>1 DEF TypeOK, ReadyToFinish
  <2>3. CASE Complete
    BY <1>6, <2>1, <2>3, StoredType DEF TypeOK, ReadyToFinish, Complete, Ended
  <2> QED
    BY <1>6, <2>2, <2>3 DEF ReadyToFinish
<1>7. CASE NotifyReturn
  <2>1. Shaped
    BY <1>7 DEF NotifyReturn, TypeOK
  <2> QED
    BY <1>7, <2>1, StoredType DEF TypeOK, NotifyReturn, Complete, Ended
<1>8. ASSUME NEW handled \in BOOLEAN, InvalidHookReturn(handled) PROVE TypeOK'
  <2>1. Shaped /\ ~InEnd /\ InInvalid
    BY <1>8 DEF InvalidHookReturn, TypeOK, InEnd, InInvalid
  <2>2. CASE handled
    <3>1. acc' = [acc EXCEPT !.pc = IF @ = "invalid1" THEN "contig" ELSE "bytes",
                              !.attempt = @ + 1]
      BY <1>8, <2>2 DEF InvalidHookReturn
    <3>2. Record'
      BY <2>1, <3>1 DEF Shaped, Record
    <3>3. /\ acc'.pc = (IF acc.pc = "invalid1" THEN "contig" ELSE "bytes")
          /\ acc'.attempt = acc.attempt + 1
          /\ acc'.k = acc.k /\ acc'.kind = acc.kind /\ acc'.a = acc.a /\ acc'.n = acc.n
          /\ acc'.tag = acc.tag /\ acc'.stale = acc.stale
      BY <2>1, <3>1 DEF Shaped, Record
    <3>4. Fields'
      BY <1>a, <2>1, <3>3 DEF Shaped, Fields, InEnd, InInvalid
    <3> QED
      BY <1>8, <2>2, <3>2, <3>4 DEF TypeOK, InvalidHookReturn, Shaped
  <2>3. CASE ~handled
    <3>1. acc.seen \in {"prot", "unmapped"} /\ Here \in Nat
      BY <2>1, HereType DEF Shaped, Fields
    <3> QED
      BY <1>8, <1>f, <2>3, <3>1, FaultType DEF InvalidHookReturn
  <2> QED
    BY <2>2, <2>3
<1>9. ASSUME NEW handled \in BOOLEAN, SplitReturn(handled) PROVE TypeOK'
  <2>1. Shaped /\ ~InEnd /\ acc.pc = "split"
    BY <1>9 DEF SplitReturn, TypeOK, InEnd
  <2>2. CASE handled
    <3>1. acc' = [acc EXCEPT !.pc = "contig", !.k = 0, !.ptrs = [i \in {} |-> 0],
                              !.stale = FALSE]
      BY <1>9, <2>2 DEF SplitReturn
    <3>2. Record'
      BY <2>1, <3>1 DEF Shaped, Record
    <3>s. acc'.stale \in BOOLEAN
      BY <2>1, <3>1 DEF Shaped, Record
    <3>3. /\ acc'.pc = "contig" /\ acc'.k = 0
          /\ acc'.attempt = acc.attempt /\ acc'.kind = acc.kind /\ acc'.a = acc.a
          /\ acc'.n = acc.n /\ acc'.tag = acc.tag
      BY <2>1, <3>1 DEF Shaped, Record
    <3>4. Fields'
      <4>1. acc'.k \in Nat /\ acc.n \in Nat \ {0}
        BY <1>a, <2>1, <3>3 DEF Shaped, Fields
      <4>2. acc'.k < acc'.n
        BY <3>3, <4>1
      <4> QED
        BY <2>1, <3>s, <3>3, <4>1, <4>2 DEF Shaped, Fields, InEnd, InInvalid
    <3> QED
      BY <1>9, <2>2, <3>2, <3>4 DEF TypeOK, SplitReturn, Shaped
  <2>3. CASE ~handled
    <3>1. Here \in Nat
      BY <2>1, HereType
    <3> QED
      BY <1>9, <1>f, <2>3, <3>1, FaultType DEF SplitReturn
  <2> QED
    BY <2>2, <2>3
<1>10. CASE HostStep
  <2>1. PICK touched \in SUBSET PageNos : Changes(touched)
    BY <1>10, HostChanges
  <2>2. Shaped
    BY <2>1 DEF Changes, InCallback, TypeOK
  <2>3. Shaped'
    BY <2>1, <2>2, ChangesAcc DEF Shaped, Fields, InEnd, InInvalid
  <2>4. calls' \in 0..MaxCalls
    BY <2>1, MemAccessAssumption DEF TypeOK, Changes
  <2> QED
    BY <2>1, <2>3, <2>4 DEF TypeOK, Changes
<1>11. CASE RaiseHost
  <2>1. exc' \in Excs /\ calls' \in 0..MaxCalls
    BY <1>11, MemAccessAssumption DEF RaiseHost, TypeOK
  <2>2. Shaped => Shaped'
    BY <1>11 DEF RaiseHost, Shaped, Record, Fields, InEnd, InInvalid
  <2> QED
    BY <1>11, <2>1, <2>2 DEF TypeOK, RaiseHost
<1>12. CASE UNCHANGED vars
  BY <1>12 DEF TypeOK, vars, Shaped, Record, Fields, InEnd, InInvalid
<1> QED
  BY <1>1, <1>2, <1>3, <1>4, <1>5, <1>6, <1>7, <1>8, <1>9, <1>10, <1>11, <1>12
     DEF Next, AccessNext, HostStep

-----------------------------------------------------------------------------
(* The work done so far                                                    *)

Work == Extent /\ PointersHold /\ ReadSoFar

LEMMA DoneType ==
  ASSUME Shaped
  PROVE  /\ Done \in Nat /\ acc.n \in Nat \ {0} /\ Done <= acc.n /\ acc.a \in Nat
         /\ \A i \in 0..acc.n-1 : acc.a + i \in Addrs
         /\ \A i \in 0..Done-1 : acc.a + i \in Addrs
<1>1. acc.a \in Starts /\ acc.n \in Sizes /\ acc.k \in Nat /\ (~InEnd => acc.k < acc.n)
  BY DEF Shaped, Fields
<1>2. acc.n \in Nat \ {0} /\ acc.a \in Nat
  BY <1>1, MemAccessAssumption
<1>3. Done \in Nat /\ Done <= acc.n
  BY <1>1, <1>2 DEF Done
<1>4. \A i \in 0..acc.n-1 : acc.a + i \in Addrs
  BY <1>1, ByteAddr
<1>5. \A i \in 0..Done-1 : i \in 0..acc.n-1
  BY <1>2, <1>3
<1> QED
  BY <1>2, <1>3, <1>4, <1>5

LEMMA IdleWork ==
  ASSUME acc'.pc = "idle"
  PROVE  NothingYet' /\ Work'
  BY DEF NothingYet, Work, Extent, PointersHold, ReadSoFar

\* A step that resolves nothing, such as a hook that is called or returns.
LEMMA WorkKept ==
  ASSUME Work, acc.pc # "idle", InContig' <=> InContig, InEnd' <=> InEnd,
         UNCHANGED <<pages, patched, heap>>,
         acc'.kind = acc.kind, acc'.a = acc.a, acc'.n = acc.n, acc'.k = acc.k,
         acc'.ptrs = acc.ptrs, acc'.got = acc.got, acc'.stale = acc.stale
  PROVE  Work'
<1>1. Done' = Done
  BY DEF Done
<1>2. \A x : Held(x)' <=> Held(x)
  BY DEF Held, PageOf
<1>3. \A x : Status(x)' = Status(x) /\ Ptr(x)' = Ptr(x) /\ PageOf(x)' = PageOf(x)
  BY DEF Status, Ptr, PageOf
<1>4. Extent'
  BY <1>1, <1>2, <1>3 DEF Work, Extent
<1>5. PointersHold'
  BY <1>1, <1>3 DEF Work, PointersHold
<1>6. ReadSoFar'
  BY <1>1, <1>3 DEF Work, ReadSoFar
<1> QED
  BY <1>4, <1>5, <1>6 DEF Work

\* A pass that begins: nothing is resolved.
LEMMA WorkStarts ==
  ASSUME ~InEnd', acc'.k = 0, acc'.ptrs = [i \in {} |-> 0]
  PROVE  Work'
<1>1. Done' = 0 /\ 0..Done'-1 = {} /\ DOMAIN acc'.ptrs = {}
  BY DEF Done
<1> QED
  BY <1>1 DEF Work, Extent, PointersHold, ReadSoFar

\* The byte after the ones resolved fits: the bytes up to the next one looked at lie
\* behind the first one.
LEMMA Reaches ==
  ASSUME TypeOK, Shaped, Work, acc.pc = "contig", ~acc.stale, Contiguous, Status(Here) = "ok"
  PROVE  /\ Ptr(acc.a) = IF acc.k = 0 THEN Ptr(Here) ELSE acc.ptrs[0]
         /\ \A i \in 0..acc.n-1 : i < acc.k + Stride =>
              Status(acc.a + i) = "ok" /\ Ptr(acc.a + i) = Ptr(acc.a) + i
<1>1. ~InEnd /\ InContig /\ acc.pc # "idle" /\ Done = acc.k
  BY DEF InEnd, InContig, Done
<1>2. acc.k \in Nat /\ acc.n \in Nat \ {0} /\ acc.a \in Nat /\ acc.k < acc.n
  BY <1>1, DoneType DEF Shaped, Fields
<1>3. acc.a \in Addrs /\ acc.a + 0 = acc.a
  BY <1>2, DoneType
<1>4. Ptr(acc.a) \in Int
  BY <1>3, PtrType
<1>5. acc.k # 0 => acc.ptrs[0] = Ptr(acc.a)
  BY <1>1, <1>3 DEF Work, Extent, PointersHold
<1>6. acc.k = 0 => Here = acc.a
  BY <1>3 DEF Here
<1>7. Ptr(Here) = Ptr(acc.a) + acc.k
  BY <1>4, <1>5, <1>6 DEF Contiguous
<1>8. ASSUME NEW i \in 0..acc.n-1, i < acc.k + Stride
      PROVE  Status(acc.a + i) = "ok" /\ Ptr(acc.a + i) = Ptr(acc.a) + i
  <2>1. CASE i < acc.k
    <3>1. i \in 0..Done-1
      BY <1>1, <1>2, <2>1
    <3> QED
      BY <1>1, <3>1 DEF Work, PointersHold
  <2>2. CASE acc.k <= i
    <3> DEFINE j == i - acc.k
    <3>1. Stride \in Nat \ {0}
      BY <1>1, StrideCovers
    <3>2. j \in 0..Stride-1 /\ Here + j = acc.a + i /\ acc.k + j = i
      BY <1>2, <1>8, <2>2, <3>1 DEF Here
    <3>3. Here + j \in Addrs
      BY <3>2, DoneType
    <3> HIDE DEF j
    <3>4. Status(Here + j) = Status(Here) /\ Ptr(Here + j) = Ptr(Here) + j
      BY <1>1, <3>2, <3>3, StrideCovers
    <3>5. j \in Int
      BY <3>1, <3>2
    <3> QED
      BY <1>2, <1>4, <1>7, <3>2, <3>4, <3>5
  <2> QED
    BY <1>2, <2>1, <2>2
<1> QED
  BY <1>5, <1>6, <1>8

\* The contiguous pass ends: one pointer stands for all bytes.
LEMMA WorkContiguous ==
  ASSUME TypeOK, Shaped, Work, acc.pc = "contig", Contiguous, Status(Here) = "ok",
         acc.k + Stride >= acc.n, UNCHANGED <<pages, patched, heap>>,
         ContiguousDone([i \in 0..acc.n-1 |->
                           (IF acc.k = 0 THEN Ptr(Here) ELSE acc.ptrs[0]) + i])
  PROVE  Work' /\ (NothingYet => NothingYet')
<1> DEFINE base == IF acc.k = 0 THEN Ptr(Here) ELSE acc.ptrs[0]
           all == [i \in 0..acc.n-1 |-> base + i]
           got == IF acc.kind = "write" THEN acc.got ELSE [i \in 0..acc.n-1 |-> heap[all[i]]]
<1>1. acc' = [acc EXCEPT !.pc = "ready", !.ptrs = all, !.got = got]
  BY DEF ContiguousDone
<1>2. DOMAIN all = 0..acc.n-1 /\ \A i \in 0..acc.n-1 : all[i] = base + i
  OBVIOUS
<1>3. acc.kind # "write" => DOMAIN got = 0..acc.n-1 /\ \A i \in 0..acc.n-1 : got[i] = heap[all[i]]
  OBVIOUS
<1>4. /\ acc'.pc = "ready" /\ acc'.kind = acc.kind /\ acc'.a = acc.a /\ acc'.n = acc.n
      /\ acc'.ptrs = all /\ acc'.got = got /\ (acc'.stale <=> acc.stale)
      /\ acc'.before = acc.before /\ acc'.reports = acc.reports
  <2> HIDE DEF all, got
  <2> QED
    BY <1>1 DEF Shaped, Record
<1>5. ~acc.stale => \A i \in 0..acc.n-1 : Status(acc.a + i) = "ok" /\ Ptr(acc.a + i) = base + i
  <2>1. acc.n \in Nat /\ acc.k \in Nat /\ Stride \in Nat
    BY DoneType, StrideCovers DEF Shaped, Fields, InEnd
  <2>2. \A i \in 0..acc.n-1 : i < acc.k + Stride
    BY <2>1
  <2> QED
    BY <2>2, Reaches
<1> HIDE DEF all, got, base
<1>6. Done' = acc.n /\ ~InContig' /\ acc.pc # "notify"
  BY <1>4 DEF Done, InEnd, InContig
<1>7. \A x : Status(x)' = Status(x) /\ Ptr(x)' = Ptr(x) /\ PageOf(x)' = PageOf(x)
  BY DEF Status, Ptr, PageOf
<1>8. Extent'
  <2>1. \A i \in 0..acc.n-1 : Held(PageOf(acc.a + i))'
    BY <1>2, <1>4 DEF Held, PageOf
  <2> QED
    BY <1>2, <1>4, <1>6, <2>1 DEF Extent, PageOf
<1>9. PointersHold'
  BY <1>2, <1>4, <1>5, <1>6, <1>7 DEF PointersHold
<1>10. ReadSoFar'
  BY <1>2, <1>3, <1>4, <1>5, <1>6, <1>7 DEF ReadSoFar
<1>11. NothingYet => NothingYet'
  BY <1>4, <1>6 DEF NothingYet
<1> QED
  BY <1>8, <1>9, <1>10, <1>11 DEF Work

\* The contiguous pass goes on to the next page.
LEMMA WorkNextPage ==
  ASSUME TypeOK, Shaped, Work, acc.pc = "contig", Contiguous, Status(Here) = "ok",
         acc.k + Stride < acc.n, UNCHANGED <<pages, patched, heap>>,
         acc' = [acc EXCEPT !.k = @ + Stride, !.attempt = 0,
                            !.ptrs = Extend(@, acc.k, Ptr(Here))]
  PROVE  Work' /\ (NothingYet => NothingYet')
<1> DEFINE more == Extend(acc.ptrs, acc.k, Ptr(Here))
<1>1. /\ DOMAIN more = DOMAIN acc.ptrs \cup {acc.k}
      /\ \A i \in DOMAIN more : more[i] = IF i = acc.k THEN Ptr(Here) ELSE acc.ptrs[i]
  BY DEF Extend
<1>2. acc' = [acc EXCEPT !.k = @ + Stride, !.attempt = 0, !.ptrs = more]
  OBVIOUS
<1> HIDE DEF more
<1>3. /\ acc'.pc = "contig" /\ acc'.kind = acc.kind /\ acc'.a = acc.a /\ acc'.n = acc.n
      /\ acc'.k = acc.k + Stride /\ acc'.ptrs = more /\ (acc'.stale <=> acc.stale)
      /\ acc'.before = acc.before /\ acc'.reports = acc.reports
  BY <1>2 DEF Shaped, Record
<1>4. acc.k \in Nat /\ acc.n \in Nat /\ Stride \in Nat \ {0} /\ acc.k < acc.n /\ acc.a \in Nat
  BY DoneType, StrideCovers DEF Shaped, Fields, InEnd
<1>5. Done = acc.k /\ Done' = acc.k + Stride /\ InContig /\ InContig' /\ ~InEnd
  BY <1>3 DEF Done, InEnd, InContig
<1>6. \A i \in 0..Done'-1 : i \in 0..acc.n-1 /\ i < acc.k + Stride
  BY <1>4, <1>5
<1>7. \A x : Status(x)' = Status(x) /\ Ptr(x)' = Ptr(x) /\ PageOf(x)' = PageOf(x)
  BY DEF Status, Ptr, PageOf
<1>8. Extent'
  <2>1. \A i \in DOMAIN more : i \in 0..Done'-1
    <3>1. \A i \in DOMAIN acc.ptrs : i \in 0..acc.k-1
      BY <1>5 DEF Work, Extent
    <3> QED
      BY <1>1, <1>4, <1>5, <3>1
  <2>2. ASSUME NEW i \in 0..Done'-1
        PROVE  \E h \in DOMAIN more : PageOf(acc.a + h) = PageOf(acc.a + i)
    <3>1. CASE i < acc.k
      <4>1. i \in 0..Done-1
        BY <1>4, <1>5, <1>6, <2>2, <3>1
      <4> QED
        BY <1>1, <4>1 DEF Work, Extent, Held
    <3>2. CASE acc.k <= i
      <4> DEFINE j == i - acc.k
      <4>1. j \in 0..Stride-1 /\ Here + j = acc.a + i
        BY <1>4, <1>5, <2>2, <3>2 DEF Here
      <4>2. acc.a + i \in Addrs
        BY <1>6, <2>2, DoneType
      <4> HIDE DEF j
      <4>3. PageOf(acc.a + i) = PageOf(Here)
        BY <1>5, <4>1, <4>2, StrideCovers
      <4> QED
        BY <1>1, <4>3 DEF Here
    <3> QED
      BY <1>4, <1>6, <2>2, <3>1, <3>2
  <2>3. 0 \in DOMAIN more
    BY <1>1, <1>5 DEF Work, Extent
  <2>4. \A i \in 0..Done'-1 : Held(PageOf(acc.a + i))'
    BY <1>3, <2>2 DEF Held, PageOf
  <2> QED
    BY <1>3, <1>5, <2>1, <2>3, <2>4 DEF Extent, PageOf
<1>9. PointersHold'
  <2> SUFFICES ASSUME ~acc'.stale
               PROVE  /\ \A i \in 0..Done'-1 : Status(acc.a + i) = "ok"
                      /\ \A i \in DOMAIN more : more[i] = Ptr(acc.a + i)
                      /\ \A i \in 0..Done'-1 : Ptr(acc.a + i) = Ptr(acc.a) + i
    BY <1>3, <1>5, <1>7 DEF PointersHold
  <2>1. ~acc.stale
    BY <1>3
  <2>2. \A i \in DOMAIN acc.ptrs : acc.ptrs[i] = Ptr(acc.a + i)
    BY <2>1 DEF Work, PointersHold
  <2>3. \A i \in DOMAIN more : more[i] = Ptr(acc.a + i)
    BY <1>1, <2>2 DEF Here
  <2> QED
    BY <1>6, <2>1, <2>3, Reaches
<1>10. ReadSoFar'
  BY <1>5 DEF ReadSoFar
<1>11. NothingYet => NothingYet'
  BY <1>3 DEF NothingYet
<1> QED
  BY <1>8, <1>9, <1>10, <1>11 DEF Work

\* One byte of the byte-by-byte pass.
LEMMA WorkByte ==
  ASSUME TypeOK, Shaped, Work, ResolveByte
  PROVE  Work' /\ (NothingYet => NothingYet')
<1> DEFINE more == Extend(acc.ptrs, acc.k, Ptr(Here))
           took == Extend(acc.got, acc.k, heap[Ptr(Here)])
           got == IF acc.kind = "write" THEN acc.got ELSE took
<1>1. /\ DOMAIN more = DOMAIN acc.ptrs \cup {acc.k}
      /\ \A i \in DOMAIN more : more[i] = IF i = acc.k THEN Ptr(Here) ELSE acc.ptrs[i]
  BY DEF Extend
<1>2. /\ DOMAIN took = DOMAIN acc.got \cup {acc.k}
      /\ \A i \in DOMAIN took : took[i] = IF i = acc.k THEN heap[Ptr(Here)] ELSE acc.got[i]
  BY DEF Extend
<1>3. /\ acc' = [acc EXCEPT !.k = @ + 1, !.attempt = 0, !.ptrs = more, !.got = got,
                            !.pc = IF acc.k + 1 = acc.n THEN "ready" ELSE "bytes"]
      /\ UNCHANGED <<pages, patched, heap>> /\ acc.pc = "bytes" /\ Status(Here) = "ok"
  BY DEF ResolveByte, ResolvesOk
<1>4. acc.kind # "write" => got = took
  OBVIOUS
<1> HIDE DEF more, took, got
<1>5. /\ acc'.pc = (IF acc.k + 1 = acc.n THEN "ready" ELSE "bytes")
      /\ acc'.kind = acc.kind /\ acc'.a = acc.a /\ acc'.n = acc.n /\ acc'.k = acc.k + 1
      /\ acc'.ptrs = more /\ acc'.got = got /\ (acc'.stale <=> acc.stale)
      /\ acc'.before = acc.before /\ acc'.reports = acc.reports
  BY <1>3 DEF Shaped, Record
<1>6. acc.k \in Nat /\ acc.n \in Nat
  BY DoneType DEF Shaped, Fields
<1>7. Done = acc.k /\ Done' = acc.k + 1 /\ ~InContig /\ ~InContig' /\ acc.pc # "idle"
  BY <1>3, <1>5 DEF Done, InEnd, InContig
<1>8. 0..Done'-1 = 0..acc.k-1 \cup {acc.k} /\ acc.k \notin 0..acc.k-1
  BY <1>6, <1>7
<1>9. \A x : Status(x)' = Status(x) /\ Ptr(x)' = Ptr(x) /\ PageOf(x)' = PageOf(x)
  BY <1>3 DEF Status, Ptr, PageOf
<1>10. DOMAIN acc.ptrs = 0..acc.k-1
  BY <1>7 DEF Work, Extent
<1>11. Extent'
  <2>1. DOMAIN more = 0..Done'-1
    BY <1>1, <1>8, <1>10
  <2>2. \A i \in 0..Done'-1 : Held(PageOf(acc.a + i))'
    BY <1>5, <2>1 DEF Held, PageOf
  <2> QED
    BY <1>5, <1>7, <2>1, <2>2 DEF Extent, PageOf
<1>12. PointersHold'
  <2> SUFFICES ASSUME ~acc'.stale
               PROVE  /\ \A i \in 0..Done'-1 : Status(acc.a + i) = "ok"
                      /\ \A i \in DOMAIN more : more[i] = Ptr(acc.a + i)
    BY <1>5, <1>7, <1>9 DEF PointersHold
  <2>1. /\ \A i \in 0..acc.k-1 : Status(acc.a + i) = "ok"
        /\ \A i \in DOMAIN acc.ptrs : acc.ptrs[i] = Ptr(acc.a + i)
    BY <1>5, <1>7 DEF Work, PointersHold
  <2> QED
    BY <1>1, <1>3, <1>8, <2>1 DEF Here
<1>13. ReadSoFar'
  <2> SUFFICES ASSUME acc.kind # "write"
               PROVE  /\ \A i \in 0..Done'-1 : i \in DOMAIN took
                      /\ ~acc.stale => \A i \in 0..Done'-1 : took[i] = heap[Ptr(acc.a + i)]
    BY <1>3, <1>4, <1>5, <1>9 DEF ReadSoFar
  <2>1. /\ \A i \in 0..acc.k-1 : i \in DOMAIN acc.got
        /\ ~acc.stale => \A i \in 0..acc.k-1 : acc.got[i] = heap[Ptr(acc.a + i)]
    BY <1>7 DEF Work, ReadSoFar
  <2>2. \A i \in 0..Done'-1 : i \in DOMAIN took
    BY <1>2, <1>8, <2>1
  <2>3. ASSUME ~acc.stale, NEW i \in 0..Done'-1 PROVE took[i] = heap[Ptr(acc.a + i)]
    BY <1>2, <1>8, <2>1, <2>2, <2>3 DEF Here
  <2> QED
    BY <2>2, <2>3
<1>14. NothingYet => NothingYet'
  BY <1>3, <1>5 DEF NothingYet
<1> QED
  BY <1>11, <1>12, <1>13, <1>14 DEF Work

\* A callback changes pages: those it does not touch keep their frames and their bytes,
\* so what is resolved stands unless a page with a pointer into it is touched.
LEMMA WorkChange ==
  ASSUME TypeOK, Shaped, Work, NEW touched \in SUBSET PageNos, Changes(touched)
  PROVE  Work' /\ (NothingYet => NothingYet')
<1>3. /\ acc'.pc = acc.pc /\ acc'.kind = acc.kind /\ acc'.a = acc.a /\ acc'.n = acc.n
      /\ acc'.k = acc.k /\ acc'.ptrs = acc.ptrs /\ acc'.got = acc.got
      /\ acc'.before = heap' /\ acc'.reports = acc.reports
  BY ChangesAcc
<1>4. ~acc'.stale => ~acc.stale /\ \A q \in touched : ~Held(q)
  BY ChangesAcc
<1>5. Done' = Done /\ (InContig' <=> InContig) /\ acc.pc # "idle"
  BY <1>3 DEF Done, InContig, InEnd, Shaped, Fields
<1>6. ASSUME ~acc'.stale, NEW i \in 0..Done-1
      PROVE  /\ Status(acc.a + i)' = Status(acc.a + i) /\ Ptr(acc.a + i)' = Ptr(acc.a + i)
             /\ heap'[Ptr(acc.a + i)] = heap[Ptr(acc.a + i)]
  <2>1. acc.a + i \in Addrs
    BY <1>6, DoneType
  <2>2. PageOf(acc.a + i) \notin touched /\ PageOf(acc.a + i) \in PageNos
    BY <1>4, <1>5, <1>6, <2>1, PageOfType DEF Work, Extent
  <2>3. pages'[PageOf(acc.a + i)] = pages[PageOf(acc.a + i)] /\ patched' = patched
    BY <2>2 DEF Changes
  <2>4. Status(acc.a + i) = "ok"
    BY <1>4, <1>5, <1>6 DEF Work, PointersHold
  <2>5. Ptr(acc.a + i) \in Pointers /\ Ptr(acc.a + i) \div PageSize \notin FreeFrames
    BY <2>1, <2>4, PtrType, InUse
  <2>6. heap'[Ptr(acc.a + i)] = heap[Ptr(acc.a + i)]
    BY <2>5 DEF Changes
  <2> QED
    BY <1>3, <2>3, <2>6 DEF Status, Ptr, PageOf
<1>7. Extent'
  <2>1. \A x : Held(x)' <=> Held(x)
    BY <1>3 DEF Held, PageOf
  <2> QED
    BY <1>3, <1>5, <2>1 DEF Work, Extent, PageOf
<1>8. PointersHold'
  <2> SUFFICES ASSUME ~acc'.stale
               PROVE  /\ \A i \in 0..Done-1 : Status(acc.a + i)' = "ok"
                      /\ \A i \in DOMAIN acc.ptrs : acc.ptrs[i] = Ptr(acc.a + i)'
                      /\ InContig => \A i \in 0..Done-1 : Ptr(acc.a + i)' = Ptr(acc.a)' + i
    BY <1>3, <1>5 DEF PointersHold
  <2>1. /\ \A i \in 0..Done-1 : Status(acc.a + i) = "ok"
        /\ \A i \in DOMAIN acc.ptrs : acc.ptrs[i] = Ptr(acc.a + i)
        /\ InContig => \A i \in 0..Done-1 : Ptr(acc.a + i) = Ptr(acc.a) + i
    BY <1>4, <1>5 DEF Work, PointersHold
  <2>2. \A i \in DOMAIN acc.ptrs : i \in 0..Done-1
    BY <1>5 DEF Work, Extent
  <2>3. 0 \in 0..Done-1 => Ptr(acc.a)' = Ptr(acc.a)
    <3>1. acc.a + 0 = acc.a
      BY DoneType
    <3>2. 0 \in 0..Done-1 => Ptr(acc.a + 0)' = Ptr(acc.a + 0)
      BY <1>6
    <3>3. (acc.a + 0)' = acc.a'
      BY <1>3, <3>1
    <3> QED
      BY <1>3, <3>1, <3>2, <3>3 DEF Ptr, PageOf
  <2>4. \A i \in 0..Done-1 : 0 \in 0..Done-1
    BY DoneType
  <2> QED
    BY <1>6, <2>1, <2>2, <2>3, <2>4
<1>9. ReadSoFar'
  BY <1>3, <1>4, <1>5, <1>6 DEF Work, ReadSoFar
<1>10. NothingYet => NothingYet'
  BY <1>3, <1>5 DEF NothingYet
<1> QED
  BY <1>7, <1>8, <1>9, <1>10 DEF Work

-----------------------------------------------------------------------------
(* The inductive invariant                                                 *)

LEMMA InvInit == Init => Inv
<1> SUFFICES ASSUME Init PROVE Inv
  OBVIOUS
<1>1. acc.pc = "idle"
  BY DEF Init, Ended
<1> QED
  BY <1>1, TypeInit DEF Inv, NothingYet, Extent, PointersHold, ReadSoFar

LEMMA InvKept == Inv /\ [Next]_vars => Inv'
<1> SUFFICES ASSUME Inv, [Next]_vars PROVE NothingYet' /\ Work'
  BY TypeKept DEF Inv, Work
<1>t. TypeOK /\ NothingYet /\ Work
  BY DEF Inv, Work
<1>f. ASSUME Fail PROVE NothingYet' /\ Work'
  BY <1>f, IdleWork DEF Fail, Ended
<1>c. ASSUME Complete PROVE NothingYet' /\ Work'
  BY <1>c, IdleWork DEF Complete, Ended
<1>1. ASSUME NEW kind \in Kinds, NEW a \in Starts, NEW n \in Sizes, NEW tag \in Tags,
             Begin(kind, a, n, tag)
      PROVE  NothingYet' /\ Work'
  <2>1. /\ acc'.pc = "contig" /\ acc'.k = 0 /\ acc'.ptrs = [i \in {} |-> 0]
        /\ acc'.before = heap /\ acc'.reports = 0 /\ heap' = heap
    BY <1>1 DEF Begin
  <2>2. ~InEnd'
    BY <2>1 DEF InEnd
  <2> QED
    BY <2>1, <2>2, WorkStarts DEF NothingYet
<1>2. CASE ResolveRefused
  BY <1>2, <1>f DEF ResolveRefused
<1>3. CASE ResolveInvalid
  <2>1. acc.pc \in {"contig", "bytes"} /\ Shaped
    BY <1>t, <1>3 DEF ResolveInvalid, Resolving, TypeOK
  <2>2. CASE Fail
    BY <1>f, <2>2
  <2>3. CASE /\ acc' = [acc EXCEPT !.pc = IF @ = "contig" THEN "invalid1" ELSE "invalid2",
                                   !.seen = Status(Here)]
             /\ UNCHANGED <<heap, exc>>
    <3>1. /\ acc'.pc = (IF acc.pc = "contig" THEN "invalid1" ELSE "invalid2")
          /\ acc'.kind = acc.kind /\ acc'.a = acc.a /\ acc'.n = acc.n /\ acc'.k = acc.k
          /\ acc'.ptrs = acc.ptrs /\ acc'.got = acc.got /\ acc'.stale = acc.stale
          /\ acc'.before = acc.before /\ acc'.reports = acc.reports
      BY <2>1, <2>3 DEF Shaped, Record
    <3>2. (InContig' <=> InContig) /\ (InEnd' <=> InEnd) /\ UNCHANGED <<pages, patched, heap>>
      BY <1>3, <2>1, <2>3, <3>1 DEF InContig, InEnd, ResolveInvalid
    <3>3. NothingYet'
      BY <1>t, <2>1, <3>1, <3>2 DEF NothingYet
    <3> QED
      BY <1>t, <2>1, <3>1, <3>2, <3>3, WorkKept
  <2> QED
    BY <1>3, <2>2, <2>3 DEF ResolveInvalid
<1>4. CASE ResolveContiguous
  <2>1. /\ acc.pc = "contig" /\ Shaped /\ Status(Here) = "ok"
        /\ UNCHANGED <<pages, patched, heap>>
    BY <1>t, <1>4 DEF ResolveContiguous, ResolvesOk, TypeOK
  <2>2. CASE /\ Contiguous /\ acc.k + Stride >= acc.n
             /\ ContiguousDone([i \in 0..acc.n-1 |->
                                  (IF acc.k = 0 THEN Ptr(Here) ELSE acc.ptrs[0]) + i])
    BY <1>t, <2>1, <2>2, WorkContiguous
  <2>3. CASE /\ Contiguous /\ acc.k + Stride < acc.n
             /\ acc' = [acc EXCEPT !.k = @ + Stride, !.attempt = 0,
                                   !.ptrs = Extend(@, acc.k, Ptr(Here))]
    BY <1>t, <2>1, <2>3, WorkNextPage
  <2>4. CASE acc' = [acc EXCEPT !.pc = "split", !.attempt = 0]
    <3>1. /\ acc'.pc = "split"
          /\ acc'.kind = acc.kind /\ acc'.a = acc.a /\ acc'.n = acc.n /\ acc'.k = acc.k
          /\ acc'.ptrs = acc.ptrs /\ acc'.got = acc.got /\ acc'.stale = acc.stale
          /\ acc'.before = acc.before /\ acc'.reports = acc.reports
      BY <2>1, <2>4 DEF Shaped, Record
    <3>2. (InContig' <=> InContig) /\ (InEnd' <=> InEnd)
      BY <2>1, <3>1 DEF InContig, InEnd
    <3>3. NothingYet'
      BY <1>t, <2>1, <3>1 DEF NothingYet
    <3> QED
      BY <1>t, <2>1, <3>1, <3>2, <3>3, WorkKept
  <2>5. CASE acc' = [acc EXCEPT !.pc = "bytes", !.k = 0, !.attempt = 0,
                                !.ptrs = [i \in {} |-> 0], !.stale = FALSE]
    <3>1. /\ acc'.pc = "bytes" /\ acc'.k = 0 /\ acc'.ptrs = [i \in {} |-> 0]
          /\ acc'.before = acc.before /\ acc'.reports = acc.reports
      BY <2>1, <2>5 DEF Shaped, Record
    <3>2. ~InEnd' /\ NothingYet'
      BY <1>t, <2>1, <3>1 DEF InEnd, NothingYet
    <3> QED
      BY <3>1, <3>2, WorkStarts
  <2> QED
    BY <1>4, <2>2, <2>3, <2>4, <2>5 DEF ResolveContiguous
<1>5. CASE ResolveByte
  <2>1. Shaped
    BY <1>t, <1>5 DEF ResolveByte, TypeOK
  <2> QED
    BY <1>t, <1>5, <2>1, WorkByte
<1>6. CASE ReadyToFinish
  <2>1. acc.pc = "ready" /\ Shaped /\ UNCHANGED <<pages, patched>>
    BY <1>t, <1>6 DEF ReadyToFinish, TypeOK
  <2>2. CASE acc' = [acc EXCEPT !.pc = "notify", !.reports = @ + 1] /\ UNCHANGED heap
    <3>1. /\ acc'.pc = "notify" /\ acc'.reports = acc.reports + 1
          /\ acc'.kind = acc.kind /\ acc'.a = acc.a /\ acc'.n = acc.n /\ acc'.k = acc.k
          /\ acc'.ptrs = acc.ptrs /\ acc'.got = acc.got /\ acc'.stale = acc.stale
          /\ acc'.before = acc.before
      BY <2>1, <2>2 DEF Shaped, Record
    <3>2. (InContig' <=> InContig) /\ (InEnd' <=> InEnd)
      BY <2>1, <3>1 DEF InContig, InEnd
    <3>3. NothingYet'
      BY <1>t, <2>1, <2>2, <3>1 DEF NothingYet
    <3> QED
      BY <1>t, <2>1, <2>2, <3>1, <3>2, <3>3, WorkKept
  <2>3. CASE Complete
    BY <1>c, <2>3
  <2> QED
    BY <1>6, <2>2, <2>3 DEF ReadyToFinish
<1>7. CASE NotifyReturn
  BY <1>7, <1>c DEF NotifyReturn
<1>8. ASSUME NEW handled \in BOOLEAN, InvalidHookReturn(handled) PROVE NothingYet' /\ Work'
  <2>1. /\ acc.pc \in {"invalid1", "invalid2"} /\ Shaped /\ UNCHANGED <<pages, patched>>
    BY <1>t, <1>8 DEF InvalidHookReturn, TypeOK
  <2>2. CASE handled
    <3>1. /\ acc' = [acc EXCEPT !.pc = IF @ = "invalid1" THEN "contig" ELSE "bytes",
                                !.attempt = @ + 1]
          /\ heap' = heap
      BY <1>8, <2>2 DEF InvalidHookReturn
    <3>2. /\ acc'.pc = (IF acc.pc = "invalid1" THEN "contig" ELSE "bytes")
          /\ acc'.kind = acc.kind /\ acc'.a = acc.a /\ acc'.n = acc.n /\ acc'.k = acc.k
          /\ acc'.ptrs = acc.ptrs /\ acc'.got = acc.got /\ acc'.stale = acc.stale
          /\ acc'.before = acc.before /\ acc'.reports = acc.reports
      BY <2>1, <3>1 DEF Shaped, Record
    <3>3. (InContig' <=> InContig) /\ (InEnd' <=> InEnd)
      BY <2>1, <3>2 DEF InContig, InEnd
    <3>4. NothingYet'
      BY <1>t, <2>1, <3>1, <3>2 DEF NothingYet
    <3> QED
      BY <1>t, <2>1, <3>1, <3>2, <3>3, <3>4, WorkKept
  <2>3. CASE ~handled
    BY <1>8, <1>f, <2>3 DEF InvalidHookReturn
  <2> QED
    BY <2>2, <2>3
<1>9. ASSUME NEW handled \in BOOLEAN, SplitReturn(handled) PROVE NothingYet' /\ Work'
  <2>1. acc.pc = "split" /\ Shaped
    BY <1>t, <1>9 DEF SplitReturn, TypeOK
  <2>2. CASE handled
    <3>1. /\ acc' = [acc EXCEPT !.pc = "contig", !.k = 0, !.ptrs = [i \in {} |-> 0],
                                !.stale = FALSE]
          /\ heap' = heap
      BY <1>9, <2>2 DEF SplitReturn
    <3>2. /\ acc'.pc = "contig" /\ acc'.k = 0 /\ acc'.ptrs = [i \in {} |-> 0]
          /\ acc'.before = acc.before /\ acc'.reports = acc.reports
      BY <2>1, <3>1 DEF Shaped, Record
    <3>3. ~InEnd' /\ NothingYet'
      BY <1>t, <2>1, <3>1, <3>2 DEF InEnd, NothingYet
    <3> QED
      BY <3>2, <3>3, WorkStarts
  <2>3. CASE ~handled
    BY <1>9, <1>f, <2>3 DEF SplitReturn
  <2> QED
    BY <2>2, <2>3
<1>10. CASE HostStep
  <2>1. PICK touched \in SUBSET PageNos : Changes(touched)
    BY <1>t, <1>10, HostChanges
  <2>2. Shaped
    BY <1>t, <2>1 DEF Changes, InCallback, TypeOK
  <2> QED
    BY <1>t, <2>1, <2>2, WorkChange
<1>11. ASSUME UNCHANGED <<pages, patched, heap, acc>> PROVE NothingYet' /\ Work'
  <2>1. (InContig' <=> InContig) /\ (InEnd' <=> InEnd)
    BY <1>11 DEF InContig, InEnd
  <2>2. NothingYet'
    BY <1>t, <1>11 DEF NothingYet
  <2>3. CASE acc.pc = "idle"
    BY <1>11, <2>3, IdleWork
  <2>4. CASE acc.pc # "idle"
    BY <1>t, <1>11, <2>1, <2>2, <2>4, WorkKept
  <2> QED
    BY <2>3, <2>4
<1>12. CASE RaiseHost
  BY <1>11, <1>12 DEF RaiseHost
<1>13. CASE UNCHANGED vars
  BY <1>11, <1>13 DEF vars
<1> QED
  BY <1>1, <1>2, <1>3, <1>4, <1>5, <1>6, <1>7, <1>8, <1>9, <1>10, <1>12, <1>13
     DEF Next, AccessNext, HostStep

\* memory.hpp: what every step of an access keeps, for every page size, layout and hooks.
LEMMA AccessInvariant == Spec => []Inv
  BY InvInit, InvKept, PTL DEF Spec

-----------------------------------------------------------------------------
(* How an access ends                                                      *)

\* The steps that end an access: it fails and stores nothing, or all of its bytes are
\* resolved and it completes.
LEMMA Endings ==
  ASSUME Inv, Next, Finishes
  PROVE  /\ Shaped
         /\ \/ Fail /\ ~InEnd
            \/ Complete /\ InEnd /\ (acc.pc = "ready" => ~(Notify /\ acc.kind # "locked"))
<1>1. acc.pc # "idle" /\ acc'.pc = "idle" /\ TypeOK
  BY DEF Finishes, Inv
<1>2. Shaped
  BY <1>1 DEF TypeOK
<1>4. ASSUME NEW kind \in Kinds, NEW a \in Starts, NEW n \in Sizes, NEW tag \in Tags,
             Begin(kind, a, n, tag)
      PROVE  FALSE
  BY <1>1, <1>4 DEF Begin
<1>5. CASE ResolveRefused
  BY <1>2, <1>5 DEF ResolveRefused, InEnd
<1>6. CASE ResolveInvalid
  BY <1>1, <1>2, <1>6 DEF ResolveInvalid, Resolving, InEnd, Shaped, Record
<1>7. CASE ResolveContiguous
  <2>1. acc'.pc \in {"ready", "contig", "split", "bytes"}
    BY <1>2, <1>7 DEF ResolveContiguous, ContiguousDone, Shaped, Record
  <2> QED
    BY <1>1, <2>1
<1>8. CASE ResolveByte
  <2>1. acc'.pc \in {"ready", "bytes"}
    BY <1>2, <1>8 DEF ResolveByte, Shaped, Record
  <2> QED
    BY <1>1, <2>1
<1>9. CASE ReadyToFinish
  <2>1. acc.pc = "ready" /\ InEnd
    BY <1>9 DEF ReadyToFinish, InEnd
  <2>2. CASE Notify /\ acc.kind # "locked"
    <3>1. acc'.pc = "notify"
      BY <1>2, <1>9, <2>2 DEF ReadyToFinish, Shaped, Record
    <3> QED
      BY <1>1, <3>1
  <2>3. CASE ~(Notify /\ acc.kind # "locked")
    BY <1>2, <1>9, <2>1, <2>3 DEF ReadyToFinish
  <2> QED
    BY <2>2, <2>3
<1>10. CASE NotifyReturn
  BY <1>2, <1>10 DEF NotifyReturn, InEnd
<1>11. ASSUME NEW handled \in BOOLEAN, InvalidHookReturn(handled) PROVE Fail /\ ~InEnd
  BY <1>1, <1>2, <1>11 DEF InvalidHookReturn, InEnd, Shaped, Record
<1>12. ASSUME NEW handled \in BOOLEAN, SplitReturn(handled) PROVE Fail /\ ~InEnd
  BY <1>1, <1>2, <1>12 DEF SplitReturn, InEnd, Shaped, Record
<1>13. ASSUME HostStep PROVE FALSE
  <2>1. PICK touched \in SUBSET PageNos : Changes(touched)
    BY <1>1, <1>13, HostChanges
  <2>2. acc'.pc = acc.pc
    BY <1>2, <2>1, ChangesAcc
  <2> QED
    BY <1>1, <2>2
<1>14. CASE RaiseHost
  BY <1>1, <1>14 DEF RaiseHost
<1> QED
  BY <1>2, <1>4, <1>5, <1>6, <1>7, <1>8, <1>9, <1>10, <1>11, <1>12, <1>13, <1>14
     DEF Next, AccessNext, HostStep

\* An access that completes, unless a callback took a page away, holds the pointer of
\* every byte.
LEMMA AllResolved ==
  ASSUME Inv, Shaped, InEnd, ~acc.stale, NEW i \in 0..acc.n-1
  PROVE  acc.ptrs[i] = Ptr(acc.a + i) /\ Ptr(acc.a + i) \in Pointers
<1>1. Done = acc.n /\ ~InContig /\ acc.pc # "idle"
  BY DEF InEnd, Done, InContig
<1>2. i \in DOMAIN acc.ptrs
  BY <1>1 DEF Inv, Extent
<1>3. acc.a + i \in Addrs
  BY DoneType
<1> QED
  BY <1>1, <1>2, <1>3, PtrType DEF Inv, PointersHold

\* write_memory_*: every write of several bytes stores all of them where the guest finds
\* them, or none, however its bytes are spread and whatever the callbacks do to pages it
\* does not hold yet.
THEOREM WritesWhole == Spec => AllOrNothing
<1>1. ASSUME Inv, Next, Finishes, acc.kind # "read", ~acc.stale
      PROVE  IF acc'.result = "ok"
             THEN \A x \in acc.a..acc.a+acc.n-1 : heap'[Ptr(x)] = acc.tag
             ELSE heap' = acc.before
  <2>1. Shaped
    BY <1>1, Endings
  <2>2. CASE Fail
    BY <1>1, <2>2 DEF Fail, Ended, Inv, NothingYet, Finishes
  <2>3. CASE Complete /\ InEnd
    <3>1. acc'.result = "ok" /\ heap' = Stored
      BY <2>3 DEF Complete, Ended
    <3>2. ASSUME NEW x \in acc.a..acc.a+acc.n-1 PROVE heap'[Ptr(x)] = acc.tag
      <4> DEFINE i == x - acc.a
      <4>1. i \in 0..acc.n-1 /\ acc.a + i = x
        BY <2>1, <3>2, DoneType
      <4> HIDE DEF i
      <4>2. acc.ptrs[i] = Ptr(x) /\ Ptr(x) \in Pointers
        BY <1>1, <2>1, <2>3, <4>1, AllResolved
      <4>3. Stored[Ptr(x)] = acc.tag
        BY <1>1, <4>1, <4>2 DEF Stored
      <4> QED
        BY <3>1, <4>3
    <3> QED
      BY <3>1, <3>2
  <2> QED
    BY <1>1, <2>2, <2>3, Endings
<1> DEFINE P == Finishes /\ acc.kind # "read" /\ ~acc.stale =>
                  IF acc'.result = "ok"
                  THEN \A x \in acc.a..acc.a+acc.n-1 : heap'[Ptr(x)] = acc.tag
                  ELSE heap' = acc.before
<1>2. Inv /\ [Next]_vars => [P]_vars
  BY <1>1
<1> QED
  BY <1>2, AccessInvariant, PTL DEF Spec, AllOrNothing

\* read_memory_*: every read that succeeds returns what its bytes hold when it ends.
THEOREM ReadsTrue == Spec => ReadsWhatIsThere
<1>1. ASSUME Inv, Next, Succeeds, acc.kind = "read", ~acc.stale, NEW i \in 0..acc.n-1
      PROVE  acc'.got[i] = heap[Ptr(acc.a + i)]
  <2>1. Shaped /\ Complete /\ InEnd
    BY <1>1, Endings DEF Succeeds, Fail, Ended
  <2>2. acc'.got = acc.got
    BY <2>1 DEF Complete, Ended
  <2>3. Done = acc.n /\ ~InContig /\ acc.pc # "idle"
    BY <2>1 DEF InEnd, Done, InContig
  <2> QED
    BY <1>1, <2>2, <2>3 DEF Inv, ReadSoFar
<1> DEFINE P == Succeeds /\ acc.kind = "read" /\ ~acc.stale =>
                  \A i \in 0..acc.n-1 : acc'.got[i] = heap[Ptr(acc.a + i)]
<1>2. Inv /\ [Next]_vars => [P]_vars
  BY <1>1
<1> QED
  BY <1>2, AccessInvariant, PTL DEF Spec, ReadsWhatIsThere

\* README.md, Hooking: with a MEM_READ or MEM_WRITE hook a plain access that succeeds is
\* reported once and one that faults never, after any number of retries and passes.
THEOREM AccessesReported == Spec => ReportedOnce
<1>1. ASSUME Inv, Next, Finishes, Notify, acc.kind # "locked"
      PROVE  acc.reports = IF acc'.result = "ok" THEN 1 ELSE 0
  <2>1. acc.reports = IF acc.pc = "notify" THEN 1 ELSE 0
    BY <1>1 DEF Inv, NothingYet, Finishes
  <2>2. CASE Fail /\ ~InEnd
    BY <2>1, <2>2 DEF Fail, Ended, InEnd
  <2>3. CASE Complete /\ InEnd /\ acc.pc # "ready"
    BY <2>1, <2>3 DEF Complete, Ended, InEnd
  <2> QED
    BY <1>1, <2>2, <2>3, Endings
<1> DEFINE P == Finishes /\ Notify /\ acc.kind # "locked" =>
                  acc.reports = IF acc'.result = "ok" THEN 1 ELSE 0
<1>2. Inv /\ [Next]_vars => [P]_vars
  BY <1>1
<1> QED
  BY <1>2, AccessInvariant, PTL DEF Spec, ReportedOnce

\* The steps that raise #PF while there are tries left, and what they say.
LEMMA Faults ==
  ASSUME Inv, Next, FaultsHere, ~RetriesExhausted
  PROVE  /\ exc'.cr2 = Here
         /\ CASE acc.pc = "split" -> exc'.kind = "prot"
              [] acc.pc \in {"invalid1", "invalid2"} -> exc'.kind = acc.seen
              [] OTHER -> exc'.kind = Status(Here)
<1>1. acc.pc # "idle" /\ acc'.pc = "idle" /\ exc.kind = "none" /\ exc' # exc
  BY DEF FaultsHere, Finishes
<1>2. Shaped
  BY <1>1 DEF Inv, TypeOK
<1>3. CASE ResolveInvalid
  <2>1. PageFault(Here, Status(Here)) /\ acc.pc \in {"contig", "bytes"}
    BY <1>1, <1>3 DEF ResolveInvalid, Resolving
  <2> QED
    BY <1>1, <2>1 DEF PageFault
<1>4. ASSUME NEW handled \in BOOLEAN, InvalidHookReturn(handled)
      PROVE  /\ exc'.cr2 = Here
             /\ CASE acc.pc = "split" -> exc'.kind = "prot"
                  [] acc.pc \in {"invalid1", "invalid2"} -> exc'.kind = acc.seen
                  [] OTHER -> exc'.kind = Status(Here)
  <2>1. PageFault(Here, acc.seen) /\ acc.pc \in {"invalid1", "invalid2"}
    BY <1>1, <1>4 DEF InvalidHookReturn
  <2> QED
    BY <1>1, <2>1 DEF PageFault
<1>5. ASSUME NEW handled \in BOOLEAN, SplitReturn(handled)
      PROVE  /\ exc'.cr2 = Here
             /\ CASE acc.pc = "split" -> exc'.kind = "prot"
                  [] acc.pc \in {"invalid1", "invalid2"} -> exc'.kind = acc.seen
                  [] OTHER -> exc'.kind = Status(Here)
  <2>1. PageFault(Here, "prot") /\ acc.pc = "split"
    BY <1>1, <1>5 DEF SplitReturn
  <2> QED
    BY <1>1, <2>1 DEF PageFault
<1>6. ASSUME NEW kind \in Kinds, NEW a \in Starts, NEW n \in Sizes, NEW tag \in Tags,
             Begin(kind, a, n, tag)
      PROVE  FALSE
  BY <1>1, <1>6 DEF Begin
<1>7. ResolveRefused \/ ResolveContiguous \/ ResolveByte \/ ReadyToFinish \/ NotifyReturn => FALSE
  BY <1>1 DEF ResolveRefused, ResolveContiguous, ResolveByte, ReadyToFinish, NotifyReturn
<1>8. HostStep => FALSE
  BY <1>1, HostChanges DEF Changes, Inv
<1>9. RaiseHost => FALSE
  BY <1>1 DEF RaiseHost
<1> QED
  BY <1>3, <1>4, <1>5, <1>6, <1>7, <1>8, <1>9 DEF Next, AccessNext, HostStep

\* cpu_resolve_memory_access: while tries are left every #PF names the first byte that was
\* refused and the reason seen there, and the bytes before it were accessible.
THEOREM FaultsNamed == Spec => FaultTruthful
<1>1. ASSUME Inv, Next, FaultsHere, ~RetriesExhausted, NEW i \in DOMAIN acc.ptrs, ~acc.stale
      PROVE  Status(acc.a + i) = "ok"
  BY <1>1 DEF Inv, Extent, PointersHold, FaultsHere, Finishes
<1> DEFINE P == FaultsHere /\ ~RetriesExhausted =>
                  /\ exc'.cr2 = Here
                  /\ CASE acc.pc = "split" -> exc'.kind = "prot"
                       [] acc.pc \in {"invalid1", "invalid2"} -> exc'.kind = acc.seen
                       [] OTHER -> exc'.kind = Status(Here)
                  /\ \A i \in DOMAIN acc.ptrs : ~acc.stale => Status(acc.a + i) = "ok"
<1>2. Inv /\ [Next]_vars => [P]_vars
  BY <1>1, Faults
<1> QED
  BY <1>2, AccessInvariant, PTL DEF Spec, FaultTruthful

=============================================================================
