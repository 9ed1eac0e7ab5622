----------------------------- MODULE MemAccess ------------------------------
(***************************************************************************)
(* One multi-byte access of the guest: cpu_resolve_memory_access,          *)
(* cpu_get_contiguous_ptr_impl, the read_memory_* and write_memory_*       *)
(* functions and the pointer that cpu_atomic_compare_exchange_memory works *)
(* on (cpu/memory.hpp), with the callbacks that run in the middle of it.   *)
(*                                                                         *)
(* Host pointers are numbers, so that two pages are contiguous exactly     *)
(* when their frames are neighbours; patched bytes live elsewhere.  A      *)
(* write stores the same tag in all of its bytes, so that a torn write     *)
(* shows.                                                                  *)
(***************************************************************************)
EXTENDS Integers, FiniteSets

CONSTANTS
  PageSize,      \* CPUEAXH_PAGE_SIZE
  NPages,        \* guest pages 0..NPages-1
  NFrames,       \* host pages 0..NFrames-1
  HostFrames,    \* those the host owns; the others are what allocations return
  InitPages,     \* page tables the accesses start from
  PatchSets,     \* sets of addresses the patches installed may redirect
  Kinds,         \* the accesses: a subset of {"read", "write", "locked"}
  Starts, Sizes, \* where they start and how many bytes they have
  Tags,          \* what writes store
  InvalidHooks,  \* invalid-access hooks: a subset of {"unmapped", "prot"}
  Notify,        \* whether a MEM_READ / MEM_WRITE hook is registered
  Attempts,      \* the 4 tries of the retry loop
  Calls,         \* what callbacks do: a subset of {"map", "unmap", "protect", "raise"}
  MaxCalls       \* bound on what the callbacks do

PageNos   == 0..NPages-1
Frames    == 0..NFrames-1
PatchBase == NFrames * PageSize + 1
Statuses  == {"ok", "prot", "unmapped"}
External  == -1  \* the block of a page that points into host memory

\* A page lies in a region; the pages of an internal region share one allocated block,
\* which is named by the region's first page.
PageEntries == [frame : Frames, status : Statuses, block : PageNos \cup {External}]
NoPage      == [frame |-> 0, status |-> "unmapped", block |-> External]

ASSUME MemAccessAssumption ==
  /\ PageSize \in Nat \ {0} /\ NPages \in Nat \ {0} /\ NFrames \in Nat \ {0}
  /\ Attempts \in Nat \ {0} /\ MaxCalls \in Nat /\ Notify \in BOOLEAN
  /\ InitPages \subseteq [PageNos -> PageEntries] /\ HostFrames \subseteq Frames
  /\ Starts \subseteq Nat /\ Sizes \subseteq Nat \ {0} /\ InvalidHooks \subseteq {"unmapped", "prot"}
  /\ \A a \in Starts, n \in Sizes : a + n <= NPages * PageSize
  /\ \A s \in PatchSets : s \subseteq 0..NPages*PageSize-1

VARIABLES
  pages,   \* [PageNos -> PageEntries]
  patched, \* the addresses redirected by patches (patch_count # 0)
  heap,    \* host memory: [pointers -> tag]
  exc,     \* the pending exception: kind and, for #PF, the address in CR2
  acc,     \* the access in progress
  calls    \* what the callbacks did so far

vars == <<pages, patched, heap, exc, acc, calls>>

Pointers == 0..PatchBase+NPages*PageSize-1
NoExc == [kind |-> "none", cr2 |-> 0]

\* Between accesses; result tells how the last one ended and got what it read.
Ended(result, got) == [pc |-> "idle", result |-> result, got |-> got]

Init ==
  /\ pages \in InitPages /\ patched \in PatchSets
  /\ heap = [p \in Pointers |-> 0]
  /\ exc = NoExc /\ acc = Ended("none", <<>>) /\ calls = 0

-----------------------------------------------------------------------------
PageOf(x) == x \div PageSize
Status(x) == pages[PageOf(x)].status

\* mm_get_ptr_checked: the pointer an accessible byte resolves to.
Ptr(x) == IF x \in patched THEN PatchBase + x
          ELSE pages[PageOf(x)].frame * PageSize + (x % PageSize)

Here == acc.a + acc.k

\* The contiguous pass looks at one byte per page, or at every byte under patches.
Stride == IF patched = {} THEN PageSize - (Here % PageSize) ELSE 1

\* cpu_raise_page_fault: CR2 is written even when an exception is already pending.
PageFault(x, kind) ==
  exc' = [kind |-> IF exc.kind = "none" THEN kind ELSE exc.kind, cr2 |-> x]

\* An access of the guest begins without a pending exception: the step before it
\* would have ended the run.
Begin(kind, a, n, tag) ==
  /\ acc.pc = "idle"
  /\ exc' = NoExc
  /\ acc' = [pc |-> "contig", kind |-> kind, a |-> a, n |-> n, tag |-> tag, k |-> 0,
             attempt |-> 0, ptrs |-> [i \in {} |-> 0], got |-> [i \in {} |-> 0],
             stale |-> FALSE, reports |-> 0, before |-> heap, seen |-> "ok"]
  /\ UNCHANGED <<pages, patched, heap, calls>>

Fail == acc' = Ended("fault", <<>>) /\ heap' = heap

-----------------------------------------------------------------------------
(* cpu_resolve_memory_access of the byte at hand                           *)

\* A resolve that begins under a pending exception fails without raising anything.
ResolveRefused ==
  /\ acc.pc \in {"contig", "bytes"} /\ acc.attempt = 0 /\ exc.kind # "none"
  /\ Fail /\ UNCHANGED <<pages, patched, exc, calls>>

Resolving == acc.pc \in {"contig", "bytes"} /\ (acc.attempt # 0 \/ exc.kind = "none")

RetriesExhausted == acc.attempt = Attempts

\* The byte is not accessible: a hook of the kind gets the chance to fix it, otherwise
\* #PF; after the last try #PF says "protection", whatever the page is.
ResolveInvalid ==
  /\ Resolving
  /\ \/ /\ RetriesExhausted
        /\ PageFault(Here, "prot") /\ Fail
     \/ /\ ~RetriesExhausted /\ Status(Here) # "ok" /\ Status(Here) \notin InvalidHooks
        /\ PageFault(Here, Status(Here)) /\ Fail
     \/ /\ ~RetriesExhausted /\ Status(Here) \in InvalidHooks
        /\ acc' = [acc EXCEPT !.pc = IF @ = "contig" THEN "invalid1" ELSE "invalid2",
                              !.seen = Status(Here)]
        /\ UNCHANGED <<heap, exc>>
  /\ UNCHANGED <<pages, patched, calls>>

InvalidHookReturn_NoCount(handled) ==  \* mutant: the tries are not counted
  /\ acc.pc \in {"invalid1", "invalid2"}
  /\ \/ /\ handled
        /\ acc' = [acc EXCEPT !.pc = IF @ = "invalid1" THEN "contig" ELSE "bytes",
                              !.attempt = 1]
        /\ UNCHANGED <<heap, exc>>
     \/ /\ ~handled
        /\ PageFault(Here, acc.seen) /\ Fail
  /\ UNCHANGED <<pages, patched, calls>>

InvalidHookReturn_FaultUnmapped(handled) ==  \* mutant: the kind of the fault is lost
  /\ acc.pc \in {"invalid1", "invalid2"}
  /\ \/ /\ handled
        /\ acc' = [acc EXCEPT !.pc = IF @ = "invalid1" THEN "contig" ELSE "bytes",
                              !.attempt = @ + 1]
        /\ UNCHANGED <<heap, exc>>
     \/ /\ ~handled
        /\ PageFault(Here, "unmapped") /\ Fail
  /\ UNCHANGED <<pages, patched, calls>>

\* The invalid-access hooks return: nonzero retries the resolve, 0 lets it fault with
\* the kind that was seen before the hooks ran.
InvalidHookReturn(handled) ==
  /\ acc.pc \in {"invalid1", "invalid2"}
  /\ \/ /\ handled
        /\ acc' = [acc EXCEPT !.pc = IF @ = "invalid1" THEN "contig" ELSE "bytes",
                              !.attempt = @ + 1]
        /\ UNCHANGED <<heap, exc>>
     \/ /\ ~handled
        /\ PageFault(Here, acc.seen) /\ Fail
  /\ UNCHANGED <<pages, patched, calls>>

\* The byte is accessible.
ResolvesOk == Resolving /\ ~RetriesExhausted /\ Status(Here) = "ok"

Extend(f, i, v) == [j \in DOMAIN f \cup {i} |-> IF j = i THEN v ELSE f[j]]

-----------------------------------------------------------------------------
(* cpu_get_contiguous_ptr_impl                                             *)

Contiguous_Always == TRUE  \* mutant: the second page is taken to follow the first

\* The byte lies behind the first one in host memory too.
Contiguous == acc.k # 0 => Ptr(Here) = acc.ptrs[0] + acc.k

\* All bytes lie behind one pointer: a read takes them all now.
ContiguousDone(ptrs) ==
  acc' = [acc EXCEPT !.pc = "ready", !.ptrs = ptrs,
            !.got = IF acc.kind = "write" THEN @
                    ELSE [i \in 0..acc.n-1 |-> heap[ptrs[i]]]]

ResolveContiguous ==
  /\ acc.pc = "contig" /\ ResolvesOk
  /\ LET base == IF acc.k = 0 THEN Ptr(Here) ELSE acc.ptrs[0]
     IN  \/ /\ Contiguous /\ acc.k + Stride >= acc.n
            /\ ContiguousDone([i \in 0..acc.n-1 |-> base + i])
         \/ /\ Contiguous /\ acc.k + Stride < acc.n
            /\ acc' = [acc EXCEPT !.k = @ + Stride, !.attempt = 0,
                                  !.ptrs = Extend(@, acc.k, Ptr(Here))]
         \/ /\ ~Contiguous /\ acc.kind = "locked"
            /\ acc' = [acc EXCEPT !.pc = "split", !.attempt = 0]
         \/ /\ ~Contiguous /\ acc.kind # "locked"
            /\ acc' = [acc EXCEPT !.pc = "bytes", !.k = 0, !.attempt = 0,
                                  !.ptrs = [i \in {} |-> 0], !.stale = FALSE]
  /\ UNCHANGED <<pages, patched, heap, exc, calls>>

\* A locked access that is split over two host ranges: the "protection" hooks may
\* rearrange the mapping and have everything tried again.
SplitReturn(handled) ==
  /\ acc.pc = "split" /\ (handled => "prot" \in InvalidHooks)
  /\ \/ /\ handled
        /\ acc' = [acc EXCEPT !.pc = "contig", !.k = 0, !.ptrs = [i \in {} |-> 0],
                              !.stale = FALSE]
        /\ UNCHANGED <<heap, exc>>
     \/ /\ ~handled
        /\ PageFault(Here, "prot") /\ Fail
  /\ UNCHANGED <<pages, patched, calls>>

-----------------------------------------------------------------------------
(* The byte-by-byte pass of read_memory_* and write_memory_*               *)

ResolveByte_SameAddress ==  \* mutant: every byte is read through the first pointer
  /\ acc.pc = "bytes" /\ ResolvesOk
  /\ acc' = [acc EXCEPT !.k = @ + 1, !.attempt = 0, !.ptrs = Extend(@, acc.k, Ptr(Here)),
               !.got = IF acc.kind = "write" THEN @ ELSE Extend(@, acc.k, heap[Ptr(acc.a)]),
               !.pc = IF acc.k + 1 = acc.n THEN "ready" ELSE "bytes"]
  /\ UNCHANGED <<pages, patched, heap, exc, calls>>

\* A read takes each byte as it resolves, a write only keeps the pointer.
ResolveByte ==
  /\ acc.pc = "bytes" /\ ResolvesOk
  /\ acc' = [acc EXCEPT !.k = @ + 1, !.attempt = 0, !.ptrs = Extend(@, acc.k, Ptr(Here)),
               !.got = IF acc.kind = "write" THEN @ ELSE Extend(@, acc.k, heap[Ptr(Here)]),
               !.pc = IF acc.k + 1 = acc.n THEN "ready" ELSE "bytes"]
  /\ UNCHANGED <<pages, patched, heap, exc, calls>>

-----------------------------------------------------------------------------
(* Notification and store                                                  *)

Stored == [p \in Pointers |->
             IF acc.kind # "read" /\ \E i \in 0..acc.n-1 : acc.ptrs[i] = p THEN acc.tag
             ELSE heap[p]]

Complete == acc' = Ended("ok", acc.got) /\ heap' = Stored

ReadyToFinish_Unreported ==  \* mutant: the hook is forgotten when a page is crossed
  /\ acc.pc = "ready"
  /\ IF Notify /\ acc.kind # "locked" /\ PageOf(acc.a) = PageOf(acc.a + acc.n - 1)
     THEN /\ acc' = [acc EXCEPT !.pc = "notify", !.reports = @ + 1]
          /\ UNCHANGED heap
     ELSE Complete
  /\ UNCHANGED <<pages, patched, exc, calls>>

\* All pointers are there: the MEM_READ or MEM_WRITE hooks run first, if there are any;
\* a compare-exchange has none.
ReadyToFinish ==
  /\ acc.pc = "ready"
  /\ IF Notify /\ acc.kind # "locked"
     THEN /\ acc' = [acc EXCEPT !.pc = "notify", !.reports = @ + 1]
          /\ UNCHANGED heap
     ELSE Complete
  /\ UNCHANGED <<pages, patched, exc, calls>>

\* The hooks return and a write goes to the pointers resolved before them.
NotifyReturn ==
  /\ acc.pc = "notify"
  /\ Complete
  /\ UNCHANGED <<pages, patched, exc, calls>>

-----------------------------------------------------------------------------
(* What the host does from its callbacks                                   *)

InCallback == acc.pc \in {"invalid1", "invalid2", "split", "notify"}

\* A page the access already holds a pointer into.
Held(p) == \E i \in DOMAIN acc.ptrs : PageOf(acc.a + i) = p

HostCall(call) ==
  /\ InCallback /\ call \in Calls /\ calls < MaxCalls
  /\ calls' = calls + 1 /\ UNCHANGED <<patched, exc>>

Mapped     == {q \in PageNos : pages[q].status # "unmapped"}
FreeFrames == Frames \ (HostFrames \cup {pages[q].frame : q \in Mapped})

\* What the callback leaves of the access when it replaces or moves these pages.
\* before follows what the callback itself does to host memory.
Disturbs(touched) ==
  acc' = [acc EXCEPT !.stale = @ \/ \E q \in touched : Held(q), !.before = heap']

\* cpueaxh_mem_map of a page (a zeroed block of its own) or cpueaxh_mem_map_ptr.
MapPage(p, frame, block, status) ==
  /\ HostCall("map") /\ pages[p].status = "unmapped" /\ status # "unmapped"
  /\ \/ block = External /\ frame \in HostFrames /\ heap' = heap
     \/ /\ block = p /\ frame \in FreeFrames
        /\ heap' = [x \in Pointers |-> IF x \div PageSize = frame THEN 0 ELSE heap[x]]
  /\ pages' = [pages EXCEPT ![p] = [frame |-> frame, status |-> status, block |-> block]]
  /\ Disturbs({p})

\* An external page that is unmapped or protected leaves the others where they are.
ChangeExternal(p, status) ==
  /\ p \in Mapped /\ pages[p].block = External
  /\ HostCall(IF status = "unmapped" THEN "unmap" ELSE "protect")
  /\ pages' = [pages EXCEPT ![p] = IF status = "unmapped" THEN NoPage
                                   ELSE [@ EXCEPT !.status = status]]
  /\ heap' = heap
  /\ Disturbs({p})

\* The pages that share the block of page p.
Siblings(p) == {q \in Mapped : pages[q].block = pages[p].block}

\* The pieces that mm_unmap, mm_protect and mm_set_cpu_attrs cut page p's region into,
\* each of which gets a block of its own.
PieceOf(p, q) == IF q < p THEN pages[q].block ELSE IF q = p THEN p ELSE p + 1

NewBlocks(p, kept) ==
  {new \in [kept -> FreeFrames] :
     \A q, r \in kept : q < r => IF PieceOf(p, q) = PieceOf(p, r)
                                 THEN new[r] = new[q] + (r - q) ELSE new[r] # new[q]}

\* Host memory once the pages kept are copied to their new frames.
Copied(new) ==
  [x \in Pointers |->
     IF \E q \in DOMAIN new : new[q] = x \div PageSize
     THEN LET q == CHOOSE r \in DOMAIN new : new[r] = x \div PageSize
          IN  heap[pages[q].frame * PageSize + (x % PageSize)]
     ELSE heap[x]]

\* An internal page is unmapped or protected, even with the permissions it has: its whole
\* region is rebuilt, each piece a fresh copy, and the old block is freed.
Rebuild(p, status) ==
  /\ p \in Mapped /\ pages[p].block # External
  /\ HostCall(IF status = "unmapped" THEN "unmap" ELSE "protect")
  /\ LET kept == Siblings(p) \ (IF status = "unmapped" THEN {p} ELSE {})
     IN  \E new \in NewBlocks(p, kept) :
           /\ pages' = [q \in PageNos |->
                IF q \in kept
                THEN [frame |-> new[q], block |-> PieceOf(p, q),
                      status |-> IF q = p THEN status ELSE pages[q].status]
                ELSE IF q = p THEN NoPage ELSE pages[q]]
           /\ heap' = Copied(new)
  /\ Disturbs(Siblings(p))

\* cpueaxh_exception_raise.
RaiseHost ==
  /\ exc.kind = "none"
  /\ InCallback /\ "raise" \in Calls /\ calls < MaxCalls
  /\ exc' = [exc EXCEPT !.kind = "host"] /\ calls' = calls + 1
  /\ UNCHANGED <<pages, patched, heap, acc>>

\* The steps of the engine's thread.
AccessNext ==
  \/ ResolveRefused \/ ResolveInvalid \/ ResolveContiguous \/ ResolveByte
  \/ ReadyToFinish \/ NotifyReturn
  \/ \E handled \in BOOLEAN : InvalidHookReturn(handled) \/ SplitReturn(handled)

Next ==
  \/ \E kind \in Kinds, a \in Starts, n \in Sizes, tag \in Tags : Begin(kind, a, n, tag)
  \/ AccessNext
  \/ \E p \in PageNos, frame \in Frames, block \in PageNos \cup {External},
       status \in Statuses : MapPage(p, frame, block, status)
  \/ \E p \in PageNos, status \in Statuses : ChangeExternal(p, status) \/ Rebuild(p, status)
  \/ RaiseHost

Spec == Init /\ [][Next]_vars

\* The engine's thread keeps running and callbacks return.
FairSpec == Spec /\ WF_vars(AccessNext)

-----------------------------------------------------------------------------
(* Properties                                                              *)

Finishes == acc.pc # "idle" /\ acc'.pc = "idle"
Succeeds == Finishes /\ acc'.result = "ok"

\* memory.hpp, write_memory_*: a write that crosses pages, frames or patches stores all of
\* its bytes where the guest will find them, or faults and stores none.  The exception is a
\* callback that changed a page the access already held a pointer into, or any page of the
\* same region: the region's block has been freed, and the code goes on with the pointer.
AllOrNothing ==
  [][Finishes /\ acc.kind # "read" /\ ~acc.stale =>
       IF acc'.result = "ok"
       THEN \A x \in acc.a..acc.a+acc.n-1 : heap'[Ptr(x)] = acc.tag
       ELSE heap' = acc.before]_vars

\* memory.hpp, read_memory_*: a read that succeeds returns what every byte holds, however
\* the bytes are spread and whatever the callbacks did to other regions (with the same
\* exception).
ReadsWhatIsThere ==
  [][Succeeds /\ acc.kind = "read" /\ ~acc.stale =>
       \A i \in 0..acc.n-1 : acc'.got[i] = heap[Ptr(acc.a + i)]]_vars

\* README.md, Hooking: a plain read or write that succeeds is reported exactly once, as a
\* whole, and one that faults is not (a compare-exchange is not reported at all).
ReportedOnce ==
  [][Finishes /\ Notify /\ acc.kind # "locked" =>
       acc.reports = IF acc'.result = "ok" THEN 1 ELSE 0]_vars

FaultsHere == Finishes /\ exc.kind = "none" /\ exc'.kind \in {"prot", "unmapped"}

\* memory.hpp, cpu_resolve_memory_access: a #PF names the first byte that was refused and
\* why, as long as the tries last; a split locked access counts as "protection".
FaultTruthful ==
  [][FaultsHere /\ ~RetriesExhausted =>
       /\ exc'.cr2 = Here
       /\ CASE acc.pc = "split" -> exc'.kind = "prot"
            [] acc.pc \in {"invalid1", "invalid2"} -> exc'.kind = acc.seen
            [] OTHER -> exc'.kind = Status(Here)
       /\ \A i \in DOMAIN acc.ptrs : ~acc.stale => Status(acc.a + i) = "ok"]_vars

\* memory.hpp, cpu_resolve_memory_access: reads and writes end although hooks answer
\* "handled" without fixing anything.
AccessEnds == acc.pc # "idle" /\ acc.kind # "locked" ~> acc.pc = "idle"

=============================================================================
