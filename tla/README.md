# cpueaxh: a TLA+ verification project

cpueaxh is an x86-64 instruction emulator in C++: a host program opens an
*engine*, maps guest memory, sets registers, registers hooks and escapes, and
runs guest code with `cpueaxh_emu_start`. This directory holds TLA+ modules
that model the parts of it in which state outlives one instruction and the
integer instruction set itself, the TLC configurations that check them, and
TLAPS proofs of the results that matter most.

- [Inventory](#inventory): the parts, their state, what is hard about them
- [Modules](#modules): which module models what, and how it maps to the code
- [Runs](#runs): what TLC checks, bounds and fairness
- [Proofs](#proofs): what is proved for every value of the constants
- [Observations](#observations): where code and its comments or docs disagree
- [Not modelled](#not-modelled) and [Plan](#plan)

## Inventory

| Component | Source | State | Operations | What makes it correct |
|---|---|---|---|---|
| memory manager | `cpueaxh/memory/manager.hpp` | sorted region array, heap blocks, patches and their bounds, host passthrough, direct-mapped page cache, `code_version` | map, map_host, unmap, protect, set_cpu_attrs, patches, passthrough, query, store, destroy | behaves as a page table; searches exact below the top; blocks have one owner; the cache never outlives what it caches; fetch-visible changes move `code_version` |
| instruction cache | `cpueaxh/cpu/inst_cache.hpp` | slots (tag, version, mode key, decoded instruction), cached mode key in the context | lookup, reserve, commit, mode key | a hit is what decoding the bytes now would give |
| executor | `cpueaxh/cpu/executor.hpp` | snapshots, `rip_pre`, the decoded instruction at hand | prefetch, decode, notify, execute, roll back, advance | a fault leaves nothing behind; rip moves past the instruction |
| decoder | `cpueaxh/cpu/decoder.hpp`, `decoded.hpp` | none | select handler, classify NO_FAULT and inline shapes, probe, attach fast handler | flags tell the truth; a replayed entry does what a new decode would do |
| run loop and API | `cpueaxh/cpueaxh.cpp` | `stop_requested`, count, until, hook needs captured at entry | emu_start, emu_stop, register, context, memory, exception calls | a stop or a count ends the run; escapes are honoured |
| hooks and escapes | `cpueaxh/cpueaxh.cpp` | hook table, per-type counts, escape list, byte index by instruction | add, del, dispatch walks | each due hook once, no deleted hook, exact counts and index |
| guest memory access | `cpueaxh/cpu/memory.hpp` | pointers held between resolve, notification and store; retry count | read, write, locked pointer, invalid-access retry | all or nothing, truthful faults, reported once, ends |
| atomic read-modify-write | `cpueaxh/cpu/memory.hpp` and the locked handlers | current and expected value of a retry loop | compare-exchange loop, CMPXCHG, plain read-then-write | takes effect at one instant |
| processor state | `cpueaxh/cpu/def.h`, `init.hpp`, `core.hpp` | registers, flags, segments, control registers, pending exception | raise, snapshot, restore | first exception wins |
| addressing and segments | `cpueaxh/cpu/helper.hpp` | none | ModRM/SIB addresses, partial registers, segment loads, stack slots | the address of LEA is the address accessed; a load that fails changes nothing |
| flag arithmetic | `cpueaxh/cpu/calc.hpp` | none | `update_flags_*` | carries and overflows of multi-word arithmetic are exact |
| string instructions | `cpueaxh/instructions/rep.hpp` and the five it includes | count and indices as locals of a loop, registers | MOVS, CMPS, STOS, LODS, SCAS, REP, REPNE | a fault leaves a whole number of iterations done, and a restart does the rest |
| integer instructions | `cpueaxh/instructions/` add to popcnt, bmi | none | arithmetic, logic, shifts, moves, bits | results and flags exact at every width; a fault leaves nothing |
| control transfers | `cpueaxh/instructions/` push, pop, call, ret, jmp, jcc, enter, leave | the guest's stack | near and far transfers, frames, flags images | what is pushed is popped, in every width and mode, faults and restarts included |
| vector, x87 and system instructions | `cpueaxh/instructions/` | vector and x87 registers | about 200 handlers | not modelled, except as outcomes of a step |

How the parts interact. `cpueaxh_emu_start` loops over steps. A step asks the
instruction cache, or fetches 15 bytes through the memory manager and decodes
them; it calls MEM_FETCH hooks, takes a snapshot unless the decoder proved the
instruction cannot fault, runs the handler, and rolls back or advances rip.
Handlers reach memory through `cpueaxh/cpu/memory.hpp`, which asks the memory
manager for a host pointer, calls invalid-access hooks when it gets none,
memory hooks when it does, and then stores. Hooks and escapes are host
callbacks; from inside one the host may call the whole API: map and unmap,
write registers, add and delete hooks, raise or clear exceptions. That
re-entrancy is the main source of interleavings. The others are
`cpueaxh_emu_stop` from another thread and several engines that map the same
host memory.

What is hard here, with the line where it bites and the property that covers
it, is the list `hazards` in `PROJECT.json`.

## Modules

`PROJECT.json` maps each definition to its source lines.

**MemoryManager** (`memory/manager.hpp`). Regions are counted in pages (every
call rejects unaligned arguments), patches and stores in bytes; address
arithmetic wraps, as `uint64_t` does, so a region that ends at the top of the
address space has `base + size = 0`: no search finds it, and a range call that
ends there enters no iteration of its loop (`RangeEmpty`; see Observations). The
heap is explicit (block name to bytes) and every allocation may fail. `mm_unmap`, `mm_protect` and
`mm_set_cpu_attrs` walk their range one region at a time: each iteration is an
action (`RangeStep`), and so is its failure (`RangeFail`), which leaves the
regions before it changed. The binary searches are written as the code
computes them, as recursive functions. **AddressSpace** is the abstract
specification: one descriptor per page, no regions, no heap, no cache.
`ImplementsAddressSpace` is the refinement under the mapping `PageDescriptor`.

**Engine** (`cpueaxh.cpp`, `cpu/executor.hpp`, `cpu/inst_cache.hpp`,
`cpu/decoder.hpp`, `cpu/def.h`). `run.pc` is the place inside
`cpueaxh_emu_start` (and the step it called); the values `idle`, `pre`,
`invalid`, `post`, `fetch`, `write`, `escape` are the places where the host has
control, and `host.calls` says which API calls it makes there. `invalid` lies in
the middle of a prefetch: the window is copied unit by unit (`PrefetchUnit`), and
a unit that is not executable goes to the MEM_FETCH_UNMAPPED and _PROT hooks
(`FETCH_INVALID`) and is tried again, `Attempts` times (4 in the code). So what was
copied before may be changed by the time the entry is committed; `dirty` is
history and keeps the addresses for which that, or a guest store, happened. A step
that fetches for itself (`executor.hpp:455`) only does so in plain runs, which are
chosen when no hook and no escape is registered (`cpueaxh.cpp:1418`), so no hook
can run in the middle of that fetch; `TypeOK` states it. One opcode stands for
each shape of instruction the executor treats differently. An instruction
takes one or two code units and the prefetch window is two units long, so both
the truncated instruction and the window that crosses into a page without
execute right occur. Registers are counters, so a missing rollback shows.
Handlers are the set of contexts they can leave behind (`Outcomes`).

**Hooks** (`cpueaxh.cpp`). The table of slots, `hook_type_counts`, the escape
list with its byte index, and the three walks (`cpueaxh_dispatch_code_hooks`,
`cpu_notify_memory_hook`, `cpu_notify_invalid_memory_hook`), one slot per
step. `walk.due` and `walk.gone` are history: the hooks registered when the
walk began, and those deleted since.

**MemAccess** (`cpu/memory.hpp`). One access: the contiguous pass, the byte
pass, invalid-access hooks with retry, notification, store. Callbacks map,
unmap, protect and raise in the middle (`MapPage`, `ChangeExternal`, `Rebuild`).
Pages of one internal region share a block: unmapping or protecting one of them
copies every piece that is left of the region to a fresh block and frees the old
one, as `mm_replace_region` does, so the pointers an access holds into the other
pages go stale too (`acc.stale`). Host frames are numbered, so that neighbouring
guest pages may or may not be neighbours in host memory; patched bytes live
elsewhere. A write stores one tag in all its bytes, so that a torn
write shows.

**AtomicRmw** (`cpu/memory.hpp`, `instructions/cmpxchg.hpp`, `inc.hpp`,
`xadd.hpp`, `xchg.hpp`). Engines on their own threads on one shared operand:
the compare-exchange loop, locked CMPXCHG, and the handlers that read and then
write although they accept LOCK. **AtomicCell** is the abstract specification:
a locked instruction happens at one instant, a plain one reads at one and
writes at another.

**StringOps** (`instructions/rep.hpp`, `movs.hpp`, `cmps.hpp`, `stos.hpp`,
`lods.hpp`, `scas.hpp`, and what `cpu/executor.hpp` does around them). One
string instruction with the registers, memory and permissions it starts from:
sizes are decoded, each access of an iteration is a step, and the
host has control inside the memory hooks (`read`, `read2`, `write`) and after
an exception (`stopped`), from which it may start again. A cell is a byte;
the widths of addresses are scaled (`Span`), so that wrapping, merged and
cleared upper bits and the canonical hole all occur in 32 addresses. `ghost`
keeps the start and the number of completed iterations; the reference
(`MemAfter`, `IndexAfter`, `CountAfter`, `Due`) computes from them in closed
form or by a plain loop what should be there.

**Calc, Machine, Alu, MulShift, MovesBits, Control** (`cpu/calc.hpp`,
`cpu/helper.hpp`, `cpu/def.h`, and the integer, stack and branch files of
`instructions/`). Operators from contexts to contexts, in one chain of
`EXTENDS`. Calc has words, flags and the two tables of conditions, in a module
of its own because theorems are proved about it; Machine registers, memory,
effective addresses and the shape that all `decode_*` functions share; Alu the two-operand arithmetic
and INC to NOT; MulShift multiplication, division, sign extension of the
accumulator, shifts and rotates; MovesBits the moves, segment loads, exchanges,
SETcc and CMOVcc, bit tests, scans and BMI; Control the stack, near and far CALL, RET,
JMP and IRET, ENTER, LEAVE, Jcc and LOOP. An instruction is an operator
`decode_x` that gives the decoded record with the first exception decoding
raises, and an operator `execute_x`; both keep the order in which the code
reads, raises, sets flags and writes, because `cpu_raise_exception` keeps the
first exception and the register and flag writes after it still happen until
the executor rolls them back. Where the code has one function per width
(`add_rm8_imm8` to `add_rm64_imm8`) the model has one with the width as a
parameter. Encodings are records of the fields the bytes hold: prefixes, REX,
VEX, opcode, ModRM, SIB, displacement, immediate, length, and whether the window
was cut short.

**Guest** (`cpu/decoder.hpp`, `cpu/executor.hpp`, `instructions/*_fast`). A
program runs on those operators through the instruction cache. `Handler`
selects by opcode as the decoder does; `cpu_decode_instruction` makes the entry:
handler, the instruction as the probe decoded it, NO_FAULT, inline shape, fast
handler. `Step` executes the entry (inlined RET and Jcc, the fast handler with
or without a recomputed address, or the full handler) and rolls back or advances
as `cpu_step_dispatch_decoded` does. The probe runs before the executor puts the
segment override into the context (`Probe`). `Host` is the host between two
runs: a register, a segment base or page rights change, and the program goes on
where it stopped. `MCGuest` holds a small assembler and the programs. Here the
code is fixed and the instructions are real; in Engine it is the other way
round.

`MC*` modules give the constants their values. `*Proofs` modules hold the
theorems.

## Runs

| Run | Checks | Result |
|---|---|---|
| `mm_regions` | TypeOK, SearchExact, PageCacheCoherent, HeapOwnership, VersionTracksView, RangeCallsExact, ImplementsAddressSpace | holds |
| `mm_patches` | PatchLookupExact, ImplementsAddressSpace | holds |
| `engine_cache` | ModeKeyCurrent, CacheSound, DispatchCurrent | holds |
| `engine_steps` | EscapesHonoured, UdOnlyForUndefined, FaultAtomic, AdvancesByLength, StopHonoured, CountHonoured | holds |
| `hooks_table` | TableSound, NotCalledOnceDeleted, WalkComplete, WalkEnds | holds |
| `access_pages` | AllOrNothing, ReadsWhatIsThere, ReportedOnce, FaultTruthful, AccessEnds | holds |
| `atomic_rmw` | TypeOK, ImplementsCell, RmwEnds | holds |
| `string_rep` | RestartExact, EndsWhenDue, RunEnds | holds |
| `guest_programs` | ArithmeticExact, ConditionsAgree, ShiftsExact, BitsExact, StackDiscipline, FaultsLeaveNothing, ReplayMatchesFresh | holds |
| `engine_smc` | NeverStale | violated |
| `engine_mode_key` | ModeKeyCurrent | violated |
| `guest_segments` | ReplayMatchesFresh | violated |

Bounds, and why they are enough.

- `mm_regions`: three pages of one byte, ranges of one and two pages starting
  anywhere, maps from up to two regions on (a split makes more), four blocks, two
  cache slots, `code_version` modulo 3. Three pages are the smallest space in which
  a region below the top is split and another one reaches the top, where pages can
  be mapped twice and range calls do nothing; a modulus of 3 makes the counter
  wrap. Accesses go to page 1, which pages 0 and 2 share regions with.
- `mm_patches`: four pages of two bytes and three patch ranges, one of which
  crosses a page and one of which meets the other two, so that every relation
  of two ranges occurs, with passthrough switched on and off.
- `engine_cache`: four addresses over two cache slots, three host calls. One
  call can change the code or the mode, a second undo it, a third change it
  again between a lookup and its dispatch. In a second system the unit at address
  2 is not executable, and the hooks of the fetch change code, rights and mode when
  the unit before it is already copied; two tries.
- `engine_steps`: three systems. In one every escape class comes and goes; in
  the second each kind of instruction that can fault half way runs under hooks,
  those of the fetch included, that raise, write rip and rewrite CS. Three host
  calls. The third is an
  endless loop with stop requests at any time, counts and until addresses.
- `hooks_table`: three slots (a walk has a slot before, at and behind it), a
  code, a memory and an invalid-access type, two escapes, four handles.
  Callbacks of memory and invalid-access hooks add and delete hooks; those of
  code hooks delete them (see Observations for adding).
- `access_pages`: pages of two bytes, accesses of two and three bytes over the
  boundary of pages 1 and 2, every status of each of these; page 1 in a region with
  page 0, in one with page 2, or both in host memory, contiguous or swapped; six
  frames, so that a rebuilt region has somewhere to go; with and without a patch
  over the boundary, two tries, two callback actions.
- `string_rep`: 8, 16 and 32 addresses for 16, 32 and 64 bits, pages of four
  bytes, elements of one, two, four and eight. The starts are chosen so that
  elements overlap across a page, run into the canonical hole, and cross the
  edges of 16 and 32 bits; counts are 0, 3, and 3 under bits of the wider
  register. Two host calls: a fault can be repaired and the restarted
  instruction interrupted once more.
- `atomic_rmw`: two engines, two instructions each, two-bit operands.
- `guest_programs`: 7996 programs. A byte has two bits (`B = 2`), so words have
  2, 4, 8 and 16, every pair of byte operands is tried and the wider words are
  tried at their edges (0, 1, sign, all ones); the shift count keeps its five
  bits below REX.W (`CountBits = 5`), so counts reach over the width of every
  word, through carry too. The canonical hole lies where 48 of 64 bits put it.
  A selector has a descriptor table of a 64-bit code, a 32-bit code and a data
  segment. The form of an instruction (register, memory, immediate, accumulator,
  short form, LOCK, inlined or by its handler) varies with the operands, so each
  form meets many of them; the disjuncts of the opcode tables are all reached
  by the loops, which run each memory form and each register form under two
  host changes: the operand moves, crosses into read-only memory, becomes
  non-canonical, FS gets another base, rights are taken and given back. With two
  changes a cached instruction can be disturbed, fault, be repaired and be
  executed again. Lengths are 2 where nothing depends on them.
- `guest_segments`: the two forms without ModRM under an FS override.

Deadlock is checked in every run but the two of MCGuest, where a program ends.

Fairness. `Engine!FairSpec`, `Hooks!FairSpec`, `MemAccess!FairSpec` and
`StringOps!FairSpec` are weak fairness of the steps of the engine's own thread,
the return of callbacks included: none of these steps waits for anything, and a
host that never returns from its callback never gets its thread back either.
Host calls are not fair. `AtomicRmw!FairSpec` is weak fairness per engine, the scheduler's
promise; `RmwEnds` needs it together with the bound on instructions, since the
retry loop is lock-free and not wait-free: one engine may lose every race while
another one succeeds for ever.

Each property of a passing run has a mutant in `PROJECT.json`: a change of one
mapped definition, in the way a slip in the code would change it, under which
TLC finds the property violated.

## Proofs

`MemoryManagerProofs`, for every number of pages, page size, cache size,
modulus above 2, set of heap blocks, and set of arguments (`SizesAssumption`
and `InputsAssumption`):

- `TypeCorrect`: `Spec => []TypeOK`. `TypeOK` is inductive as it stands
  because it says of a range walk that `first <= current < end` and that the
  counters are not 0 while the manager is open. The work is in `RangeStep`,
  which replaces one region by up to three (`SegmentsType`, `RangeStepType`).
- `CacheCoherence`: `Spec => []PageCacheCoherent`. Inductive given `TypeOK`:
  every action that changes regions or passthrough empties the cache
  (`EmptyIsCoherentNext`), and the others fill one slot with what the lookup
  gives (`FillIsCoherent`).
- `VersionTracking`: `Spec => VersionTracksView`. Needs that a bump never
  returns the same number, hence the assumption that the modulus is above 2
  (0 is skipped).

The second half of `MemoryManagerProofs`, on how memory is laid out, from the
same assumptions:

- `PatchesFound`: `Spec => []PatchLookupExact`. The inductive invariant
  `PatchInv` says that patches do not meet and that the cached bounds lie
  around all of them, also after `mm_rebuild_patch_bounds`
  (`RebuiltBoundsHold`).
- `SearchesAnswer`: `Spec => []SearchExact`. The property is stated without the
  wrapped end: the search gives the one region that contains the page and does not
  end at the top (`RegionsBelowTop`), or nothing. The invariant is `InOrder`: no
  region reaches past the top of the address space, bases ascend, and a region ends
  before the next one begins, by its wrapped end, so that regions may lie over one
  that ends at the top; `HoldersBelowTop` says that the regions the code's comparison
  admits are those below the top. `SplicePositions` and `SegmentsLaid`
  carry it through the splits of a range walk. What a binary search computes
  is obtained from a least counterexample over the width of its window
  (`NarrowerWindows`) instead of an induction scheme, which the provers here
  cannot instantiate; for that the searches are recursive functions of one
  argument, the window `<<left, right>>`.
- `BlocksOwned`: `Spec => []HeapOwnership`. The invariant `OwnInv` is stated
  without cardinalities (one owner, all owned, long enough); the count follows
  from it (`ImageCount`).

`RefinementProofs`, from the same assumptions:

- `RangeCallsDone`: `Spec => RangeCallsExact`. `WalkInv` says that in the middle
  of a call the pages from `first` to `current` are changed and all others look
  as they did before it. `ViewAfterStep` is the heart: an iteration changes the
  view of the pages of its chunk and of no other, and the bytes survive the copy
  (`PieceBytes`). It needs `InOrder` (only one region holds a page) and `OwnInv`
  (freeing the block of the region that was cut does not free another's). A range
  that ends at the top takes no iteration, answers true and changes nothing.
- `ActsAsPageTable`: `Spec => ImplementsAddressSpace`. One lemma per action shows
  that it is a step of AddressSpace or none: a map or one iteration of a range
  call changes an interval of descriptors (`TableStep`), a patch covers and
  uncovers (`AddPatchRefines`, `DelPatchRefines`), a store changes one byte of one
  place (`WriteByteRefines`). The store needs all the invariants above together
  (`RefInv`): it goes where the cache says (`PageCacheCoherent`), into the one
  patch over the address (`PatchInv`) or a block that only one region owns
  (`OwnInv`, `InOrder`). `Aligned` is new: an internal region begins at its
  block's first byte and an external one at a page of the host, through every
  split; without it a page would not have one page of the host behind it.

`MemAccessProofs`, for every page size, page table, set of patches and hooks,
and number of changes the callbacks make (`MemAccessAssumption`):

- `WritesWhole`, `ReadsTrue`, `AccessesReported` and `FaultsNamed`: `Spec` implies
  AllOrNothing, ReadsWhatIsThere, ReportedOnce and FaultTruthful. The inductive
  invariant is `Inv`: until the end nothing is stored or reported
  (`NothingYet`); there is a pointer into every page resolved so far
  (`Extent`), so a change of a page without one, in no region of theirs, cannot
  touch what is resolved (`WorkChange`); and the pointers are those the pages give
  (`PointersHold`). A callback that changes a page of a region the access holds a
  pointer into sets `acc.stale`, and WritesWhole and ReadsTrue then say nothing:
  the code goes on with a pointer into a freed block (see Observations).
  The contiguous pass looks at one byte per page only; `StrideCovers` shows
  that this byte answers for the others of its page, but only without patches,
  which is why the pass goes byte by byte under them. `Inv` also bounds the
  tries, which is what makes AccessEnds, checked by TLC, possible.

`StringOpsProofs`, for every page size, widths of addresses (in ascending order,
the narrowest dividing the widest), segment base, memory, permissions, program,
and whatever hooks write and the host does between starts
(`StringOpsAssumption`):

- `RestartsExact` and `EndsDue`: `Spec` implies RestartExact and EndsWhenDue. The
  inductive invariant is `Inv == TypeOK /\ Exact`. Of the state before, inside
  and between iterations `Exact` says what `did` completed iterations leave: in
  the registers, unless a hook of this iteration wrote one (`Registers`; those
  that are not the instruction's own never change, `Untouched`); in what a
  plain instruction goes back to (`Rollback`); in the local copies of
  `execute_rep` (`Locals`); in memory, with at most the next element's store
  ahead (`Memory`); and that the loop is due to go on (`Progress`). A store ahead
  is made again after a restart: storing the same element twice is storing it
  once (`PutTwice`), and it reads the same bytes again (`ReadAgain`) unless it
  overlaps its own source, the state `ghost.tainted` marks. The closed forms move
  by one iteration by lemmas on remainders (`ModShift`, `ModAdd`), which the
  solver does not find. The two recursive functions of the reference, the memory
  after `n` iterations and the least `n` that is due, are taken one step at a
  time by a least counterexample instead of an induction scheme.
- `StepsRunOut`: the safety half of RunEnds. Inside an instruction the count
  `execute_rep` holds is above 0, every step of the engine lowers
  `4 * count + Rank(pc)`, and no step of the host raises it, whatever hooks write
  to RCX. RunEnds itself adds fairness, which stays with TLC.

`AtomicRmwProofs`, for every set of engines, operand size and callback
(`AtomicAssumption`):

- `TypeCorrect`: `Spec => []TypeOK`.
- `Atomicity`: `Spec => ImplementsCell`. The inductive invariant is
  `TypeOK /\ ExpectedOK`: while a CMPXCHG stands before its compare-exchange
  its expected value is the accumulator's. Without it the abstract effect of
  the CMPXCHG could not be computed from the concrete one.

`HooksProofs`, for every table size, type, range and set of reentrant calls
(`HooksAssumption`):

- `TablesSound`: `Spec => []TableSound`, inductive with bounds on the handles.
- `DeletedNeverCalled`: `Spec => NotCalledOnceDeleted`; a walk records only
  handles that were given out, and a deleted handle is never given out again.
- `WalksComplete`: `NoCodeAdd`, `Spec => WalkComplete`. The invariant counts the
  hooks a walk has still ahead of it. `NoCodeAdd` excludes callbacks of code
  hooks that add hooks: then the property is false (see Observations).

`EngineProofs`, for every number of addresses, cache slots, setups and host
calls (`EngineAssumption`, which only says that setups are made of the model's
own sets):

- `ShapesKept`: `Spec => []TypeOK`, with the invariant `Base`: the shape of all
  records, a snapshot exactly while a handler or escape runs, entries whose
  version is not ahead of memory's.
- `ModeKeyValid`: `[]ModeKeyCurrent` under `NoCsCall`.
- `CacheEntriesSound` and `DispatchesCurrent`: `[]CacheSound` and
  `[]DispatchCurrent` under `NoCsCall` and `NoEarlyRip`. The invariant `BytesOK`
  says that an entry of the current version holds the bytes at its tag unless they
  are `dirty`, that each unit a prefetch has copied is the one memory holds unless
  it is `dirty` (`Held`, `HeldWindow`), whatever the hooks between two units do, that
  bytes read ahead are those at rip until the step, and that what is dispatched
  comes from either; `ModesOK` says the same of modes.
- `EscapesTaken`: `[]EscapesHonoured` under `NoEarlyRip`.
- `FaultsAtomic`, `LengthAdvances` and `UdOnlyUndefined`: FaultAtomic,
  AdvancesByLength and UdOnlyForUndefined along behaviours that keep
  `SnapshotTaken`, `HandlersOnly` and `LengthKnown`.

The conditions of the Engine theorems are the behaviour listed under
Observations and nothing else; without its condition each theorem is false, and
the runs choose setups that satisfy them. `NoCsCall`: the host does not write
CS_LONG_MODE or CS_DB with `cpueaxh_reg_write` (`engine_mode_key` shows what
happens if it does). `NoEarlyRip`: no hook before or during the prefetch writes
rip. `SnapshotTaken`: an
instruction classified NO_FAULT starts without a pending exception and is not
XADD. `HandlersOnly`: no 0F 1E NOP is executed. `LengthKnown`: under a
MEM_FETCH hook no defined instruction without a length is dispatched.

`CalcProofs`, for every width of a byte, so for operands of 8 to 64 bits too
(`CalcAssumption` adds only that 2^(j+k) = 2^j * 2^k, which the provers do not
know):

- `SumFlags`, `DifferenceFlags`: CF and OF of ADD, ADC, SUB and SBB are the carry
  or borrow and the signed overflow. calc.hpp computes CF from a wide sum,
  except at 64 bits, where it compares the wrapped result with an operand; and
  AF of ADD and SUB from the bits above the half byte, of ADC and SBB from the
  half bytes. The theorems say that all of these are the same (`HalfSum`,
  `HalfDifference`: the bits at the half are odd in number exactly if the halves
  carry).
- `TwoWordSums`, `TwoWordDifferences`: chained over two words they are exact, with
  the overflow of the whole (`HighDecides`).
- `ConditionsOfCmp`, `TablesAgree`: the sixteen conditions say of the operands of a
  CMP what their names say, in both tables. SF and OF differ exactly if the
  signed operands are ordered (`ComparisonFlags`), and PF of a wide result is that
  of the low byte of the difference (`LowByte`).
- `SignExtends`: a sign-extended word reads as the same number.

Only model-checked:

- liveness (StopHonoured, CountHonoured, WalkEnds, AccessEnds, RmwEnds,
  RunEnds): the prover has no fairness;
- Machine to Guest, and with them ArithmeticExact, ConditionsAgree, ShiftsExact,
  BitsExact, StackDiscipline, FaultsLeaveNothing and ReplayMatchesFresh: bitwise
  operators and a recursive operator keep the prover out. They are checked by
  exhausting operands instead. Of the first two, the arithmetic itself is
  proved in `CalcProofs`; that the instructions read, write and set flags
  around it as they should is not.

## Observations

Three disagreements between code and comment have a run that shows them; the
quotations are under `findings` in `PROJECT.json`.

- `engine_smc`: a guest store into cached code is executed stale.
- `engine_mode_key`: `cpueaxh_reg_write` of CS_DB or CS_LONG_MODE keeps the
  cached mode key.
- `guest_segments`: the probe that fills a cache entry decodes before
  `executor.hpp:285` sets the segment override. MOV of an absolute offset
  (A0 to A3) fixes its address then, XLAT, MOVS, CMPS and LODS their segment, and
  all have a fast handler that uses what was fixed: an FS or GS prefix has no
  effect, and in 32-bit code a base that DS gets later has none on A0 to A3.
  Memory forms with ModRM recompute their address at dispatch and are right.

More was met while modelling. The models keep this behaviour of the code,
and the runs stay clear of it, so that what they show is not hidden behind it:

- The fast path checks the cache at the address read before the pre-hooks and
  dispatches at the rip they leave (`cpueaxh.cpp:1501`), although
  `executor.hpp:499` asks for a hit "at the *current* ctx->rip"; `engine_cache`
  therefore has no pre-hook that writes rip.
- A fetch calls the MEM_FETCH_UNMAPPED and _PROT hooks with part of the window
  already copied (`executor.hpp:57`, `memory.hpp:115`). One that rewrites or
  re-protects those bytes leaves an entry of the old bytes under the new version
  (`executor.hpp:470` commits after the hook's bump): CacheSound and DispatchCurrent
  except such bytes, as they do guest stores. One that writes rip leaves the bytes of
  the old address under the new one; `engine_cache` has no such hook.
- A region that ends at 2^64 has `base + size = 0` (`manager.hpp:410`), so the
  searches never find it (`manager.hpp:435`): accesses to it are unmapped, and its
  pages can be mapped again on top of it, since `mm_has_overlap` does not see it
  either. A range call that ends at 2^64 has `end = 0`: it enters no iteration and
  answers true (`manager.hpp:513`, `manager.hpp:644`). SearchExact and RangeCallsExact
  say this of the top, and to the page table of AddressSpace such a map is no
  change.
- Unmap, protect and set_cpu_attrs rebuild the whole internal region, even for one
  page or the same rights, and free its block (`manager.hpp:508`, `manager.hpp:566`).
  A callback that does this while an access holds a pointer into any page of the
  region has the store or the read go to freed memory (`memory.hpp:485`): the
  properties of MemAccess are stated for accesses that no callback disturbed so.
- `mm_map_host` (`manager.hpp:604`) checks the alignment of the guest address but not
  of the host pointer; MemoryManager has aligned ones.
- A prefetch that stops at a page without execute right leaves its #PF pending
  although the instruction was read (`executor.hpp:57`); an instruction
  classified NO_FAULT then changes registers and the step still faults.
- XADD with a memory operand passes the test meant for the shift group
  (`decoder.hpp:96` compares the low byte of the opcode only), is classified
  NO_FAULT, and keeps its register result when the store faults. The same tests
  meet 0F 8D (JGE) and SSE opcodes whose low byte looks like an ALU opcode.
- A MEM_WRITE hook that raises does not stop the store (`memory.hpp:172`).
  The indices stay, so a restarted MOVS stores the element again; when the
  element overlaps its own source, from bytes the first store changed
  (`ghost.tainted` of StringOps marks it).
- What a hook writes to RCX, RSI or RDI during a string instruction is
  overwritten when the iteration ends, kept by a REP that faults, and undone
  by the rollback of a plain instruction that faults.
- With a MEM_FETCH hook registered, an instruction whose entry has no length
  (no fast wrapper) raises #UD (`executor.hpp:113`).
- The NOP form of 0F 1E has no handler, so rip advances by the
  `last_inst_size` of the instruction before (`decoder.hpp:803`).
- A code hook that adds another one of its type into a free slot behind the
  walk uses up the count the walk was started with, and a hook registered all
  along is skipped (`cpueaxh.cpp:971`).
- After the fourth nonzero answer of an invalid-access hook the access is not
  tried again: the fault is raised even if that answer fixed the page
  (`memory.hpp:115`).
- A locked read-modify-write stores without a MEM_WRITE hook
  (`memory.hpp:584`), and a split one is retried for as long as the hooks ask
  for it (`memory.hpp:220`).
- ENTER and LEAVE decode the width of the stack, which is not in the mode key,
  into their entry: after a new SS a cached one uses the old width
  (`enter.hpp:12`).
- An RIP-relative address is first computed without the length and validated
  (`helper.hpp`, `decode_modrm_*`), so an operand at the edge of the canonical
  half may raise #GP although its final address is good; RORX and POP never
  compute it again.
- A SIB without base zero-extends its displacement where LEA sign-extends it;
  R13 as base selects SS; LEA adds the base of FS or GS to an RIP-relative
  address; stack accesses ignore the base of SS.
- C6 and C7 never become NO_FAULT; MOVZX and MOVSX of a word with a 66 prefix
  raise #UD; ROL and ROR by a multiple of the width leave CF; LOOP with a 32-bit
  address size keeps the upper half of RCX.
- POP SS moves the pointer with the width of the segment it just loaded. A 16- or
  32-bit IRET into 64-bit code leaves RSP and SS 0. A far CALL in 64-bit code
  pushes slots of 8 bytes for any operand size, and a far RET in 32-bit code pops
  slots of 4; a direct far CALL accepts a descriptor with both L and D set.

## Not modelled

- SSE, AVX, EVEX, crypto and x87 instructions: lane arithmetic over hundreds of
  data types without state of its own; to the executor each is an outcome, with
  or without a vector snapshot, and Engine has that.
- LAHF and SAHF (an AH of two bits cannot hold five flags), CRC32 (a polynomial
  over a fixed 32-bit word), MOV to and from control registers and the system
  instructions (CPUID, RDTSC, XGETBV): no property here tells their data apart.
- `emu_start_function`, which plants a return address around `emu_start`, and the
  calls of the API that only read.
- The assembly host bridge, the kernel build, examples, tests and tools.
- `code_version` values, handles and the number of host calls are bounded in the
  models; the index of the escapes is a byte in the code and never reaches it.

## Plan

The modules above are complete for the components they name, and the theorems
cover every safety property of the runs that the provers can reach. What is
left needs other tools: liveness (a proof system with fairness), and the
instruction operators above Calc (a solver for bitwise operators, or a
formulation of them without).
