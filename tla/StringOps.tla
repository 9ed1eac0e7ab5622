----------------------------- MODULE StringOps ------------------------------
(***************************************************************************)
(* The string instructions: MOVS, CMPS, STOS, LODS and SCAS, alone and     *)
(* under REP/REPNE (instructions/rep.hpp and the five files it includes),  *)
(* as the executor runs them: an exception ends the step, the host may     *)
(* repair the cause and start again at the same rip, and the hooks of the  *)
(* accesses run in the middle of an iteration.                             *)
(*                                                                         *)
(* A cell is a byte and an element has operand_size / 8 of them.  Address  *)
(* widths are scaled: Span[w] addresses stand for 2^w, and registers are   *)
(* numbers below Span[64].  Of the flags only ZF, which ends a scan, and   *)
(* DF are kept.  A multi-byte access is one step here; MemAccess shows     *)
(* that it happens as a whole or not at all.                               *)
(***************************************************************************)
EXTENDS Integers, FiniteSets

CONSTANTS
  Span,       \* how many addresses 16, 32 and 64 bits have
  PageSize,
  CanonLow,   \* the canonical addresses: the lowest and the highest CanonLow
  SegBase,    \* bases of the segments in their descriptors
  Programs,   \* instructions with the registers they start from
  InitMems,   \* memories they start with
  InitPerms,  \* page permissions they start with
  Protects,   \* what the host may do to pages: <<page, permissions>>
  RegValues,  \* what callbacks write to registers
  MaxCalls    \* bound on what the host does

Top      == Span[64]
Cells    == 0..Top-1
PageNos  == 0..(Top \div PageSize)-1
Perms    == {"none", "r", "rw"}
Segments == {"ds", "es"}
Val      == {0, 1}

ASSUME StringOpsAssumption ==
  /\ \A w \in {16, 32, 64} : Span[w] \in Nat \ {0}
  /\ Span[16] <= Span[32] /\ Span[32] <= Span[64] /\ Span[64] % Span[16] = 0 /\ Span[64] > 8
  /\ PageSize \in Nat \ {0} /\ Span[64] % PageSize = 0
  /\ CanonLow \in Nat /\ 2 * CanonLow <= Span[64]
  /\ SegBase \in [Segments -> Cells] /\ RegValues \subseteq Cells /\ MaxCalls \in Nat
  /\ Protects \subseteq PageNos \X Perms
  /\ InitMems \subseteq [Cells -> Val] /\ InitPerms \subseteq [PageNos -> Perms]
  /\ Programs \subseteq
       [op : {"movs", "cmps", "stos", "lods", "scas"}, rep : {"none", "F2", "F3"},
        prefixes : SUBSET {"66", "67", "rexw", "lock"}, wide : BOOLEAN, long : BOOLEAN,
        df : BOOLEAN, rsi : Cells, rdi : Cells, rcx : Cells]

VARIABLES
  prog,   \* the instruction: op, rep prefix, wide form, prefixes, mode, DF
  cpu,    \* rsi, rdi, rcx, the bytes of rax, and ZF
  mem,    \* the guest's bytes
  perm,   \* permissions of the pages
  run,    \* where the instruction stands, and its locals
  calls,  \* what the host did so far
  ghost   \* for the properties only: the start, the iterations completed, and more

vars == <<prog, cpu, mem, perm, run, calls, ghost>>

-----------------------------------------------------------------------------
(* Decoding                                                                *)

Has(p, prefix) == prefix \in p.prefixes

decode_operand_size(p) ==
  IF ~p.wide THEN 8
  ELSE IF p.long /\ Has(p, "rexw") THEN 64
  ELSE IF Has(p, "66") THEN 16 ELSE 32

decode_address_size(p) ==
  IF p.long THEN IF Has(p, "67") THEN 32 ELSE 64
            ELSE IF Has(p, "67") THEN 16 ELSE 32

Decoded(p) ==
  [opsize |-> decode_operand_size(p), asize |-> decode_address_size(p), ud |-> Has(p, "lock")]

\* The source of MOVS, CMPS and LODS is in DS whatever the prefixes say: the entry is decoded
\* before the executor puts the segment override into the context.  The destination is in ES.
decode_movs_instruction(p) == Decoded(p)
decode_cmps_instruction(p) == Decoded(p)
decode_lods_instruction(p) == Decoded(p)
decode_stos_instruction(p) == Decoded(p)
decode_scas_instruction(p) == Decoded(p)

decode_rep_target(p) ==
  CASE p.op = "movs" -> decode_movs_instruction(p)
    [] p.op = "cmps" -> decode_cmps_instruction(p)
    [] p.op = "stos" -> decode_stos_instruction(p)
    [] p.op = "lods" -> decode_lods_instruction(p)
    [] p.op = "scas" -> decode_scas_instruction(p)

inst == decode_rep_target(prog)
step == inst.opsize \div 8
Repeated == prog.rep # "none"

-----------------------------------------------------------------------------
(* Registers and addresses                                                 *)

\* get_reg16/32/64.
Low(v, w) == v % Span[w]

\* set_reg16 keeps the bits above, set_reg32 clears them.
SetReg(old, w, v) == IF w = 16 THEN old - Low(old, w) + Low(v, w) ELSE Low(v, w)

\* In 64-bit code only FS and GS have a base.
cpu_segment_base(seg) == IF prog.long THEN 0 ELSE SegBase[seg]

SrcAddr(index) == (cpu_segment_base("ds") + index) % Top
DstAddr(index) == (cpu_segment_base("es") + index) % Top

Canonical(a) == prog.long => a < CanonLow \/ a >= Top - CanonLow

Elem(m, a) == [i \in 0..step-1 |-> m[(a + i) % Top]]
Put(m, a, v) ==
  [c \in Cells |-> IF (c - a) % Top < step THEN v[(c - a) % Top] ELSE m[c]]
ElemCells(a) == {(a + i) % Top : i \in 0..step-1}

\* The element of an accumulator, and the accumulator with an element put into it:
\* 8 and 16 bits keep the bytes above, 32 bits clear them.
Accumulator(rax) == [i \in 0..step-1 |-> rax[i]]
write_lods_accumulator(rax, v) ==
  [i \in 0..7 |-> IF i < step THEN v[i] ELSE IF step = 4 THEN 0 ELSE rax[i]]

\* update_flags_sub8..64, of which ZF is kept.
update_cmps_flags(source, dest) == source = dest
update_scas_flags(accumulator, value) == accumulator = value

-----------------------------------------------------------------------------
(* The executor around the instruction                                     *)

Init ==
  /\ prog \in Programs /\ mem \in InitMems /\ perm \in InitPerms
  /\ cpu = [rsi |-> prog.rsi, rdi |-> prog.rdi, rcx |-> prog.rcx,
            rax |-> [i \in 0..7 |-> 1], zf |-> FALSE]
  /\ run = [pc |-> "fetched", exc |-> "none", saved |-> cpu, count |-> 0, si |-> 0,
            di |-> 0, val |-> [i \in {} |-> 0], val2 |-> [i \in {} |-> 0], wrote |-> FALSE]
  /\ calls = 0
  /\ ghost = [cpu |-> cpu, mem |-> mem, did |-> 0, ahead |-> FALSE, tainted |-> FALSE,
              wrote |-> FALSE]

Break_NoProgress(exc, ahead, taint) ==  \* mutant: REP is rolled back like the others
  /\ run' = [run EXCEPT !.pc = "stopped", !.exc = exc]
  /\ cpu' = run.saved
  /\ ghost' = [ghost EXCEPT !.ahead = ahead, !.tainted = @ \/ taint]

\* cpu_step_finish under an exception: rip stays, and the registers go back to what they
\* were unless the instruction is flagged PARTIAL_PROGRESS.
Break(exc, ahead, taint) ==
  /\ run' = [run EXCEPT !.pc = "stopped", !.exc = exc]
  /\ cpu' = IF Repeated THEN cpu ELSE run.saved
  /\ ghost' = [ghost EXCEPT !.ahead = ahead, !.tainted = @ \/ taint]

\* A hook's write to the registers of a REP survives the exception.
HookLeftRegister == Repeated /\ run.wrote

Stop(exc) == Break(exc, ghost.ahead, HookLeftRegister)

\* execute_rep up to its loop; without a prefix there is one iteration.
Begin ==
  /\ run.pc = "fetched"
  /\ LET count == IF Repeated THEN Low(cpu.rcx, inst.asize) ELSE 1
     IN  IF inst.ud THEN Stop("ud")
         ELSE /\ run' = [run EXCEPT !.pc = IF count = 0 THEN "done" ELSE "iter",
                                    !.count = count, !.saved = cpu, !.wrote = FALSE]
              /\ UNCHANGED <<cpu, ghost>>
  /\ UNCHANGED <<prog, mem, perm, calls>>

-----------------------------------------------------------------------------
(* The accesses of an iteration                                            *)

Refused(a, right) ==
  {i \in 0..step-1 : LET c == (a + i) % Top
                     IN  ~Canonical(c) \/ perm[c \div PageSize] \notin right}

\* What the access raises, decided by its first refused byte.
AccessFault(a, right) ==
  LET first == CHOOSE i \in Refused(a, right) : \A j \in Refused(a, right) : i <= j
  IN  IF Canonical((a + first) % Top) THEN "pf" ELSE "gp"

\* read_memory_*: the value is there before the MEM_READ hooks run.
Read(a, pc, locals) ==
  IF Refused(a, {"r", "rw"}) # {} THEN Stop(AccessFault(a, {"r", "rw"}))
  ELSE run' = [locals EXCEPT !.pc = pc, !.val2 = locals.val, !.val = Elem(mem, a)]
       /\ UNCHANGED <<cpu, ghost>>

\* write_memory_*: up to the MEM_WRITE hooks, which run before the store.
Write(a, locals) ==
  IF Refused(a, {"rw"}) # {} THEN Stop(AccessFault(a, {"rw"}))
  ELSE run' = [locals EXCEPT !.pc = "write"] /\ UNCHANGED <<cpu, ghost>>

\* The locals source_index and dest_index of an iteration.
Indices == [run EXCEPT !.si = Low(cpu.rsi, inst.asize), !.di = Low(cpu.rdi, inst.asize)]

RepEnds_ZfSwapped(left, zf) ==  \* mutant: REPE ends on equal, REPNE on unequal
  \/ left = 0
  \/ prog.op \in {"cmps", "scas"} /\ zf = (prog.rep = "F3")

\* The loop's tests after an iteration: the count first, then ZF for a scan.
RepEnds(left, zf) ==
  \/ left = 0
  \/ prog.op \in {"cmps", "scas"} /\ zf = (prog.rep = "F2")

Advance_NoCount(moved, rax, zf) ==  \* mutant: the count stays
  LET delta == IF prog.df THEN -step ELSE step
      index(r, i) == IF r \in moved THEN SetReg(cpu[r], inst.asize, i + delta) ELSE cpu[r]
  IN  /\ cpu' = [cpu EXCEPT !.rsi = index("rsi", run.si), !.rdi = index("rdi", run.di),
                            !.rax = rax, !.zf = zf]
      /\ run' = [run EXCEPT !.pc = IF RepEnds(run.count, zf) THEN "done" ELSE "iter",
                            !.wrote = FALSE]
      /\ UNCHANGED ghost

\* The end of an iteration that raised nothing: the indices move by the element size, the
\* way DF says, from the locals; the count goes down from its local.
Advance(moved, rax, zf) ==
  LET delta == IF prog.df THEN -step ELSE step
      index(r, i) == IF r \in moved THEN SetReg(cpu[r], inst.asize, i + delta) ELSE cpu[r]
      left == run.count - 1
  IN  /\ cpu' = [cpu EXCEPT !.rsi = index("rsi", run.si), !.rdi = index("rdi", run.di),
                            !.rcx = IF Repeated THEN SetReg(@, inst.asize, left) ELSE @,
                            !.rax = rax, !.zf = zf]
      /\ run' = [run EXCEPT !.pc = IF RepEnds(left, zf) THEN "done" ELSE "iter",
                            !.count = left, !.wrote = FALSE]
      /\ ghost' = [ghost EXCEPT !.did = @ + 1, !.ahead = FALSE]

\* The hooks of the access return: what they raised ends the instruction.
AfterHooks(action) == IF run.exc # "none" THEN Stop(run.exc) ELSE action

-----------------------------------------------------------------------------
(* The five instructions                                                   *)

\* cpu_validate_linear_address of both addresses; only one in SS would raise #SS.
Validated(s, d, action) == IF Canonical(s) /\ Canonical(d) THEN action ELSE Stop("gp")

\* The store follows the MEM_WRITE hooks whether or not they raised something.  Storing
\* again what overlaps its own source is not the same store.
Store(a, v, self_overlap, action) ==
  /\ mem' = Put(mem, a, v)
  /\ IF run.exc # "none"
     THEN Break(run.exc, TRUE, self_overlap \/ HookLeftRegister)
     ELSE action

execute_movs ==
  /\ prog.op = "movs"
  /\ LET s == SrcAddr(Indices.si)
         from == ElemCells(SrcAddr(run.si))
         to   == ElemCells(DstAddr(run.di))
     IN  \/ /\ run.pc = "iter"
            /\ Validated(s, DstAddr(Indices.di), Read(s, "read", Indices))
            /\ UNCHANGED mem
         \/ /\ run.pc = "read"
            /\ AfterHooks(Write(DstAddr(run.di), run)) /\ UNCHANGED mem
         \/ /\ run.pc = "write"
            /\ Store(DstAddr(run.di), run.val, from # to /\ from \cap to # {},
                     Advance({"rsi", "rdi"}, cpu.rax, cpu.zf))

execute_stos ==
  /\ prog.op = "stos"
  /\ \/ /\ run.pc = "iter"
        /\ Write(DstAddr(Indices.di), [Indices EXCEPT !.val = Accumulator(cpu.rax)])
        /\ UNCHANGED mem
     \/ /\ run.pc = "write"
        /\ Store(DstAddr(run.di), run.val, FALSE, Advance({"rdi"}, cpu.rax, cpu.zf))

execute_lods ==
  /\ prog.op = "lods" /\ UNCHANGED mem
  /\ LET s == SrcAddr(Indices.si)
     IN  \/ run.pc = "iter" /\ Validated(s, s, Read(s, "read", Indices))
         \/ /\ run.pc = "read"
            /\ AfterHooks(Advance({"rsi"}, write_lods_accumulator(cpu.rax, run.val), cpu.zf))

execute_scas ==
  /\ prog.op = "scas" /\ UNCHANGED mem
  /\ \/ run.pc = "iter" /\ Read(DstAddr(Indices.di), "read", Indices)
     \/ /\ run.pc = "read"
        /\ AfterHooks(Advance({"rdi"}, cpu.rax,
                              update_scas_flags(Accumulator(cpu.rax), run.val)))

execute_cmps ==
  /\ prog.op = "cmps" /\ UNCHANGED mem
  /\ LET s == SrcAddr(Indices.si)
     IN  \/ /\ run.pc = "iter"
            /\ Validated(s, DstAddr(Indices.di), Read(s, "read", Indices))
         \/ run.pc = "read" /\ AfterHooks(Read(DstAddr(run.di), "read2", run))
         \/ /\ run.pc = "read2"
            /\ AfterHooks(Advance({"rsi", "rdi"}, cpu.rax, update_cmps_flags(run.val2, run.val)))

execute_rep_iteration ==
  /\ execute_movs \/ execute_cmps \/ execute_stos \/ execute_lods \/ execute_scas
  /\ UNCHANGED <<prog, perm, calls>>

-----------------------------------------------------------------------------
(* The host                                                                *)

InCallback == run.pc \in {"read", "read2", "write"}

HostCall(here) ==
  /\ here /\ calls < MaxCalls /\ calls' = calls + 1 /\ UNCHANGED <<prog, mem>>

\* cpueaxh_mem_protect, between runs or from a hook.
HostProtect(p, rights) ==
  /\ HostCall(InCallback \/ run.pc = "stopped") /\ perm[p] # rights
  /\ perm' = [perm EXCEPT ![p] = rights]
  /\ UNCHANGED <<cpu, run, ghost>>

\* cpueaxh_exception_raise from a hook.
HostRaise ==
  /\ HostCall(InCallback) /\ run.exc = "none"
  /\ run' = [run EXCEPT !.exc = "host"]
  /\ UNCHANGED <<cpu, perm, ghost>>

\* The registers the instruction moves.
OwnRegs == (IF prog.op \in {"movs", "cmps", "lods"} THEN {"rsi"} ELSE {})
           \cup (IF prog.op # "lods" THEN {"rdi"} ELSE {})
           \cup (IF Repeated THEN {"rcx"} ELSE {})

\* cpueaxh_reg_write of one of them from a hook.
HostWritesRegister(r, v) ==
  /\ HostCall(InCallback) /\ r \in OwnRegs
  /\ cpu' = [cpu EXCEPT ![r] = v]
  /\ run' = [run EXCEPT !.wrote = TRUE]
  /\ ghost' = [ghost EXCEPT !.wrote = TRUE]
  /\ UNCHANGED perm

\* The host starts again at the rip the exception left.
Resume ==
  /\ run.pc = "stopped"
  /\ run' = [run EXCEPT !.pc = "fetched", !.exc = "none"]
  /\ UNCHANGED <<prog, cpu, mem, perm, calls, ghost>>

\* rip moves on: another instruction's business.
Finished == run.pc = "done" /\ UNCHANGED vars

EngineNext == Begin \/ execute_rep_iteration

Next ==
  \/ EngineNext \/ Resume \/ HostRaise \/ Finished
  \/ \E c \in Protects : HostProtect(c[1], c[2])
  \/ \E r \in {"rsi", "rdi", "rcx"}, v \in RegValues : HostWritesRegister(r, v)

Spec == Init /\ [][Next]_vars

\* The engine's thread keeps running and hooks return; the host need not resume.
FairSpec == Spec /\ WF_vars(EngineNext)

-----------------------------------------------------------------------------
(* Reference: the n-th iteration of the instruction from where it started  *)

Moved(index, n) == index + (IF prog.df THEN -(n * step) ELSE n * step)
SrcAt(n) == SrcAddr(Low(Moved(ghost.cpu.rsi, n), inst.asize))
DstAt(n) == DstAddr(Low(Moved(ghost.cpu.rdi, n), inst.asize))

Requested == IF Repeated THEN Low(ghost.cpu.rcx, inst.asize) ELSE 1

\* Memory after n iterations.
MemAfter(n) ==
  LET f[k \in 0..n] ==
        IF k = 0 THEN ghost.mem
        ELSE CASE prog.op = "movs" -> Put(f[k-1], DstAt(k-1), Elem(f[k-1], SrcAt(k-1)))
               [] prog.op = "stos" -> Put(f[k-1], DstAt(k-1), Accumulator(ghost.cpu.rax))
               [] OTHER -> f[k-1]
  IN  f[n]

\* What the k-th iteration compares.
Equal(k) == Elem(ghost.mem, DstAt(k)) =
              IF prog.op = "cmps" THEN Elem(ghost.mem, SrcAt(k))
              ELSE Accumulator(ghost.cpu.rax)

\* How many iterations the instruction has: a scan ends at the first element that
\* differs (REPE) or is equal (REPNE).
Due ==
  IF prog.op \notin {"cmps", "scas"} \/ ~Repeated THEN Requested
  ELSE LET hits == {k \in 0..Requested-1 : Equal(k) = (prog.rep = "F2")}
       IN  IF hits = {} THEN Requested
           ELSE (CHOOSE k \in hits : \A j \in hits : k <= j) + 1

\* A register after n moves in a width: untouched by none, merged by 16 bits.
RegAfter(start, w, n, v) ==
  IF n = 0 THEN start
  ELSE IF w = 16 THEN (start \div Span[16]) * Span[16] + Low(v, 16) ELSE Low(v, w)

IndexAfter(r, n) ==
  IF r \in OwnRegs THEN RegAfter(ghost.cpu[r], inst.asize, n, Moved(ghost.cpu[r], n))
  ELSE ghost.cpu[r]
CountAfter(n) ==
  IF Repeated THEN RegAfter(ghost.cpu.rcx, inst.asize, n, Requested - n) ELSE ghost.cpu.rcx

\* A callback may leave other bits above the 16 that the instruction owns.
SameReg(v, expected) ==
  IF inst.asize = 16 /\ ghost.wrote THEN Low(v, 16) = Low(expected, 16) ELSE v = expected

-----------------------------------------------------------------------------
(* Properties                                                              *)

Boundary == run.pc \in {"fetched", "iter", "stopped", "done"}

\* executor.hpp, PARTIAL_PROGRESS: wherever faults, hooks and restarts break a string
\* instruction off, registers and memory are those of a whole number of iterations from
\* its start, so that starting again continues it.  One store may be ahead, when the
\* MEM_WRITE hook raised; an element that overlaps its own source is then copied from
\* what it overwrote, and a register a hook wrote before a fault stays.
RestartExact ==
  Boundary /\ ~ghost.tainted =>
    /\ SameReg(cpu.rsi, IndexAfter("rsi", ghost.did))
    /\ SameReg(cpu.rdi, IndexAfter("rdi", ghost.did))
    /\ SameReg(cpu.rcx, CountAfter(ghost.did))
    /\ mem = MemAfter(IF ghost.ahead THEN ghost.did + 1 ELSE ghost.did)
    /\ cpu.zf = IF prog.op \in {"cmps", "scas"} /\ ghost.did > 0
                THEN Equal(ghost.did - 1) ELSE ghost.cpu.zf
    /\ cpu.rax = IF prog.op = "lods" /\ ghost.did > 0
                 THEN write_lods_accumulator(ghost.cpu.rax, Elem(mem, SrcAt(ghost.did - 1)))
                 ELSE ghost.cpu.rax

\* rep.hpp, execute_rep: however often it was broken off, the instruction ends after the
\* iterations its count and its elements ask for, no earlier and no later.
EndsWhenDue ==
  /\ ~ghost.tainted => ghost.did <= Due
  /\ run.pc = "done" /\ ~ghost.tainted => ghost.did = Due

\* rep.hpp, execute_rep: whatever hooks write to RCX, RSI and RDI while it runs, the
\* instruction ends or stops with an exception.
RunEnds == run.pc \notin {"stopped", "done"} ~> run.pc \in {"stopped", "done"}

=============================================================================
