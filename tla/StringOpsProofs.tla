-------------------------- MODULE StringOpsProofs ---------------------------
(***************************************************************************)
(* Proofs about StringOps: a string instruction that faults, hooks and     *)
(* restarts break off any number of times leaves what a whole number of    *)
(* iterations leaves, and ends after those its count and its elements ask  *)
(* for, for every program, memory, address width and page layout.          *)
(***************************************************************************)
EXTENDS StringOps, TLAPS, WellFoundedInduction

-----------------------------------------------------------------------------
(* The inductive invariant                                                 *)

\* What the shapes of the registers and of the locals are.
IsCpu(c) ==
  /\ c = [rsi |-> c.rsi, rdi |-> c.rdi, rcx |-> c.rcx, rax |-> c.rax, zf |-> c.zf]
  /\ c.rsi \in Int /\ c.rdi \in Int /\ c.rcx \in Int

IsRun ==
  /\ run = [pc |-> run.pc, exc |-> run.exc, saved |-> run.saved, count |-> run.count,
            si |-> run.si, di |-> run.di, val |-> run.val, val2 |-> run.val2,
            wrote |-> run.wrote]
  /\ run.pc \in {"fetched", "iter", "read", "read2", "write", "stopped", "done"}
  /\ run.count \in Int /\ run.si \in Int /\ run.di \in Int

IsGhost ==
  /\ ghost = [cpu |-> ghost.cpu, mem |-> ghost.mem, did |-> ghost.did, ahead |-> ghost.ahead,
              tainted |-> ghost.tainted, wrote |-> ghost.wrote]
  /\ ghost.did \in Nat

TypeOK ==
  /\ prog \in Programs /\ IsRun /\ IsGhost
  /\ IsCpu(cpu) /\ IsCpu(run.saved) /\ IsCpu(ghost.cpu)
  /\ ghost.cpu.rsi \in Nat /\ ghost.cpu.rdi \in Nat /\ ghost.cpu.rcx \in Nat
  /\ run.wrote => ghost.wrote

\* The registers c are those after n iterations.
RegsAfter(c, n) ==
  /\ SameReg(c.rsi, IndexAfter("rsi", n))
  /\ SameReg(c.rdi, IndexAfter("rdi", n))
  /\ SameReg(c.rcx, CountAfter(n))

FlagsAfter(c, n) ==
  /\ c.zf = IF prog.op \in {"cmps", "scas"} /\ n > 0 THEN Equal(n - 1) ELSE ghost.cpu.zf
  /\ c.rax = IF prog.op = "lods" /\ n > 0
             THEN write_lods_accumulator(ghost.cpu.rax, Elem(ghost.mem, SrcAt(n - 1)))
             ELSE ghost.cpu.rax

\* The registers that are not the instruction's.
Untouched(c) ==
  /\ "rsi" \notin OwnRegs => c.rsi = ghost.cpu.rsi
  /\ "rdi" \notin OwnRegs => c.rdi = ghost.cpu.rdi
  /\ "rcx" \notin OwnRegs => c.rcx = ghost.cpu.rcx

\* The registers are right wherever no hook of this iteration wrote one.
Registers ==
  /\ Boundary \/ ~run.wrote => RegsAfter(cpu, ghost.did)
  /\ Untouched(cpu)
  /\ FlagsAfter(cpu, ghost.did)

\* What an instruction without REP goes back to is its start.
Rollback ==
  ~Repeated /\ run.pc # "done" =>
    /\ ghost.did = 0
    /\ RegsAfter(run.saved, 0) /\ Untouched(run.saved) /\ FlagsAfter(run.saved, 0)

Iterating == run.pc \in {"iter", "read", "read2", "write"}

\* The locals of the iteration at hand do not depend on what hooks write.
Locals ==
  /\ Iterating => run.count = Requested - ghost.did /\ run.count > 0
  /\ InCallback =>
       /\ "rsi" \in OwnRegs => run.si = Low(Moved(ghost.cpu.rsi, ghost.did), inst.asize)
       /\ "rdi" \in OwnRegs => run.di = Low(Moved(ghost.cpu.rdi, ghost.did), inst.asize)

\* What an iteration does to memory m, and the memory a number of iterations reach.
Does(m, k) ==
  CASE prog.op = "movs" -> Put(m, DstAt(k), Elem(m, SrcAt(k)))
    [] prog.op = "stos" -> Put(m, DstAt(k), Accumulator(ghost.cpu.rax))
    [] OTHER -> m

Unfolds(f, n) == f = [k \in 0..n |-> IF k = 0 THEN ghost.mem ELSE Does(f[k-1], k-1)]

Reached(m, n) == \E f : Unfolds(f, n) /\ m = f[n]

\* The element at hand may be stored twice: it is its own source or apart from it.
Storable(n) ==
  \/ ElemCells(SrcAt(n)) = ElemCells(DstAt(n))
  \/ ElemCells(SrcAt(n)) \cap ElemCells(DstAt(n)) = {}

\* What the iteration has read when it is at pc, from the memory m before it.
Reads(m, pc, val, val2) ==
  /\ prog.op = "movs" /\ pc \in {"read", "write"} => val = Elem(m, SrcAt(ghost.did))
  /\ prog.op = "stos" /\ pc = "write" => val = Accumulator(ghost.cpu.rax)
  /\ prog.op \in {"lods", "cmps"} /\ pc = "read" => val = Elem(m, SrcAt(ghost.did))
  /\ prog.op = "scas" /\ pc = "read" => val = Elem(m, DstAt(ghost.did))
  /\ prog.op = "cmps" /\ pc = "read2" =>
       val2 = Elem(m, SrcAt(ghost.did)) /\ val = Elem(m, DstAt(ghost.did))

Values(m) == Reads(m, run.pc, run.val, run.val2)

\* m is the memory after the iterations done; one store may be ahead of it.
MemoryIs(m) ==
  /\ mem = IF ghost.ahead THEN Does(m, ghost.did) ELSE m
  /\ prog.op \notin {"movs", "stos"} => m = ghost.mem
  /\ prog.op = "movs" /\ ghost.ahead => Storable(ghost.did)
  /\ Values(m)

Memory == \E m : Reached(m, ghost.did) /\ MemoryIs(m)

\* An element that ends a scan.
Hit(k) == prog.op \in {"cmps", "scas"} /\ Repeated /\ Equal(k) = (prog.rep = "F2")

Progress ==
  /\ ghost.did <= Requested
  /\ run.pc = "done" => ghost.did = Due
  /\ run.pc # "done" => \A k \in 0..ghost.did-1 : ~Hit(k)

Exact == ghost.tainted \/ (Registers /\ Rollback /\ Locals /\ Memory /\ Progress)

Inv == TypeOK /\ Exact

-----------------------------------------------------------------------------
(* Arithmetic of the address widths                                        *)

LEMMA ModRange ==
  ASSUME NEW v \in Int, NEW S \in Nat \ {0}
  PROVE  v % S \in 0..S-1 /\ v % S \in Nat
  OBVIOUS

\* A multiple of the modulus does not show.
LEMMA ModShift ==
  ASSUME NEW S \in Nat \ {0}, NEW q \in Int, NEW y \in Int
  PROVE  (q * S + y) % S = y % S
<1> DEFINE p == y \div S
           r == y % S
<1>1. p \in Int /\ r \in 0..S-1 /\ y = p * S + r
  OBVIOUS
<1> HIDE DEF p, r
<1>2. q * S + y = (q + p) * S + r
  <2>1. (q + p) * S = q * S + p * S
    BY <1>1
  <2>2. q * S \in Int /\ p * S \in Int
    BY <1>1
  <2> QED
    BY <1>1, <2>1, <2>2
<1>3. ASSUME NEW t \in Int PROVE (t * S + r) % S = r
  BY <1>1
<1>4. (q + p) \in Int
  BY <1>1
<1>5. ((q + p) * S + r) % S = r
  <2> DEFINE t == q + p
  <2>1. t \in Int
    BY <1>4
  <2> HIDE DEF t
  <2>2. (t * S + r) % S = r
    BY <1>3, <2>1
  <2> QED
    BY <2>2 DEF t
<1> QED
  BY <1>2, <1>5 DEF r

LEMMA ModSmall ==
  ASSUME NEW S \in Nat \ {0}, NEW v \in 0..S-1
  PROVE  v % S = v
  OBVIOUS

LEMMA ModMod ==
  ASSUME NEW S \in Nat \ {0}, NEW v \in Int
  PROVE  (v % S) % S = v % S
  BY ModRange, ModSmall

LEMMA ModAdd ==
  ASSUME NEW S \in Nat \ {0}, NEW x \in Int, NEW d \in Int
  PROVE  ((x % S) + d) % S = (x + d) % S
<1> DEFINE q == x \div S
           r == x % S
<1>1. q \in Int /\ r \in Int /\ x = q * S + r
  OBVIOUS
<1> HIDE DEF q, r
<1>2. x + d = q * S + (r + d)
  BY <1>1
<1>3. r + d \in Int
  BY <1>1
<1>4. (q * S + (r + d)) % S = (r + d) % S
  BY <1>1, <1>3, ModShift
<1> QED
  BY <1>2, <1>4 DEF r

\* Above the bits of a width: what a 16-bit write keeps.
LEMMA AboveKept ==
  ASSUME NEW S \in Nat \ {0}, NEW s \in Int, NEW y \in Int
  PROVE  /\ s - (s % S) = (s \div S) * S
         /\ (((s \div S) * S) + (y % S)) % S = y % S
         /\ (((s \div S) * S) + (y % S)) - ((((s \div S) * S) + (y % S)) % S) = (s \div S) * S
<1> DEFINE q == s \div S
           r == y % S
<1>1. q \in Int /\ r \in 0..S-1 /\ s = q * S + (s % S) /\ q * S \in Int /\ s % S \in Int
  OBVIOUS
<1>2. s - (s % S) = q * S
  BY <1>1
<1> HIDE DEF q, r
<1>3. (q * S + r) % S = r
  <2>1. r \in Int
    BY <1>1
  <2>2. (q * S + r) % S = r % S
    BY <1>1, <2>1, ModShift
  <2> QED
    BY <1>1, <2>2, ModSmall
<1>4. (q * S + r) - r = q * S
  BY <1>1
<1> QED
  BY <1>2, <1>3, <1>4 DEF q, r

\* Cells around the top of the address space.
LEMMA WrapAdd ==
  ASSUME NEW T \in Nat \ {0}, NEW a \in 0..T-1, NEW i \in 0..T-1
  PROVE  (a + i) % T = IF a + i < T THEN a + i ELSE a + i - T
<1>1. CASE a + i < T
  BY <1>1, ModSmall
<1>2. CASE ~(a + i < T)
  <2> DEFINE y == (a + i) - T
  <2>1. y \in 0..T-1 /\ a + i = T + y /\ y \in Int
    BY <1>2
  <2> HIDE DEF y
  <2>2. (T + y) % T = y % T
    <3> DEFINE one == 1
    <3>1. one \in Int /\ one * T = T
      BY <2>1
    <3> HIDE DEF one
    <3>2. (one * T + y) % T = y % T
      BY <2>1, <3>1, ModShift
    <3> QED
      BY <3>1, <3>2
  <2>3. y % T = y
    BY <2>1, ModSmall
  <2> QED
    BY <1>2, <2>1, <2>2, <2>3 DEF y
<1> QED
  BY <1>1, <1>2

LEMMA WrapSub ==
  ASSUME NEW T \in Nat \ {0}, NEW a \in 0..T-1, NEW c \in 0..T-1
  PROVE  (c - a) % T = IF c >= a THEN c - a ELSE (c - a) + T
<1>1. CASE c >= a
  BY <1>1, ModSmall
<1>2. CASE ~(c >= a)
  <2> DEFINE y == (c - a) + T
  <2>1. y \in 0..T-1 /\ c - a = (-T) + y /\ y \in Int
    BY <1>2
  <2> HIDE DEF y
  <2>2. ((-T) + y) % T = y % T
    <3> DEFINE one == -1
    <3>1. one \in Int /\ one * T = -T
      BY <2>1
    <3> HIDE DEF one
    <3>2. (one * T + y) % T = y % T
      BY <2>1, <3>1, ModShift
    <3> QED
      BY <3>1, <3>2
  <2>3. y % T = y
    BY <2>1, ModSmall
  <2> QED
    BY <1>2, <2>1, <2>2, <2>3 DEF y
<1> QED
  BY <1>1, <1>2

-----------------------------------------------------------------------------
(* The instruction's sizes and registers                                   *)

Widths == {16, 32, 64}

LEMMA Sizes ==
  ASSUME prog \in Programs
  PROVE  /\ inst.asize \in Widths /\ step \in {1, 2, 4, 8}
         /\ Top \in Nat \ {0} /\ Top > 8
         /\ \A w \in Widths : Span[w] \in Nat \ {0}
         /\ prog.op \in {"movs", "cmps", "stos", "lods", "scas"}
         /\ prog.rep \in {"none", "F2", "F3"}
         /\ SegBase \in [Segments -> Cells]
<1>1. /\ prog.op \in {"movs", "cmps", "stos", "lods", "scas"}
      /\ prog.rep \in {"none", "F2", "F3"}
  BY StringOpsAssumption
<1>2. /\ inst.opsize = decode_operand_size(prog)
      /\ inst.asize = decode_address_size(prog)
  BY <1>1 DEF inst, decode_rep_target, decode_movs_instruction, decode_cmps_instruction,
       decode_stos_instruction, decode_lods_instruction, decode_scas_instruction, Decoded
<1>3. inst.opsize \in {8, 16, 32, 64} /\ inst.asize \in Widths
  BY <1>2 DEF decode_operand_size, decode_address_size, Widths
<1>4. step \in {1, 2, 4, 8}
  BY <1>3 DEF step
<1>5. \A w \in Widths : Span[w] \in Nat \ {0}
  BY StringOpsAssumption DEF Widths
<1>6. Top \in Nat \ {0} /\ Top > 8
  BY StringOpsAssumption DEF Top
<1> QED
  BY <1>1, <1>3, <1>4, <1>5, <1>6, StringOpsAssumption

LEMMA LowType ==
  ASSUME NEW v \in Int, NEW w \in Widths
  PROVE  Low(v, w) \in Int /\ Low(v, w) >= 0 /\ Low(v, w) < Span[w] /\ Low(Low(v, w), w) = Low(v, w)
<1>1. Span[w] \in Nat \ {0}
  BY StringOpsAssumption DEF Widths
<1> DEFINE S == Span[w]
<1>2. v % S \in 0..S-1 /\ (v % S) % S = v % S
  <2> HIDE DEF S
  <2> QED BY <1>1, ModRange, ModMod DEF S
<1> QED
  BY <1>1, <1>2 DEF Low

LEMMA LowAdd ==
  ASSUME NEW v \in Int, NEW d \in Int, NEW w \in Widths
  PROVE  Low(Low(v, w) + d, w) = Low(v + d, w)
<1>1. Span[w] \in Nat \ {0}
  BY StringOpsAssumption DEF Widths
<1> QED
  BY <1>1, ModAdd DEF Low

LEMMA SetRegType ==
  ASSUME NEW old \in Int, NEW w \in Widths, NEW v \in Int
  PROVE  SetReg(old, w, v) \in Int
<1>1. Low(old, w) \in Int /\ Low(v, w) \in Int
  BY LowType
<1> QED
  BY <1>1 DEF SetReg

\* set_reg16/32/64: the low bits are the value's, and a register after n moves becomes
\* the register after n + 1.
LEMMA SetRegAfter ==
  ASSUME NEW s \in Nat, NEW n \in Nat, NEW w \in Widths, NEW old \in Int, NEW x \in Int,
         NEW y \in Int
  PROVE  /\ Low(SetReg(old, w, y), w) = Low(y, w)
         /\ w # 16 => SetReg(old, w, y) = RegAfter(s, w, n + 1, y)
         /\ old = RegAfter(s, w, n, x) => SetReg(old, w, y) = RegAfter(s, w, n + 1, y)
<1>1. Span[16] \in Nat \ {0} /\ n + 1 # 0
  BY StringOpsAssumption
<1>2. CASE w # 16
  <2>1. SetReg(old, w, y) = Low(y, w) /\ RegAfter(s, w, n + 1, y) = Low(y, w)
    BY <1>1, <1>2 DEF SetReg, RegAfter
  <2> QED
    BY <1>2, <2>1, LowType
<1>3. CASE w = 16
  <2> DEFINE S == Span[16]
             above(v) == (v \div S) * S
  <2>1. SetReg(old, w, y) = (old - (old % S)) + (y % S)
    BY <1>3 DEF SetReg, Low
  <2>2. old - (old % S) = above(old) /\ (above(old) + (y % S)) % S = y % S
    <3> HIDE DEF S
    <3> QED BY <1>1, AboveKept DEF S
  <2>3. Low(SetReg(old, w, y), w) = Low(y, w)
    BY <1>3, <2>1, <2>2 DEF Low
  <2>4. RegAfter(s, w, n + 1, y) = above(s) + (y % S)
    BY <1>1, <1>3 DEF RegAfter, Low
  <2>5. ASSUME old = RegAfter(s, w, n, x) PROVE old - (old % S) = above(s)
    <3>1. CASE n = 0
      <4>1. old = s
        BY <2>5, <3>1 DEF RegAfter
      <4> QED
        BY <2>2, <4>1
    <3>2. CASE n # 0
      <4>1. old = above(s) + (x % S)
        BY <1>3, <2>5, <3>2 DEF RegAfter, Low
      <4>2. (above(s) + (x % S)) - ((above(s) + (x % S)) % S) = above(s)
        <5>1. S \in Nat \ {0} /\ s \in Int
          BY <1>1
        <5> HIDE DEF S
        <5> QED
          BY <5>1, AboveKept
      <4> QED
        BY <4>1, <4>2
    <3> QED
      BY <3>1, <3>2
  <2> HIDE DEF S, above
  <2> QED
    BY <1>3, <2>1, <2>3, <2>4, <2>5
<1> QED
  BY <1>2, <1>3

\* The low bits of a register after n moves.
LEMMA LowRegAfter ==
  ASSUME NEW s \in Nat, NEW n \in Nat, NEW w \in Widths, NEW y \in Int,
         n = 0 => Low(y, w) = Low(s, w)
  PROVE  RegAfter(s, w, n, y) \in Int /\ Low(RegAfter(s, w, n, y), w) = Low(y, w)
<1>1. Span[16] \in Nat \ {0}
  BY StringOpsAssumption
<1>2. CASE n = 0
  BY <1>2 DEF RegAfter
<1>3. CASE n # 0 /\ w # 16
  BY <1>3, LowType DEF RegAfter
<1>4. CASE n # 0 /\ w = 16
  <2> DEFINE S == Span[16]
  <2>1. RegAfter(s, w, n, y) = ((s \div S) * S) + (y % S)
    BY <1>4 DEF RegAfter, Low
  <2>2. (((s \div S) * S) + (y % S)) % S = y % S
    <3>1. S \in Nat \ {0} /\ s \in Int
      BY <1>1
    <3> HIDE DEF S
    <3> QED
      BY <3>1, AboveKept
  <2>3. ((s \div S) * S) + (y % S) \in Int
    BY <1>1
  <2> HIDE DEF S
  <2> QED
    BY <1>4, <2>1, <2>2, <2>3 DEF Low, S
<1> QED
  BY <1>2, <1>3, <1>4

\* Only the low bits of the value count.
LEMMA RegAfterLow ==
  ASSUME NEW s, NEW n, NEW w, NEW y, NEW z, Low(y, w) = Low(z, w)
  PROVE  RegAfter(s, w, n, y) = RegAfter(s, w, n, z)
  BY DEF RegAfter

\* The direction and distance of one move.
Delta == IF prog.df THEN -step ELSE step

LEMMA MovedNext ==
  ASSUME prog \in Programs, NEW x \in Nat, NEW n \in Nat
  PROVE  /\ Moved(x, n) \in Int /\ Moved(x, 0) = x /\ Delta \in Int
         /\ Moved(x, n + 1) = Moved(x, n) + Delta
<1>1. step \in Int /\ n * step \in Int /\ (n + 1) * step = n * step + step /\ 0 * step = 0
  BY Sizes
<1> QED
  BY <1>1 DEF Moved, Delta

LEMMA LowSame ==
  ASSUME NEW v, NEW e, SameReg(v, e)
  PROVE  Low(v, inst.asize) = Low(e, inst.asize)
  BY DEF SameReg

LEMMA SameNext ==
  ASSUME prog \in Programs, NEW s \in Nat, NEW n \in Nat, NEW old \in Int, NEW x \in Int,
         NEW y \in Int, ghost.wrote \/ SameReg(old, RegAfter(s, inst.asize, n, x))
  PROVE  SameReg(SetReg(old, inst.asize, y), RegAfter(s, inst.asize, n + 1, y))
<1>1. PICK w \in Widths : w = inst.asize
  BY Sizes
<1>2. /\ Low(SetReg(old, w, y), w) = Low(y, w)
      /\ w # 16 => SetReg(old, w, y) = RegAfter(s, w, n + 1, y)
      /\ old = RegAfter(s, w, n, x) => SetReg(old, w, y) = RegAfter(s, w, n + 1, y)
  BY SetRegAfter
<1>3. Low(RegAfter(s, w, n + 1, y), w) = Low(y, w)
  <2>1. n + 1 \in Nat /\ n + 1 # 0
    OBVIOUS
  <2> DEFINE m == n + 1
  <2> HIDE DEF m
  <2>2. Low(RegAfter(s, w, m, y), w) = Low(y, w)
    BY <2>1, LowRegAfter DEF m
  <2> QED
    BY <2>2 DEF m
<1>4. CASE w = 16 /\ ghost.wrote
  BY <1>1, <1>2, <1>3, <1>4 DEF SameReg
<1>5. CASE w # 16
  BY <1>1, <1>2, <1>5 DEF SameReg
<1>6. CASE w = 16 /\ ~ghost.wrote
  <2>1. old = RegAfter(s, w, n, x)
    BY <1>1, <1>6 DEF SameReg
  <2> QED
    BY <1>1, <1>2, <2>1 DEF SameReg
<1> QED
  BY <1>4, <1>5, <1>6

\* Where the n-th iteration reads and writes is what its index registers say.
LEMMA LowIndex ==
  ASSUME prog \in Programs, NEW s \in Nat, NEW n \in Nat, NEW v \in Int,
         SameReg(v, RegAfter(s, inst.asize, n, Moved(s, n)))
  PROVE  Low(v, inst.asize) = Low(Moved(s, n), inst.asize)
<1>1. PICK w \in Widths : w = inst.asize
  BY Sizes
<1> DEFINE y == Moved(s, n)
<1>2. y \in Int /\ (n = 0 => y = s)
  BY MovedNext
<1>3. Low(RegAfter(s, w, n, y), w) = Low(y, w)
  <2> HIDE DEF y
  <2> QED
    BY <1>2, LowRegAfter
<1> QED
  BY <1>1, <1>3, LowSame

\* The count left is the count register's.
LEMMA LowCount ==
  ASSUME TypeOK, Repeated, NEW n \in Nat, n <= Requested, NEW v \in Int,
         SameReg(v, CountAfter(n))
  PROVE  Low(v, inst.asize) = Requested - n
<1>1. PICK w \in Widths : w = inst.asize
  BY Sizes DEF TypeOK
<1> DEFINE s == ghost.cpu.rcx
           y == Requested - n
<1>2. s \in Nat /\ Requested = Low(s, w)
  BY <1>1 DEF TypeOK, Requested
<1>3. Low(s, w) \in Int /\ Low(s, w) >= 0 /\ Low(s, w) < Span[w] /\ Low(Low(s, w), w) = Low(s, w)
  BY <1>2, LowType
<1>4. y \in Int /\ (n = 0 => Low(y, w) = Low(s, w))
  BY <1>2, <1>3
<1>5. Low(y, w) = y
  <2>1. Span[w] \in Nat \ {0}
    BY StringOpsAssumption DEF Widths
  <2>2. y \in 0..Span[w]-1
    BY <1>2, <1>3, <2>1
  <2> HIDE DEF y
  <2> QED
    BY <2>1, <2>2, ModSmall DEF Low
<1>6. CountAfter(n) = RegAfter(s, w, n, y)
  BY <1>1 DEF CountAfter
<1>7. Low(RegAfter(s, w, n, y), w) = Low(y, w)
  <2> HIDE DEF s, y
  <2> QED
    BY <1>2, <1>4, LowRegAfter
<1> QED
  BY <1>1, <1>5, <1>6, <1>7, LowSame

LEMMA RequestedType ==
  ASSUME TypeOK
  PROVE  Requested \in Nat
<1>1. PICK w \in Widths : w = inst.asize
  BY Sizes DEF TypeOK
<1>2. ghost.cpu.rcx \in Int
  BY DEF TypeOK
<1>3. Low(ghost.cpu.rcx, w) \in Int /\ Low(ghost.cpu.rcx, w) >= 0
  BY <1>2, LowType
<1> QED
  BY <1>1, <1>3 DEF Requested

-----------------------------------------------------------------------------
(* Elements in memory                                                      *)

\* The bytes of an element are different cells, and a cell is one of them exactly when
\* its distance says so.
LEMMA ElementCells ==
  ASSUME prog \in Programs, NEW a \in Cells
  PROVE  /\ \A i \in 0..step-1 : (a + i) % Top \in Cells /\ (((a + i) % Top) - a) % Top = i
         /\ \A c \in Cells : (c - a) % Top \in Nat
         /\ \A c \in Cells : (c - a) % Top < step => (a + ((c - a) % Top)) % Top = c
<1>1. step \in {1, 2, 4, 8} /\ Top \in Nat \ {0} /\ Top > 8
  BY Sizes
<1>2. a \in 0..Top-1
  BY DEF Cells
<1>3. ASSUME NEW i \in 0..step-1 PROVE (a + i) % Top \in Cells /\ (((a + i) % Top) - a) % Top = i
  <2>1. i \in 0..Top-1
    BY <1>1, <1>3
  <2> DEFINE c == (a + i) % Top
  <2>2. c = IF a + i < Top THEN a + i ELSE a + i - Top
    BY <1>1, <1>2, <2>1, WrapAdd
  <2>3. c \in 0..Top-1
    BY <1>1, <1>2, <2>1, <2>2
  <2> HIDE DEF c
  <2>4. (c - a) % Top = IF c >= a THEN c - a ELSE (c - a) + Top
    BY <1>1, <1>2, <2>3, WrapSub
  <2>5. (c - a) % Top = i
    BY <1>1, <1>2, <2>1, <2>2, <2>3, <2>4
  <2> QED
    BY <2>3, <2>5 DEF c, Cells
<1>4. ASSUME NEW c \in Cells PROVE (c - a) % Top \in Nat /\ (a + ((c - a) % Top)) % Top = c
  <2>1. c \in 0..Top-1
    BY <1>4 DEF Cells
  <2> DEFINE i == (c - a) % Top
  <2>2. i = IF c >= a THEN c - a ELSE (c - a) + Top
    BY <1>1, <1>2, <2>1, WrapSub
  <2>3. i \in 0..Top-1
    BY <1>1, <1>2, <2>1, <2>2
  <2> HIDE DEF i
  <2>4. (a + i) % Top = IF a + i < Top THEN a + i ELSE a + i - Top
    BY <1>1, <1>2, <2>3, WrapAdd
  <2>5. (a + i) % Top = c
    BY <1>1, <1>2, <2>1, <2>2, <2>3, <2>4
  <2> QED
    BY <2>3, <2>5 DEF i
<1> QED
  BY <1>3, <1>4

LEMMA InElement ==
  ASSUME prog \in Programs, NEW a \in Cells, NEW c \in Cells
  PROVE  (c - a) % Top < step <=> c \in ElemCells(a)
<1>1. ASSUME (c - a) % Top < step PROVE c \in ElemCells(a)
  <2>1. (c - a) % Top \in Nat /\ (a + ((c - a) % Top)) % Top = c /\ step \in Nat
    BY <1>1, ElementCells, Sizes
  <2> DEFINE i == (c - a) % Top
  <2>2. i \in 0..step-1 /\ (a + i) % Top = c
    BY <1>1, <2>1
  <2> HIDE DEF i
  <2> QED
    BY <2>2 DEF ElemCells
<1>2. ASSUME c \in ElemCells(a) PROVE (c - a) % Top < step
  <2>1. PICK i \in 0..step-1 : c = (a + i) % Top
    BY <1>2 DEF ElemCells
  <2>2. (c - a) % Top = i
    BY <2>1, ElementCells
  <2> QED
    BY <2>1, <2>2, Sizes
<1> QED
  BY <1>1, <1>2

\* Storing an element twice is storing it once.
LEMMA PutTwice ==
  ASSUME NEW m, NEW a, NEW v
  PROVE  Put(Put(m, a, v), a, v) = Put(m, a, v)
<1> DEFINE p == Put(m, a, v)
<1>1. p = [c \in Cells |-> IF (c - a) % Top < step THEN v[(c - a) % Top] ELSE m[c]]
  BY DEF Put
<1>2. Put(p, a, v) = [c \in Cells |-> IF (c - a) % Top < step THEN v[(c - a) % Top] ELSE p[c]]
  BY DEF Put
<1> HIDE DEF p
<1>3. \A c \in Cells : p[c] = IF (c - a) % Top < step THEN v[(c - a) % Top] ELSE m[c]
  BY <1>1
<1>4. \A c \in Cells : (IF (c - a) % Top < step THEN v[(c - a) % Top] ELSE p[c]) = p[c]
  BY <1>3, Zenon
<1>5. p = [c \in Cells |-> p[c]]
  BY <1>1
<1>6. Put(p, a, v) = p
  BY <1>2, <1>4, <1>5
<1> QED
  BY <1>6 DEF p

\* An element apart from the one stored is left alone.
LEMMA PutApart ==
  ASSUME prog \in Programs, NEW m, NEW v, NEW s \in Cells, NEW d \in Cells,
         ElemCells(s) \cap ElemCells(d) = {}
  PROVE  Elem(Put(m, d, v), s) = Elem(m, s)
<1>1. ASSUME NEW i \in 0..step-1 PROVE Put(m, d, v)[(s + i) % Top] = m[(s + i) % Top]
  <2> DEFINE c == (s + i) % Top
  <2>1. c \in Cells /\ c \in ElemCells(s)
    BY <1>1, ElementCells DEF ElemCells
  <2> HIDE DEF c
  <2>2. ~((c - d) % Top < step)
    BY <2>1, InElement
  <2>3. Put(m, d, v)[c] = m[c]
    BY <2>1, <2>2 DEF Put
  <2> QED
    BY <2>3 DEF c
<1> QED
  BY <1>1 DEF Elem

\* Two elements with the same cells begin at the same one.
LEMMA SameCells ==
  ASSUME prog \in Programs, NEW s \in Cells, NEW d \in Cells, ElemCells(s) = ElemCells(d)
  PROVE  s = d
<1>1. step \in {1, 2, 4, 8} /\ Top \in Nat \ {0} /\ Top > 8 /\ s \in 0..Top-1 /\ d \in 0..Top-1
  BY Sizes DEF Cells
<1>2. s \in ElemCells(d)
  <2>1. 0 \in 0..step-1 /\ (s + 0) % Top = s
    BY <1>1, ModSmall
  <2> QED
    BY <2>1 DEF ElemCells
<1>3. PICK i \in 0..step-1 : s = (d + i) % Top
  BY <1>2 DEF ElemCells
<1>4. ASSUME i # 0 PROVE FALSE
  <2> DEFINE j == step - i
             e == (s + j) % Top
  <2>1. j \in 0..step-1 /\ j \in 0..Top-1 /\ i \in 0..Top-1
    BY <1>1, <1>4
  <2>2. e = IF s + j < Top THEN s + j ELSE s + j - Top
    <3> HIDE DEF j
    <3> QED BY <1>1, <2>1, WrapAdd
  <2>3. s = IF d + i < Top THEN d + i ELSE d + i - Top
    BY <1>1, <1>3, <2>1, WrapAdd
  <2>4. e \in ElemCells(s)
    <3> HIDE DEF j
    <3> QED BY <2>1 DEF ElemCells, e
  <2>5. PICK k \in 0..step-1 : e = (d + k) % Top
    BY <2>4 DEF ElemCells
  <2>6. e = IF d + k < Top THEN d + k ELSE d + k - Top
    <3> HIDE DEF e
    <3>1. k \in 0..Top-1
      BY <1>1
    <3> QED BY <1>1, <2>5, <3>1, WrapAdd
  <2> HIDE DEF e
  <2> QED
    BY <1>1, <2>1, <2>2, <2>3, <2>6
<1>5. i = 0
  BY <1>4
<1> QED
  BY <1>1, <1>3, <1>5, ModSmall

LEMMA PutOwn ==
  ASSUME prog \in Programs, NEW m, NEW s \in Cells
  PROVE  Elem(Put(m, s, Elem(m, s)), s) = Elem(m, s)
<1> DEFINE v == Elem(m, s)
<1>1. \A i \in 0..step-1 : v[i] = m[(s + i) % Top]
  BY DEF Elem
<1> HIDE DEF v
<1>2. ASSUME NEW i \in 0..step-1 PROVE Put(m, s, v)[(s + i) % Top] = m[(s + i) % Top]
  <2> DEFINE c == (s + i) % Top
  <2>1. c \in Cells /\ (c - s) % Top = i /\ i < step
    BY <1>2, ElementCells, Sizes
  <2>2. v[i] = m[c]
    BY <1>1
  <2> HIDE DEF c
  <2>3. Put(m, s, v)[c] = v[i]
    BY <2>1 DEF Put
  <2> QED
    BY <2>2, <2>3 DEF c
<1>3. Elem(Put(m, s, v), s) = Elem(m, s)
  BY <1>2 DEF Elem
<1> QED
  BY <1>3 DEF v

LEMMA ReadAgain ==
  ASSUME prog \in Programs, NEW m, NEW s \in Cells, NEW d \in Cells,
         \/ ElemCells(s) = ElemCells(d)
         \/ ElemCells(s) \cap ElemCells(d) = {}
  PROVE  Elem(Put(m, d, Elem(m, s)), s) = Elem(m, s)
<1>1. CASE ElemCells(s) = ElemCells(d)
  <2>1. s = d
    BY <1>1, SameCells
  <2> QED
    BY <2>1, PutOwn
<1>2. CASE ElemCells(s) \cap ElemCells(d) = {}
  BY <1>2, PutApart
<1> QED
  BY <1>1, <1>2

-----------------------------------------------------------------------------
(* The reference: memory and count after n iterations                      *)

LEMMA LeastExists ==
  ASSUME NEW T \in SUBSET Nat, T # {}
  PROVE  \E x \in T : \A y \in T : x <= y
<1> DEFINE less == {ss \in Nat \X Nat : ss[1] < ss[2]}
<1>1. IsWellFoundedOn(less, Nat)
  BY NatLessThanWellFounded DEF OpToRel
<1>2. \A x, y \in Nat : y < x => <<y, x>> \in less
  OBVIOUS
<1> HIDE DEF less
<1>3. PICK x \in T : \A y \in T : ~(<<y, x>> \in less)
  BY <1>1, WFMin
<1>4. \A y \in T : ~(y < x)
  BY <1>2, <1>3
<1> QED
  BY <1>4

LEMMA MemAfterUnfolds ==
  ASSUME NEW n
  PROVE  MemAfter(n) = (CHOOSE f : Unfolds(f, n))[n]
  BY DEF MemAfter, Unfolds, Does

\* What is reached is what the reference computes: the recursion has only one solution.
LEMMA ReachedIsAfter ==
  ASSUME NEW n \in Nat, NEW m, Reached(m, n)
  PROVE  MemAfter(n) = m
<1> DEFINE g == CHOOSE f : Unfolds(f, n)
<1>1. PICK f : Unfolds(f, n) /\ m = f[n]
  BY DEF Reached
<1>2. Unfolds(g, n)
  BY <1>1
<1> HIDE DEF g
<1>3. ASSUME NEW h, Unfolds(h, n), NEW k \in 0..n
      PROVE  h[k] = IF k = 0 THEN ghost.mem ELSE Does(h[k-1], k-1)
  BY <1>3 DEF Unfolds
<1> DEFINE Bad == {k \in 0..n : f[k] # g[k]}
<1>4. ASSUME Bad # {} PROVE FALSE
  <2>1. Bad \in SUBSET Nat
    OBVIOUS
  <2>2. PICK k \in Bad : \A j \in Bad : k <= j
    <3> HIDE DEF Bad
    <3> QED BY <1>4, <2>1, LeastExists
  <2>3. k \in 0..n /\ f[k] # g[k]
    BY <2>2
  <2>4. CASE k = 0
    BY <1>1, <1>2, <1>3, <2>3, <2>4
  <2>5. CASE k # 0
    <3>1. k - 1 \in 0..n /\ ~(k <= k - 1)
      BY <2>3, <2>5
    <3>2. f[k-1] = g[k-1]
      BY <2>2, <3>1
    <3>3. f[k] = Does(f[k-1], k-1) /\ g[k] = Does(g[k-1], k-1)
      BY <1>1, <1>2, <1>3, <2>3, <2>5
    <3> QED
      BY <2>3, <3>2, <3>3
  <2> QED
    BY <2>4, <2>5
<1>5. f[n] = g[n]
  BY <1>4
<1> QED
  BY <1>1, <1>5, MemAfterUnfolds DEF g

LEMMA ReachedStart == Reached(ghost.mem, 0)
<1> DEFINE f == [k \in 0..0 |-> ghost.mem]
<1>1. \A k \in 0..0 : k = 0
  OBVIOUS
<1>2. f = [k \in 0..0 |-> IF k = 0 THEN ghost.mem ELSE Does(f[k-1], k-1)]
  BY <1>1
<1>3. f[0] = ghost.mem
  OBVIOUS
<1> HIDE DEF f
<1>4. Unfolds(f, 0)
  BY <1>2 DEF Unfolds
<1> QED
  BY <1>3, <1>4 DEF Reached

LEMMA ReachedNext ==
  ASSUME NEW n \in Nat, NEW m, Reached(m, n)
  PROVE  Reached(Does(m, n), n + 1)
<1>1. PICK f : Unfolds(f, n) /\ m = f[n]
  BY DEF Reached
<1> DEFINE g == [k \in 0..n+1 |-> IF k = n + 1 THEN Does(m, n) ELSE f[k]]
<1>2. \A k \in 0..n+1 : g[k] = IF k = n + 1 THEN Does(m, n) ELSE f[k]
  OBVIOUS
<1>3. DOMAIN g = 0..n+1 /\ g = [k \in 0..n+1 |-> g[k]]
  OBVIOUS
<1>4. \A k \in 0..n : f[k] = IF k = 0 THEN ghost.mem ELSE Does(f[k-1], k-1)
  BY <1>1 DEF Unfolds
<1> HIDE DEF g
<1>5. ASSUME NEW k \in 0..n+1 PROVE g[k] = IF k = 0 THEN ghost.mem ELSE Does(g[k-1], k-1)
  <2>1. CASE k = 0
    BY <1>2, <1>4, <2>1
  <2>2. CASE k # 0 /\ k # n + 1
    <3>1. k \in 0..n /\ k - 1 \in 0..n+1 /\ k - 1 # n + 1
      BY <1>5, <2>2
    <3> QED
      BY <1>2, <1>4, <2>2, <3>1
  <2>3. CASE k = n + 1
    <3>1. k - 1 = n /\ n \in 0..n+1 /\ n # n + 1 /\ k # 0
      BY <2>3
    <3>2. g[n] = m
      BY <1>1, <1>2, <3>1
    <3> QED
      BY <1>2, <2>3, <3>1, <3>2
  <2> QED
    BY <2>1, <2>2, <2>3
<1>6. Unfolds(g, n + 1)
  BY <1>3, <1>5 DEF Unfolds
<1>7. g[n + 1] = Does(m, n)
  BY <1>2
<1> QED
  BY <1>6, <1>7 DEF Reached

\* How far a scan goes.
LEMMA DueWithout ==
  ASSUME TypeOK, \A k \in 0..Requested-1 : ~Hit(k)
  PROVE  Due = Requested
<1>1. CASE prog.op \notin {"cmps", "scas"} \/ ~Repeated
  BY <1>1 DEF Due
<1>2. CASE ~(prog.op \notin {"cmps", "scas"} \/ ~Repeated)
  <2>1. {k \in 0..Requested-1 : Equal(k) = (prog.rep = "F2")} = {}
    BY <1>2 DEF Hit
  <2> QED
    BY <1>2, <2>1 DEF Due
<1> QED
  BY <1>1, <1>2

LEMMA DueAt ==
  ASSUME TypeOK, NEW n \in 0..Requested-1, Hit(n), \A k \in 0..n-1 : ~Hit(k)
  PROVE  Due = n + 1
<1> DEFINE hits == {k \in 0..Requested-1 : Equal(k) = (prog.rep = "F2")}
<1>1. prog.op \in {"cmps", "scas"} /\ Repeated /\ n \in hits
  BY DEF Hit
<1>2. \A k \in hits : Hit(k) /\ k \in 0..Requested-1
  BY <1>1 DEF Hit
<1>3. Due = (CHOOSE k \in hits : \A j \in hits : k <= j) + 1
  BY <1>1 DEF Due
<1>4. Requested \in Nat
  BY RequestedType
<1> HIDE DEF hits
<1>5. \A j \in hits : n <= j
  BY <1>2, <1>4
<1>6. \A k \in hits : (\A j \in hits : k <= j) => k = n
  BY <1>1, <1>2, <1>4, <1>5
<1>7. (CHOOSE k \in hits : \A j \in hits : k <= j) = n
  BY <1>1, <1>5, <1>6
<1> QED
  BY <1>3, <1>7

LEMMA DueBeyond ==
  ASSUME TypeOK, NEW n \in Nat, n <= Requested, \A k \in 0..n-1 : ~Hit(k)
  PROVE  n <= Due
<1>1. Requested \in Nat
  BY RequestedType
<1>2. CASE \A k \in 0..Requested-1 : ~Hit(k)
  BY <1>2, DueWithout
<1>3. CASE \E k \in 0..Requested-1 : Hit(k)
  <2> DEFINE H == {k \in 0..Requested-1 : Hit(k)}
  <2>1. H \in SUBSET Nat /\ H # {}
    BY <1>3
  <2>2. PICK k \in H : \A j \in H : k <= j
    <3> HIDE DEF H
    <3> QED BY <2>1, LeastExists
  <2>3. k \in 0..Requested-1 /\ Hit(k) /\ \A j \in 0..k-1 : ~Hit(j)
    BY <1>1, <2>2
  <2>4. Due = k + 1
    BY <2>3, DueAt
  <2>5. ~(k \in 0..n-1)
    BY <2>3
  <2> QED
    BY <1>1, <2>3, <2>4, <2>5
<1> QED
  BY <1>2, <1>3

-----------------------------------------------------------------------------
(* The steps                                                               *)

\* A step leaves the instruction and its start alone, and with them the reference.
Frozen == prog' = prog /\ ghost'.cpu = ghost.cpu /\ ghost'.mem = ghost.mem

LEMMA FrozenSizes ==
  ASSUME Frozen
  PROVE  /\ inst' = inst /\ step' = step /\ OwnRegs' = OwnRegs
         /\ Repeated' = Repeated /\ Requested' = Requested
<1>1. inst' = inst
  BY DEF Frozen, inst
<1>2. step' = step
  BY <1>1 DEF step
<1>3. Repeated' = Repeated
  BY DEF Frozen, Repeated
<1>4. OwnRegs' = OwnRegs
  BY <1>3 DEF Frozen, OwnRegs
<1>5. Requested' = Requested
  BY <1>1, <1>3 DEF Frozen, Requested
<1> QED
  BY <1>1, <1>2, <1>3, <1>4, <1>5

LEMMA FrozenReference ==
  ASSUME Frozen, NEW n
  PROVE  /\ SrcAt(n)' = SrcAt(n) /\ DstAt(n)' = DstAt(n) /\ Equal(n)' = Equal(n)
         /\ Hit(n)' = Hit(n) /\ Storable(n)' = Storable(n)
         /\ IndexAfter("rsi", n)' = IndexAfter("rsi", n)
         /\ IndexAfter("rdi", n)' = IndexAfter("rdi", n)
         /\ CountAfter(n)' = CountAfter(n)
<1> USE FrozenSizes DEF Frozen
<1>1. SrcAt(n)' = SrcAt(n)
  BY DEF SrcAt, Moved, SrcAddr, cpu_segment_base
<1>2. DstAt(n)' = DstAt(n)
  BY DEF DstAt, Moved, DstAddr, cpu_segment_base
<1>3. Equal(n)' = Equal(n)
  BY <1>1, <1>2 DEF Equal, Elem, Accumulator
<1>4. Hit(n)' = Hit(n)
  BY <1>3 DEF Hit
<1>5. Storable(n)' = Storable(n)
  BY <1>1, <1>2 DEF Storable, ElemCells
<1>6. /\ IndexAfter("rsi", n)' = IndexAfter("rsi", n)
      /\ IndexAfter("rdi", n)' = IndexAfter("rdi", n)
  BY DEF IndexAfter, Moved
<1>7. CountAfter(n)' = CountAfter(n)
  BY DEF CountAfter
<1> QED
  BY <1>1, <1>2, <1>3, <1>4, <1>5, <1>6, <1>7

LEMMA FrozenDue ==
  ASSUME Frozen
  PROVE  Due' = Due
<1> DEFINE hits == {k \in 0..Requested-1 : Equal(k) = (prog.rep = "F2")}
<1>1. \A k : Equal(k)' = Equal(k)
  BY FrozenReference
<1>2. Requested' = Requested /\ Repeated' = Repeated /\ prog' = prog
  BY FrozenSizes DEF Frozen
<1>3. hits' = hits
  BY <1>1, <1>2
<1> DEFINE first == CHOOSE k \in hits : \A j \in hits : k <= j
<1>4. first' = first
  <2> HIDE DEF hits
  <2> QED BY <1>3
<1>5. Due = IF prog.op \notin {"cmps", "scas"} \/ ~Repeated THEN Requested
            ELSE IF hits = {} THEN Requested ELSE first + 1
  BY DEF Due
<1>6. Due' = (IF prog.op \notin {"cmps", "scas"} \/ ~Repeated THEN Requested
              ELSE IF hits = {} THEN Requested ELSE first + 1)'
  BY DEF Due
<1> HIDE DEF hits, first
<1> QED
  BY <1>2, <1>3, <1>4, <1>5, <1>6

LEMMA FrozenElements ==
  ASSUME Frozen, NEW m, NEW a, NEW v
  PROVE  /\ Elem(m, a)' = Elem(m, a) /\ Put(m, a, v)' = Put(m, a, v)
         /\ Accumulator(v)' = Accumulator(v)
         /\ write_lods_accumulator(v, m)' = write_lods_accumulator(v, m)
  BY FrozenSizes DEF Elem, Put, Accumulator, write_lods_accumulator

LEMMA FrozenDoes ==
  ASSUME Frozen, NEW m, NEW n
  PROVE  Does(m, n)' = Does(m, n)
<1> DEFINE e == Elem(m, SrcAt(n))
           a == Accumulator(ghost.cpu.rax)
           p == Put(m, DstAt(n), e)
           q == Put(m, DstAt(n), a)
<1>1. e' = e /\ a' = a /\ DstAt(n)' = DstAt(n)
  BY FrozenSizes, FrozenReference DEF Frozen, Elem, Accumulator
<1> HIDE DEF e, a
<1>2. p' = p
  BY <1>1, FrozenSizes DEF Put
<1>3. q' = q
  BY <1>1, FrozenSizes DEF Put
<1>4. Does(m, n) = CASE prog.op = "movs" -> p [] prog.op = "stos" -> q [] OTHER -> m
  BY DEF Does, e, a
<1>5. Does(m, n)' = CASE prog'.op = "movs" -> p' [] prog'.op = "stos" -> q' [] OTHER -> m
  BY DEF Does, e, a
<1> HIDE DEF p, q
<1> QED
  BY <1>2, <1>3, <1>4, <1>5 DEF Frozen

LEMMA FrozenReached ==
  ASSUME Frozen, NEW m, NEW n, Reached(m, n)
  PROVE  Reached(m, n)'
<1>1. PICK f : Unfolds(f, n) /\ m = f[n]
  BY DEF Reached
<1>2. \A k : Does(f[k-1], k-1)' = Does(f[k-1], k-1)
  BY FrozenDoes
<1>3. ghost'.mem = ghost.mem
  BY DEF Frozen
<1>4. Unfolds(f, n)'
  BY <1>1, <1>2, <1>3 DEF Unfolds
<1> QED
  BY <1>1, <1>4 DEF Reached

\* What is right stays right when nothing but the hooks' ghost changes.
LEMMA SameKept ==
  ASSUME Frozen, ghost.wrote => ghost'.wrote, NEW v, NEW e, SameReg(v, e)
  PROVE  SameReg(v, e)'
  BY FrozenSizes DEF SameReg

LEMMA RegsAfterKept ==
  ASSUME Frozen, ghost.wrote => ghost'.wrote, NEW c, NEW n, RegsAfter(c, n)
  PROVE  RegsAfter(c, n)'
<1>1. /\ SameReg(c.rsi, IndexAfter("rsi", n))'
      /\ SameReg(c.rdi, IndexAfter("rdi", n))'
      /\ SameReg(c.rcx, CountAfter(n))'
  BY FrozenReference, FrozenSizes DEF RegsAfter, SameReg
<1> QED
  BY <1>1 DEF RegsAfter

LEMMA UntouchedKept ==
  ASSUME Frozen, NEW c, Untouched(c)
  PROVE  Untouched(c)'
  BY FrozenSizes DEF Untouched, Frozen

LEMMA FlagsAfterKept ==
  ASSUME Frozen, NEW c, NEW n, FlagsAfter(c, n)
  PROVE  FlagsAfter(c, n)'
<1>1. /\ Equal(n - 1)' = Equal(n - 1) /\ SrcAt(n - 1)' = SrcAt(n - 1)
  BY FrozenReference
<1>2. Elem(ghost.mem, SrcAt(n - 1))' = Elem(ghost.mem, SrcAt(n - 1))
  BY <1>1, FrozenSizes DEF Frozen, Elem
<1> DEFINE l == write_lods_accumulator(ghost.cpu.rax, Elem(ghost.mem, SrcAt(n - 1)))
<1>3. l' = l
  BY <1>2, FrozenSizes DEF Frozen, write_lods_accumulator
<1> HIDE DEF l
<1>4. /\ c.zf = IF prog.op \in {"cmps", "scas"} /\ n > 0 THEN Equal(n - 1) ELSE ghost.cpu.zf
      /\ c.rax = IF prog.op = "lods" /\ n > 0 THEN l ELSE ghost.cpu.rax
  BY DEF FlagsAfter, l
<1>5. /\ c.zf = IF prog'.op \in {"cmps", "scas"} /\ n > 0 THEN Equal(n - 1)' ELSE ghost'.cpu.zf
      /\ c.rax = IF prog'.op = "lods" /\ n > 0 THEN l' ELSE ghost'.cpu.rax
  BY <1>1, <1>3, <1>4 DEF Frozen
<1> QED
  BY <1>5 DEF FlagsAfter, l

\* The same of the processor and of its saved copy.
LEMMA CpuAfterKept ==
  ASSUME Frozen, ghost.wrote => ghost'.wrote, NEW n, ghost'.did = n,
         RegsAfter(cpu', n), Untouched(cpu'), FlagsAfter(cpu', n)
  PROVE  RegsAfter(cpu, ghost.did)' /\ Untouched(cpu)' /\ FlagsAfter(cpu, ghost.did)'
<1>1. PICK c : c = cpu'
  OBVIOUS
<1>2. RegsAfter(c, n)' /\ Untouched(c)' /\ FlagsAfter(c, n)'
  BY <1>1, RegsAfterKept, UntouchedKept, FlagsAfterKept
<1>3. RegsAfter(cpu, ghost.did)'
  BY <1>1, <1>2 DEF RegsAfter, SameReg, IndexAfter, CountAfter, Moved
<1>4. Untouched(cpu)'
  BY <1>1, <1>2 DEF Untouched
<1>5. FlagsAfter(cpu, ghost.did)'
  BY <1>1, <1>2 DEF FlagsAfter, Equal, SrcAt, DstAt, Moved
<1> QED
  BY <1>3, <1>4, <1>5

LEMMA SavedAfterKept ==
  ASSUME Frozen, ghost.wrote => ghost'.wrote,
         RegsAfter(run'.saved, 0), Untouched(run'.saved), FlagsAfter(run'.saved, 0)
  PROVE  RegsAfter(run.saved, 0)' /\ Untouched(run.saved)' /\ FlagsAfter(run.saved, 0)'
<1>1. PICK c : c = run'.saved
  OBVIOUS
<1>2. RegsAfter(c, 0)' /\ Untouched(c)' /\ FlagsAfter(c, 0)'
  BY <1>1, RegsAfterKept, UntouchedKept, FlagsAfterKept
<1>3. RegsAfter(run.saved, 0)'
  BY <1>1, <1>2 DEF RegsAfter, SameReg
<1>4. Untouched(run.saved)'
  BY <1>1, <1>2 DEF Untouched
<1>5. FlagsAfter(run.saved, 0)'
  BY <1>1, <1>2 DEF FlagsAfter
<1> QED
  BY <1>3, <1>4, <1>5

-----------------------------------------------------------------------------
(* The start                                                               *)

LEMMA StartRegs == RegsAfter(ghost.cpu, 0) /\ Untouched(ghost.cpu) /\ FlagsAfter(ghost.cpu, 0)
<1>1. /\ IndexAfter("rsi", 0) = ghost.cpu.rsi /\ IndexAfter("rdi", 0) = ghost.cpu.rdi
      /\ CountAfter(0) = ghost.cpu.rcx
  BY DEF IndexAfter, CountAfter, RegAfter
<1>2. RegsAfter(ghost.cpu, 0)
  BY <1>1 DEF RegsAfter, SameReg
<1>3. FlagsAfter(ghost.cpu, 0)
  <2>1. ~(0 > 0)
    OBVIOUS
  <2> QED
    BY <2>1, Zenon DEF FlagsAfter
<1> QED
  BY <1>2, <1>3 DEF Untouched

LEMMA InitType == Init => TypeOK
<1> SUFFICES ASSUME Init PROVE TypeOK
  OBVIOUS
<1>1. /\ prog \in Programs
      /\ cpu = [rsi |-> prog.rsi, rdi |-> prog.rdi, rcx |-> prog.rcx,
                rax |-> [i \in 0..7 |-> 1], zf |-> FALSE]
      /\ run = [pc |-> "fetched", exc |-> "none", saved |-> cpu, count |-> 0, si |-> 0,
                di |-> 0, val |-> [i \in {} |-> 0], val2 |-> [i \in {} |-> 0], wrote |-> FALSE]
      /\ ghost = [cpu |-> cpu, mem |-> mem, did |-> 0, ahead |-> FALSE, tainted |-> FALSE,
                  wrote |-> FALSE]
  BY DEF Init
<1>2. prog.rsi \in Cells /\ prog.rdi \in Cells /\ prog.rcx \in Cells
  BY <1>1, StringOpsAssumption
<1>3. Cells \subseteq Nat
  BY StringOpsAssumption DEF Cells, Top
<1>4. cpu.rsi \in Nat /\ cpu.rdi \in Nat /\ cpu.rcx \in Nat
  BY <1>1, <1>2, <1>3
<1>5. IsCpu(cpu)
  BY <1>1, <1>4 DEF IsCpu
<1>6. run.saved = cpu /\ ghost.cpu = cpu /\ ~run.wrote
  BY <1>1
<1>7. IsRun
  BY <1>1 DEF IsRun
<1>8. IsGhost
  BY <1>1 DEF IsGhost
<1> QED
  BY <1>1, <1>4, <1>5, <1>6, <1>7, <1>8 DEF TypeOK

LEMMA InvInit == Init => Inv
<1> SUFFICES ASSUME Init PROVE Inv
  OBVIOUS
<1>1. TypeOK
  BY InitType
<1>2. /\ run.pc = "fetched" /\ run.saved = cpu
      /\ ghost.cpu = cpu /\ ghost.mem = mem /\ ghost.did = 0
  BY DEF Init
<1>3. ~ghost.ahead
  BY DEF Init
<1>4. Registers /\ Rollback
  BY <1>2, StartRegs DEF Registers, Rollback
<1>5. Locals
  BY <1>2 DEF Locals, Iterating, InCallback
<1>6. Memory
  <2>1. Values(mem)
    BY <1>2 DEF Values, Reads
  <2>2. MemoryIs(mem)
    BY <1>2, <1>3, <2>1 DEF MemoryIs
  <2>3. Reached(mem, ghost.did)
    BY <1>2, ReachedStart
  <2> QED
    BY <2>2, <2>3 DEF Memory
<1>7. Progress
  <2>1. Requested \in Nat
    BY <1>1, RequestedType
  <2>2. 0..ghost.did-1 = {}
    BY <1>2
  <2> QED
    BY <1>2, <2>1, <2>2 DEF Progress
<1> QED
  BY <1>1, <1>4, <1>5, <1>6, <1>7 DEF Inv, Exact

-----------------------------------------------------------------------------
(* Exceptions                                                              *)

\* The type of what an exception leaves.
LEMMA BrokenType ==
  ASSUME TypeOK, prog' = prog, NEW e, NEW a, NEW t,
         run' = [run EXCEPT !.pc = "stopped", !.exc = e],
         cpu' = IF Repeated THEN cpu ELSE run.saved,
         ghost' = [ghost EXCEPT !.ahead = a, !.tainted = t]
  PROVE  /\ TypeOK' /\ Frozen
         /\ run'.pc = "stopped" /\ run'.saved = run.saved
         /\ ghost'.did = ghost.did /\ ghost'.wrote = ghost.wrote
         /\ ghost'.ahead = a /\ ghost'.tainted = t
<1>1. IsRun /\ IsGhost /\ IsCpu(cpu) /\ IsCpu(run.saved) /\ IsCpu(ghost.cpu)
  BY DEF TypeOK
<1>2. run' = [pc |-> "stopped", exc |-> e, saved |-> run.saved, count |-> run.count,
              si |-> run.si, di |-> run.di, val |-> run.val, val2 |-> run.val2,
              wrote |-> run.wrote]
  BY <1>1 DEF IsRun
<1>3. ghost' = [cpu |-> ghost.cpu, mem |-> ghost.mem, did |-> ghost.did, ahead |-> a,
                tainted |-> t, wrote |-> ghost.wrote]
  BY <1>1 DEF IsGhost
<1>4. /\ run'.pc = "stopped" /\ run'.saved = run.saved /\ run'.wrote = run.wrote
      /\ run'.count = run.count /\ run'.si = run.si /\ run'.di = run.di
  BY <1>2
<1>5. /\ ghost'.cpu = ghost.cpu /\ ghost'.mem = ghost.mem /\ ghost'.did = ghost.did
      /\ ghost'.wrote = ghost.wrote
  BY <1>3
<1>6. ghost'.ahead = a /\ ghost'.tainted = t
  BY <1>3
<1>7. IsRun'
  BY <1>1, <1>2, <1>4 DEF IsRun
<1>8. IsGhost'
  BY <1>1, <1>3, <1>5 DEF IsGhost
<1>9. IsCpu(cpu)' /\ IsCpu(run.saved)' /\ IsCpu(ghost.cpu)'
  <2>1. cpu' = cpu \/ cpu' = run.saved
    OBVIOUS
  <2> QED
    BY <1>1, <1>4, <1>5, <2>1 DEF IsCpu
<1> QED
  BY <1>4, <1>5, <1>6, <1>7, <1>8, <1>9 DEF TypeOK, Frozen

\* The registers an exception leaves are those of the iterations done.
LEMMA BrokenRegisters ==
  ASSUME TypeOK, Registers, Rollback, run.pc # "done", Frozen, ~HookLeftRegister,
         cpu' = IF Repeated THEN cpu ELSE run.saved, run'.pc = "stopped",
         run'.saved = run.saved, ghost'.did = ghost.did, ghost'.wrote = ghost.wrote
  PROVE  Registers' /\ Rollback'
<1>1. /\ RegsAfter(cpu', ghost.did)
      /\ Untouched(cpu')
      /\ FlagsAfter(cpu', ghost.did)
  <2>1. CASE Repeated
    BY <2>1 DEF HookLeftRegister, Registers
  <2>2. CASE ~Repeated
    <3>1. /\ cpu' = run.saved /\ ghost.did = 0
          /\ RegsAfter(run.saved, 0) /\ Untouched(run.saved) /\ FlagsAfter(run.saved, 0)
      BY <2>2 DEF Rollback
    <3> QED
      BY <3>1
  <2> QED
    BY <2>1, <2>2
<1>2. RegsAfter(cpu, ghost.did)' /\ Untouched(cpu)' /\ FlagsAfter(cpu, ghost.did)'
  BY <1>1, CpuAfterKept
<1>3. ASSUME (~Repeated)' PROVE RegsAfter(run.saved, 0)' /\ Untouched(run.saved)' /\ FlagsAfter(run.saved, 0)'
  <2>1. ~Repeated
    BY <1>3, FrozenSizes
  <2> QED
    BY <2>1, SavedAfterKept DEF Rollback
<1>4. (~Repeated)' => ghost'.did = 0
  BY FrozenSizes DEF Rollback
<1> QED
  BY <1>2, <1>3, <1>4 DEF Registers, Rollback

\* Memory m goes on being the memory after the iterations done.
LEMMA MemoryKept ==
  ASSUME Frozen, NEW n, NEW m, Reached(m, n), ghost'.did = n,
         mem' = IF ghost'.ahead THEN Does(m, n) ELSE m,
         prog.op \notin {"movs", "stos"} => m = ghost.mem,
         prog.op = "movs" /\ ghost'.ahead => Storable(n),
         Values(m)'
  PROVE  Memory'
<1>1. Reached(m, n)' /\ Does(m, n)' = Does(m, n) /\ Storable(n)' = Storable(n)
  BY FrozenReached, FrozenDoes, FrozenReference
<1>2. Reached(m, ghost.did)'
  BY <1>1 DEF Reached, Unfolds
<1>3. Does(m, ghost.did)' = Does(m, n)
  BY <1>1 DEF Does, SrcAt, DstAt, Moved
<1>4. Storable(ghost.did)' = Storable(n)
  BY <1>1 DEF Storable, SrcAt, DstAt, Moved
<1>5. mem' = IF ghost'.ahead THEN Does(m, ghost.did)' ELSE m
  BY <1>3
<1>6. /\ prog'.op \notin {"movs", "stos"} => m = ghost'.mem
      /\ prog'.op = "movs" /\ ghost'.ahead => Storable(ghost.did)'
  BY <1>4 DEF Frozen
<1>7. MemoryIs(m)'
  BY <1>5, <1>6 DEF MemoryIs
<1> QED
  BY <1>2, <1>7 DEF Memory

LEMMA ProgressKept ==
  ASSUME Frozen, NEW n, ghost'.did = n, n <= Requested, run'.pc # "done",
         \A k \in 0..n-1 : ~Hit(k)
  PROVE  Progress'
<1>1. Requested' = Requested
  BY FrozenSizes
<1>2. \A k \in 0..n-1 : (~Hit(k))'
  BY FrozenReference
<1> QED
  BY <1>1, <1>2 DEF Progress

LEMMA StoppedRest ==
  ASSUME Frozen, Inv, ~ghost.tainted, run.pc # "done", run'.pc = "stopped",
         ghost'.did = ghost.did
  PROVE  /\ Locals' /\ Progress' /\ \A m : Values(m)'
<1>1. Locals'
  BY DEF Locals, Iterating, InCallback
<1>2. Progress'
  BY ProgressKept DEF Inv, Exact, Progress
<1>3. \A m : Values(m)'
  BY DEF Values, Reads
<1> QED
  BY <1>1, <1>2, <1>3

LEMMA Halts ==
  ASSUME Inv, run.pc # "done", prog' = prog, mem' = mem, NEW e, Stop(e)
  PROVE  Inv'
<1> DEFINE t == ghost.tainted \/ HookLeftRegister
<1>1. /\ run' = [run EXCEPT !.pc = "stopped", !.exc = e]
      /\ cpu' = IF Repeated THEN cpu ELSE run.saved
      /\ ghost' = [ghost EXCEPT !.ahead = ghost.ahead, !.tainted = t]
  BY DEF Stop, Break
<1> HIDE DEF t
<1>2. /\ TypeOK' /\ Frozen
      /\ run'.pc = "stopped" /\ run'.saved = run.saved
      /\ ghost'.did = ghost.did /\ ghost'.wrote = ghost.wrote
      /\ ghost'.ahead = ghost.ahead /\ ghost'.tainted = t
  BY <1>1, BrokenType DEF Inv
<1>3. CASE t
  BY <1>2, <1>3 DEF Inv, Exact
<1>4. CASE ~t
  <2>1. ~ghost.tainted /\ ~HookLeftRegister
    BY <1>4 DEF t
  <2>2. Registers /\ Rollback /\ Memory
    BY <2>1 DEF Inv, Exact
  <2>3. Registers' /\ Rollback'
    BY <1>1, <1>2, <2>1, <2>2, BrokenRegisters DEF Inv
  <2>4. Locals' /\ Progress' /\ \A m : Values(m)'
    BY <1>2, <2>1, StoppedRest
  <2>5. Memory'
    <3>1. PICK m : Reached(m, ghost.did) /\ MemoryIs(m)
      BY <2>2 DEF Memory
    <3> QED
      BY <1>2, <2>4, <3>1, MemoryKept DEF MemoryIs
  <2> QED
    BY <1>2, <2>3, <2>4, <2>5 DEF Inv, Exact
<1> QED
  BY <1>3, <1>4

-----------------------------------------------------------------------------
(* Stores                                                                  *)

LEMMA AddrCells ==
  ASSUME TypeOK, NEW i \in Int
  PROVE  SrcAddr(i) \in Cells /\ DstAddr(i) \in Cells
<1>1. SegBase \in [Segments -> Cells] /\ Top \in Nat \ {0}
  BY Sizes DEF TypeOK
<1>2. cpu_segment_base("ds") \in Int /\ cpu_segment_base("es") \in Int
  BY <1>1 DEF cpu_segment_base, Segments, Cells
<1>3. ASSUME NEW b \in Int PROVE (b + i) % Top \in Cells
  <2>1. b + i \in Int
    OBVIOUS
  <2> DEFINE t == b + i
  <2> HIDE DEF t
  <2>2. t % Top \in 0..Top-1
    BY <1>1, <2>1, ModRange DEF t
  <2> QED
    BY <2>2 DEF t, Cells
<1> QED
  BY <1>2, <1>3 DEF SrcAddr, DstAddr

LEMMA AtCells ==
  ASSUME TypeOK, NEW n \in Nat
  PROVE  SrcAt(n) \in Cells /\ DstAt(n) \in Cells
<1>1. PICK w \in Widths : w = inst.asize
  BY Sizes DEF TypeOK
<1>2. Moved(ghost.cpu.rsi, n) \in Int /\ Moved(ghost.cpu.rdi, n) \in Int
  BY MovedNext DEF TypeOK
<1>3. Low(Moved(ghost.cpu.rsi, n), w) \in Int /\ Low(Moved(ghost.cpu.rdi, n), w) \in Int
  BY <1>2, LowType
<1> QED
  BY <1>1, <1>3, AddrCells DEF SrcAt, DstAt

\* The addresses of the iteration at hand are the reference's.
LEMMA Addresses ==
  ASSUME Locals, InCallback
  PROVE  /\ "rsi" \in OwnRegs => SrcAddr(run.si) = SrcAt(ghost.did)
         /\ "rdi" \in OwnRegs => DstAddr(run.di) = DstAt(ghost.did)
  BY DEF Locals, SrcAt, DstAt

\* The store of the iteration at hand, the first time and again after an exception.
LEMMA StoreDoes ==
  ASSUME Locals, run.pc = "write", prog.op \in {"movs", "stos"}, NEW m, MemoryIs(m)
  PROVE  Put(mem, DstAddr(run.di), run.val) = Does(m, ghost.did)
<1>1. InCallback /\ "rdi" \in OwnRegs
  BY DEF InCallback, OwnRegs
<1> DEFINE d == DstAt(ghost.did)
           v == run.val
<1>2. DstAddr(run.di) = d
  BY <1>1, Addresses
<1>3. Does(m, ghost.did) = Put(m, d, v)
  BY DEF MemoryIs, Values, Reads, Does
<1>4. mem = m \/ mem = Put(m, d, v)
  BY <1>3 DEF MemoryIs
<1> HIDE DEF d, v
<1>5. Put(Put(m, d, v), d, v) = Put(m, d, v)
  BY PutTwice
<1>6. Put(mem, d, v) = Put(m, d, v)
  BY <1>4, <1>5
<1> QED
  BY <1>2, <1>3, <1>6 DEF v

\* A store whose hook raised: one iteration ahead in memory.
LEMMA HaltsAhead ==
  ASSUME Inv, run.pc = "write", prog.op \in {"movs", "stos"}, prog' = prog,
         mem' = Put(mem, DstAddr(run.di), run.val), NEW e, NEW overlap,
         prog.op = "movs" =>
           overlap = (/\ ElemCells(SrcAddr(run.si)) # ElemCells(DstAddr(run.di))
                      /\ ElemCells(SrcAddr(run.si)) \cap ElemCells(DstAddr(run.di)) # {}),
         run' = [run EXCEPT !.pc = "stopped", !.exc = e],
         cpu' = IF Repeated THEN cpu ELSE run.saved,
         ghost' = [ghost EXCEPT !.ahead = TRUE,
                                !.tainted = ghost.tainted \/ (overlap \/ HookLeftRegister)]
  PROVE  Inv'
<1> DEFINE t == ghost.tainted \/ (overlap \/ HookLeftRegister)
           a == TRUE
<1>1. ghost' = [ghost EXCEPT !.ahead = a, !.tainted = t]
  OBVIOUS
<1> HIDE DEF t, a
<1>0. /\ Inv /\ prog' = prog
      /\ run' = [run EXCEPT !.pc = "stopped", !.exc = e]
      /\ cpu' = IF Repeated THEN cpu ELSE run.saved
  OBVIOUS
<1>2. /\ TypeOK' /\ Frozen
      /\ run'.pc = "stopped" /\ run'.saved = run.saved
      /\ ghost'.did = ghost.did /\ ghost'.wrote = ghost.wrote
      /\ ghost'.ahead = a /\ ghost'.tainted = t
  BY ONLY <1>0, <1>1, BrokenType DEF Inv
<1>3. CASE t
  BY <1>2, <1>3 DEF Inv, Exact
<1>4. CASE ~t
  <2>1. ~ghost.tainted /\ ~overlap /\ ~HookLeftRegister
    BY <1>4 DEF t
  <2>2. Registers /\ Rollback /\ Memory /\ Locals
    BY <2>1 DEF Inv, Exact
  <2>3. Registers' /\ Rollback'
    BY <1>2, <2>1, <2>2, BrokenRegisters DEF Inv
  <2>4. Locals' /\ Progress' /\ \A m : Values(m)'
    BY <1>2, <2>1, StoppedRest
  <2>5. Memory'
    <3>1. PICK m : Reached(m, ghost.did) /\ MemoryIs(m)
      BY <2>2 DEF Memory
    <3>2. mem' = Does(m, ghost.did)
      BY <2>2, <3>1, StoreDoes
    <3>3. ghost'.ahead
      BY <1>2 DEF a
    <3>4. prog.op = "movs" => Storable(ghost.did)
      <4>1. SUFFICES ASSUME prog.op = "movs" PROVE Storable(ghost.did)
        OBVIOUS
      <4>2. InCallback /\ "rsi" \in OwnRegs /\ "rdi" \in OwnRegs
        BY <4>1 DEF InCallback, OwnRegs
      <4>3. SrcAddr(run.si) = SrcAt(ghost.did) /\ DstAddr(run.di) = DstAt(ghost.did)
        BY <2>2, <4>2, Addresses
      <4>4. ~(/\ ElemCells(SrcAt(ghost.did)) # ElemCells(DstAt(ghost.did))
              /\ ElemCells(SrcAt(ghost.did)) \cap ElemCells(DstAt(ghost.did)) # {})
        BY <2>1, <4>1, <4>3
      <4> QED
        BY <4>4 DEF Storable
    <3> QED
      BY <1>2, <2>4, <3>1, <3>2, <3>3, <3>4, MemoryKept DEF MemoryIs
  <2> QED
    BY <1>2, <2>3, <2>4, <2>5 DEF Inv, Exact
<1> QED
  BY <1>3, <1>4

-----------------------------------------------------------------------------
(* The beginning, and the accesses of an iteration                         *)

\* The type of a step that moves only the instruction's own place and locals.
LEMMA LocalsType ==
  ASSUME TypeOK, prog' = prog, cpu' = cpu, ghost' = ghost,
         NEW p \in {"fetched", "iter", "read", "read2", "write", "stopped", "done"},
         NEW e, NEW s, NEW c \in Int, NEW i \in Int, NEW d \in Int, NEW v, NEW u, NEW wr,
         IsCpu(s), wr => ghost.wrote,
         run' = [pc |-> p, exc |-> e, saved |-> s, count |-> c, si |-> i, di |-> d,
                 val |-> v, val2 |-> u, wrote |-> wr]
  PROVE  /\ TypeOK' /\ Frozen
         /\ run'.pc = p /\ run'.saved = s /\ run'.count = c /\ run'.si = i /\ run'.di = d
         /\ run'.val = v /\ run'.val2 = u /\ run'.wrote = wr
<1>1. /\ run'.pc = p /\ run'.saved = s /\ run'.count = c /\ run'.si = i /\ run'.di = d
      /\ run'.val = v /\ run'.val2 = u /\ run'.exc = e
  OBVIOUS
<1>2. run'.wrote = wr
  OBVIOUS
<1>3. IsRun'
  BY <1>1, <1>2 DEF IsRun
<1>4. IsGhost' /\ IsCpu(cpu)' /\ IsCpu(ghost.cpu)'
  BY DEF TypeOK, IsGhost, IsCpu
<1>5. IsCpu(run.saved)'
  BY <1>1 DEF IsCpu
<1> QED
  BY <1>1, <1>2, <1>3, <1>4, <1>5 DEF TypeOK, Frozen

\* Registers that stay while the instruction has not ended.
LEMMA CpuKept ==
  ASSUME Registers, Frozen, cpu' = cpu, ghost'.did = ghost.did, ghost.wrote => ghost'.wrote,
         Boundary' \/ (~run.wrote)' => Boundary \/ ~run.wrote
  PROVE  Registers'
<1>1. Untouched(cpu) /\ FlagsAfter(cpu, ghost.did)
  BY DEF Registers
<1>2. Untouched(cpu)'
  <2>1. PICK c : c = cpu
    OBVIOUS
  <2>2. Untouched(c)'
    BY <1>1, <2>1, UntouchedKept
  <2> QED
    BY <2>1, <2>2 DEF Untouched
<1>3. FlagsAfter(cpu, ghost.did)'
  <2>1. PICK c, n : c = cpu /\ n = ghost.did
    OBVIOUS
  <2>2. FlagsAfter(c, n)'
    BY <1>1, <2>1, FlagsAfterKept
  <2> QED
    BY <2>1, <2>2 DEF FlagsAfter, Equal, SrcAt, DstAt, Moved
<1>4. ASSUME Boundary' \/ (~run.wrote)' PROVE RegsAfter(cpu, ghost.did)'
  <2>1. RegsAfter(cpu, ghost.did)
    BY <1>4 DEF Registers
  <2> QED
    BY <1>1, <2>1, CpuAfterKept
<1> QED
  BY <1>2, <1>3, <1>4 DEF Registers

LEMMA SavedKept ==
  ASSUME Rollback, Frozen, ghost'.did = ghost.did, ghost.wrote => ghost'.wrote,
         run'.saved = run.saved, run.pc # "done"
  PROVE  Rollback'
<1>1. Repeated' = Repeated
  BY FrozenSizes
<1>2. CASE ~Repeated
  <2>1. /\ ghost.did = 0
        /\ RegsAfter(run.saved, 0) /\ Untouched(run.saved) /\ FlagsAfter(run.saved, 0)
    BY <1>2 DEF Rollback
  <2>2. RegsAfter(run.saved, 0)' /\ Untouched(run.saved)' /\ FlagsAfter(run.saved, 0)'
    BY <2>1, SavedAfterKept
  <2> QED
    BY <2>1, <2>2 DEF Rollback
<1>3. CASE Repeated
  BY <1>1, <1>3 DEF Rollback
<1> QED
  BY <1>2, <1>3

\* The count the loop begins with is what is left.
LEMMA CountLeft ==
  ASSUME Inv, ~ghost.tainted, run.pc = "fetched"
  PROVE  /\ (IF Repeated THEN Low(cpu.rcx, inst.asize) ELSE 1) = Requested - ghost.did
         /\ RegsAfter(cpu, ghost.did)
<1>1. Registers /\ Rollback /\ Progress /\ TypeOK
  BY DEF Inv, Exact
<1>2. RegsAfter(cpu, ghost.did)
  BY <1>1 DEF Registers, Boundary
<1>3. CASE Repeated
  <2>1. SameReg(cpu.rcx, CountAfter(ghost.did))
    BY <1>2 DEF RegsAfter
  <2>2. cpu.rcx \in Int /\ ghost.did \in Nat /\ ghost.did <= Requested
    BY <1>1 DEF TypeOK, IsCpu, IsGhost, Progress
  <2>3. Low(cpu.rcx, inst.asize) = Requested - ghost.did
    BY <1>1, <1>3, <2>1, <2>2, LowCount
  <2> QED
    BY <1>2, <1>3, <2>3
<1>4. CASE ~Repeated
  <2>1. ghost.did = 0 /\ Requested = 1
    BY <1>1, <1>4 DEF Rollback, Requested
  <2> QED
    BY <1>2, <1>4, <2>1
<1> QED
  BY <1>3, <1>4

LEMMA Begins ==
  ASSUME Inv, run.pc = "fetched", prog' = prog, UNCHANGED <<cpu, ghost, mem>>, NEW count \in Int,
         count = IF Repeated THEN Low(cpu.rcx, inst.asize) ELSE 1, NEW f, f = FALSE,
         run' = [run EXCEPT !.pc = IF count = 0 THEN "done" ELSE "iter", !.count = count,
                            !.saved = cpu, !.wrote = f]
  PROVE  Inv'
<1> DEFINE p == IF count = 0 THEN "done" ELSE "iter"
<1>0. TypeOK /\ IsRun /\ IsCpu(cpu) /\ ~f /\ p \in {"done", "iter"}
  BY DEF Inv, TypeOK
<1> HIDE DEF p
<1>1. run' = [pc |-> p, exc |-> run.exc, saved |-> cpu, count |-> count, si |-> run.si,
              di |-> run.di, val |-> run.val, val2 |-> run.val2, wrote |-> f]
  BY <1>0 DEF IsRun, p
<1>2. /\ TypeOK' /\ Frozen
      /\ run'.pc = p /\ run'.saved = cpu /\ run'.count = count /\ run'.wrote = f
  <2>1. /\ prog' = prog /\ cpu' = cpu /\ ghost' = ghost /\ count \in Int
        /\ run.si \in Int /\ run.di \in Int /\ IsCpu(cpu) /\ TypeOK /\ (f => ghost.wrote)
        /\ p \in {"fetched", "iter", "read", "read2", "write", "stopped", "done"}
    BY <1>0 DEF IsRun
  <2> QED
    BY ONLY <1>1, <2>1, LocalsType
<1>3. CASE ghost.tainted
  BY <1>2, <1>3 DEF Inv, Exact
<1>4. CASE ~ghost.tainted
  <2>1. Registers /\ Rollback /\ Memory /\ Locals /\ Progress
    BY <1>4 DEF Inv, Exact
  <2>2. count = Requested - ghost.did /\ RegsAfter(cpu, ghost.did)
    BY <1>4, CountLeft
  <2>3. Registers'
    BY <1>2, <2>1, CpuKept DEF Boundary
  <2>4. Rollback'
    <3>1. Repeated' = Repeated
      BY <1>2, FrozenSizes
    <3>2. CASE ~Repeated
      <4>1. ghost.did = 0
        BY <2>1, <3>2 DEF Rollback
      <4>2. RegsAfter(cpu, 0) /\ Untouched(cpu) /\ FlagsAfter(cpu, 0)
        BY <2>1, <2>2, <4>1 DEF Registers
      <4>3. RegsAfter(run.saved, 0)' /\ Untouched(run.saved)' /\ FlagsAfter(run.saved, 0)'
        BY <1>2, <4>2, SavedAfterKept
      <4> QED
        BY <4>1, <4>3 DEF Rollback
    <3>3. CASE Repeated
      BY <3>1, <3>3 DEF Rollback
    <3> QED
      BY <3>2, <3>3
  <2>5. Requested \in Nat /\ ghost.did \in Nat /\ ghost.did <= Requested
    BY <1>0, <2>1, RequestedType DEF TypeOK, IsGhost, Progress
  <2>6. Locals'
    <3>1. Requested' = Requested
      BY <1>2, FrozenSizes
    <3>2. p = "iter" => count > 0
      BY <2>2, <2>5 DEF p
    <3> QED
      BY <1>0, <1>2, <2>2, <3>1, <3>2 DEF Locals, Iterating, InCallback
  <2>7. \A m : Values(m)'
    BY <1>0, <1>2 DEF Values, Reads
  <2>8. Memory'
    <3>1. PICK m : Reached(m, ghost.did) /\ MemoryIs(m)
      BY <2>1 DEF Memory
    <3> QED
      BY <1>2, <2>7, <3>1, MemoryKept DEF MemoryIs
  <2>9. \A k \in 0..ghost.did-1 : ~Hit(k)
    BY <2>1 DEF Progress
  <2>10. Progress'
    <3>1. CASE count = 0
      <4>1. p = "done" /\ ghost.did = Requested
        BY <2>2, <2>5, <3>1 DEF p
      <4>2. Due = Requested
        BY <1>0, <2>9, <4>1, DueWithout
      <4>3. Due' = Due
        BY <1>2, FrozenDue
      <4>4. Requested' = Requested
        BY <1>2, FrozenSizes
      <4> QED
        BY <1>2, <2>5, <4>1, <4>2, <4>3, <4>4 DEF Progress
    <3>2. CASE count # 0
      BY <1>2, <2>5, <2>9, <3>2, ProgressKept DEF p
    <3> QED
      BY <3>1, <3>2
  <2> QED
    BY <1>2, <2>3, <2>4, <2>6, <2>8, <2>10 DEF Inv, Exact
<1> QED
  BY <1>3, <1>4

LEMMA ReadsKept ==
  ASSUME Frozen, ghost'.did = ghost.did, NEW m, NEW p, NEW v, NEW u, Reads(m, p, v, u)
  PROVE  Reads(m, p, v, u)'
<1>1. PICK n : n = ghost.did
  OBVIOUS
<1>2. SrcAt(n)' = SrcAt(n) /\ DstAt(n)' = DstAt(n)
  BY FrozenReference
<1>3. SrcAt(ghost.did)' = SrcAt(ghost.did) /\ DstAt(ghost.did)' = DstAt(ghost.did)
  BY <1>1, <1>2 DEF SrcAt, DstAt, Moved
<1>4. /\ Elem(m, SrcAt(ghost.did))' = Elem(m, SrcAt(ghost.did))
      /\ Elem(m, DstAt(ghost.did))' = Elem(m, DstAt(ghost.did))
  BY <1>3, FrozenSizes DEF Elem
<1>5. Accumulator(ghost.cpu.rax)' = Accumulator(ghost.cpu.rax)
  BY FrozenSizes DEF Accumulator, Frozen
<1> QED
  BY <1>4, <1>5 DEF Reads, Frozen

\* The indices of the iteration at hand.
IndicesAre(i, d) ==
  /\ "rsi" \in OwnRegs => i = Low(Moved(ghost.cpu.rsi, ghost.did), inst.asize)
  /\ "rdi" \in OwnRegs => d = Low(Moved(ghost.cpu.rdi, ghost.did), inst.asize)

\* An access on the way: the locals are those of the iteration and what they hold is what
\* the memory before it held.
LEMMA Accesses ==
  ASSUME Inv, run.pc \in {"iter", "read"}, prog' = prog, cpu' = cpu, ghost' = ghost, mem' = mem,
         NEW p \in {"read", "read2", "write"}, NEW i \in Int, NEW d \in Int, NEW v, NEW u,
         run' = [pc |-> p, exc |-> run.exc, saved |-> run.saved, count |-> run.count,
                 si |-> i, di |-> d, val |-> v, val2 |-> u, wrote |-> run.wrote],
         ghost.tainted \/ IndicesAre(i, d),
         ghost.tainted \/ \A m : MemoryIs(m) => Reads(m, p, v, u)
  PROVE  Inv'
<1>1. TypeOK /\ IsRun /\ IsCpu(run.saved) /\ (run.wrote => ghost.wrote)
  BY DEF Inv, TypeOK
<1> DEFINE wr == run.wrote
           e == run.exc
           s == run.saved
           c == run.count
<1>2. /\ TypeOK' /\ Frozen
      /\ run'.pc = p /\ run'.saved = s /\ run'.count = c /\ run'.si = i /\ run'.di = d
      /\ run'.val = v /\ run'.val2 = u /\ run'.wrote = wr
  <2>1. /\ TypeOK /\ prog' = prog /\ cpu' = cpu /\ ghost' = ghost
        /\ p \in {"fetched", "iter", "read", "read2", "write", "stopped", "done"}
        /\ c \in Int /\ IsCpu(s) /\ (wr => ghost.wrote)
        /\ run' = [pc |-> p, exc |-> e, saved |-> s, count |-> c, si |-> i, di |-> d,
                   val |-> v, val2 |-> u, wrote |-> wr]
    BY <1>1 DEF IsRun
  <2> HIDE DEF wr, e, s, c
  <2> QED
    BY ONLY <2>1, LocalsType, i \in Int, d \in Int
<1>3. CASE ghost.tainted
  BY <1>2, <1>3 DEF Inv, Exact
<1>4. CASE ~ghost.tainted
  <2>1. Registers /\ Rollback /\ Memory /\ Locals /\ Progress
    BY <1>4 DEF Inv, Exact
  <2>2. Registers'
    <3>1. ~Boundary' /\ ((~run.wrote)' => ~run.wrote)
      BY <1>2 DEF Boundary
    <3> QED
      BY <1>2, <2>1, <3>1, CpuKept
  <2>3. Rollback'
    BY <1>2, <2>1, SavedKept
  <2>4. Locals'
    <3>1. Requested' = Requested /\ inst' = inst /\ OwnRegs' = OwnRegs
      BY <1>2, FrozenSizes
    <3>2. run.count = Requested - ghost.did /\ run.count > 0
      BY <2>1 DEF Locals, Iterating
    <3>3. /\ ("rsi" \in OwnRegs => run.si = Low(Moved(ghost.cpu.rsi, ghost.did), inst.asize))'
          /\ ("rdi" \in OwnRegs => run.di = Low(Moved(ghost.cpu.rdi, ghost.did), inst.asize))'
      BY <1>2, <1>4, <3>1, FrozenSizes DEF Moved, IndicesAre
    <3> QED
      BY <1>2, <3>1, <3>2, <3>3 DEF Locals
  <2>5. Memory'
    <3>1. PICK m : Reached(m, ghost.did) /\ MemoryIs(m)
      BY <2>1 DEF Memory
    <3>2. Reads(m, p, v, u)'
      BY <1>2, <1>4, <3>1, ReadsKept
    <3>3. Values(m)'
      BY <1>2, <3>2 DEF Values, Reads
    <3> QED
      BY <1>2, <3>1, <3>3, MemoryKept DEF MemoryIs
  <2>6. Progress'
    BY <1>2, <2>1, ProgressKept DEF Progress
  <2> QED
    BY <1>2, <2>2, <2>3, <2>4, <2>5, <2>6 DEF Inv, Exact
<1> QED
  BY <1>3, <1>4

\* The indices an iteration takes from its registers.
LEMMA IndicesRight ==
  ASSUME Inv, run.pc = "iter"
  PROVE  /\ Low(cpu.rsi, inst.asize) \in Int /\ Low(cpu.rdi, inst.asize) \in Int
         /\ Indices = [pc |-> run.pc, exc |-> run.exc, saved |-> run.saved, count |-> run.count,
                       si |-> Low(cpu.rsi, inst.asize), di |-> Low(cpu.rdi, inst.asize),
                       val |-> run.val, val2 |-> run.val2, wrote |-> run.wrote]
         /\ ghost.tainted \/ IndicesAre(Low(cpu.rsi, inst.asize), Low(cpu.rdi, inst.asize))
<1>1. /\ TypeOK /\ IsRun /\ cpu.rsi \in Int /\ cpu.rdi \in Int /\ ghost.did \in Nat
      /\ prog \in Programs /\ ghost.cpu.rsi \in Nat /\ ghost.cpu.rdi \in Nat
  BY DEF Inv, TypeOK, IsCpu, IsGhost
<1>2. PICK w \in Widths : w = inst.asize
  BY <1>1, Sizes
<1>3. Low(cpu.rsi, inst.asize) \in Int /\ Low(cpu.rdi, inst.asize) \in Int
  BY <1>1, <1>2, LowType
<1>4. Indices = [pc |-> run.pc, exc |-> run.exc, saved |-> run.saved, count |-> run.count,
                 si |-> Low(cpu.rsi, inst.asize), di |-> Low(cpu.rdi, inst.asize),
                 val |-> run.val, val2 |-> run.val2, wrote |-> run.wrote]
  <2> DEFINE i == Low(cpu.rsi, inst.asize)
             d == Low(cpu.rdi, inst.asize)
  <2>1. Indices = [run EXCEPT !.si = i, !.di = d]
    BY DEF Indices
  <2> HIDE DEF i, d
  <2>2. IsRun
    BY <1>1
  <2>3. Indices = [pc |-> run.pc, exc |-> run.exc, saved |-> run.saved, count |-> run.count,
                   si |-> i, di |-> d, val |-> run.val, val2 |-> run.val2, wrote |-> run.wrote]
    BY ONLY <2>1, <2>2 DEF IsRun
  <2> QED
    BY <2>3 DEF i, d
<1>5. CASE ~ghost.tainted
  <2>1. RegsAfter(cpu, ghost.did)
    BY <1>5 DEF Inv, Exact, Registers, Boundary
  <2>2. /\ "rsi" \in OwnRegs =>
             SameReg(cpu.rsi, RegAfter(ghost.cpu.rsi, inst.asize, ghost.did,
                                       Moved(ghost.cpu.rsi, ghost.did)))
        /\ "rdi" \in OwnRegs =>
             SameReg(cpu.rdi, RegAfter(ghost.cpu.rdi, inst.asize, ghost.did,
                                       Moved(ghost.cpu.rdi, ghost.did)))
    BY <2>1 DEF RegsAfter, IndexAfter
  <2> QED
    BY <1>1, <1>3, <1>4, <2>2, LowIndex DEF IndicesAre
<1> QED
  BY <1>3, <1>4, <1>5

\* The locals of the iteration: run with other indices and another value.
LocalsAre(locals, i, d, v) ==
  locals = [pc |-> run.pc, exc |-> run.exc, saved |-> run.saved, count |-> run.count,
            si |-> i, di |-> d, val |-> v, val2 |-> run.val2, wrote |-> run.wrote]

\* read_memory: it faults, or the iteration has its value.
LEMMA ReadKeeps ==
  ASSUME Inv, run.pc \in {"iter", "read"}, prog' = prog, mem' = mem, NEW a,
         NEW p \in {"read", "read2"}, NEW i \in Int, NEW d \in Int, NEW locals,
         LocalsAre(locals, i, d, run.val), Read(a, p, locals),
         ghost.tainted \/ IndicesAre(i, d),
         ghost.tainted \/ \A m : MemoryIs(m) => Reads(m, p, Elem(mem, a), run.val)
  PROVE  Inv'
<1>1. CASE Refused(a, {"r", "rw"}) # {}
  <2>1. Stop(AccessFault(a, {"r", "rw"}))
    BY <1>1 DEF Read
  <2> QED
    BY <2>1, Halts
<1>2. CASE ~(Refused(a, {"r", "rw"}) # {})
  <2> DEFINE v == Elem(mem, a)
  <2>1. /\ cpu' = cpu /\ ghost' = ghost
        /\ run' = [locals EXCEPT !.pc = p, !.val2 = locals.val, !.val = v]
    BY <1>2 DEF Read
  <2> DEFINE u == run.val
  <2>2. /\ Inv /\ run.pc \in {"iter", "read"} /\ prog' = prog /\ mem' = mem
        /\ p \in {"read", "read2", "write"} /\ i \in Int /\ d \in Int
        /\ ghost.tainted \/ IndicesAre(i, d)
        /\ ghost.tainted \/ \A m : MemoryIs(m) => Reads(m, p, v, u)
    OBVIOUS
  <2> HIDE DEF v
  <2>3. run' = [pc |-> p, exc |-> run.exc, saved |-> run.saved, count |-> run.count,
                si |-> i, di |-> d, val |-> v, val2 |-> u, wrote |-> run.wrote]
    BY ONLY <2>1, LocalsAre(locals, i, d, run.val) DEF LocalsAre
  <2> HIDE DEF u
  <2> QED
    BY ONLY <2>1, <2>2, <2>3, Accesses
<1> QED
  BY <1>1, <1>2

\* write_memory up to the hooks: it faults, or the iteration is about to store its value.
LEMMA WriteKeeps ==
  ASSUME Inv, run.pc \in {"iter", "read"}, prog' = prog, mem' = mem, NEW a,
         NEW i \in Int, NEW d \in Int, NEW v, NEW locals,
         LocalsAre(locals, i, d, v), Write(a, locals),
         ghost.tainted \/ IndicesAre(i, d),
         ghost.tainted \/ \A m : MemoryIs(m) => Reads(m, "write", v, run.val2)
  PROVE  Inv'
<1>1. CASE Refused(a, {"rw"}) # {}
  <2>1. Stop(AccessFault(a, {"rw"}))
    BY <1>1 DEF Write
  <2> QED
    BY <2>1, Halts
<1>2. CASE ~(Refused(a, {"rw"}) # {})
  <2>1. cpu' = cpu /\ ghost' = ghost /\ run' = [locals EXCEPT !.pc = "write"]
    BY <1>2 DEF Write
  <2> DEFINE p == "write"
             u == run.val2
  <2>2. /\ Inv /\ run.pc \in {"iter", "read"} /\ prog' = prog /\ mem' = mem
        /\ p \in {"read", "read2", "write"} /\ i \in Int /\ d \in Int
        /\ ghost.tainted \/ IndicesAre(i, d)
        /\ ghost.tainted \/ \A m : MemoryIs(m) => Reads(m, p, v, u)
    OBVIOUS
  <2>3. run' = [pc |-> p, exc |-> run.exc, saved |-> run.saved, count |-> run.count,
                si |-> i, di |-> d, val |-> v, val2 |-> u, wrote |-> run.wrote]
    BY ONLY <2>1, LocalsAre(locals, i, d, v) DEF LocalsAre
  <2> HIDE DEF u, p
  <2> QED
    BY ONLY <2>1, <2>2, <2>3, Accesses
<1> QED
  BY <1>1, <1>2

\* What the iteration reads of its source, before any store or after its own.
LEMMA ReadsSource ==
  ASSUME Inv, NEW m, MemoryIs(m), prog.op \in {"movs", "lods", "cmps"}
  PROVE  Elem(mem, SrcAt(ghost.did)) = Elem(m, SrcAt(ghost.did))
<1>1. TypeOK /\ ghost.did \in Nat /\ prog \in Programs
  BY DEF Inv, TypeOK, IsGhost
<1>2. CASE prog.op # "movs" \/ ~ghost.ahead
  BY <1>2 DEF MemoryIs, Does
<1>3. CASE prog.op = "movs" /\ ghost.ahead
  <2> DEFINE s == SrcAt(ghost.did)
             d == DstAt(ghost.did)
  <2>1. s \in Cells /\ d \in Cells
    BY <1>1, AtCells
  <2>2. mem = Put(m, d, Elem(m, s))
    BY <1>3 DEF MemoryIs, Does
  <2>3. ElemCells(s) = ElemCells(d) \/ ElemCells(s) \cap ElemCells(d) = {}
    BY <1>3 DEF MemoryIs, Storable
  <2> HIDE DEF s, d
  <2>4. Elem(mem, s) = Elem(m, s)
    BY <1>1, <2>1, <2>2, <2>3, ReadAgain
  <2> QED
    BY <2>4 DEF s
<1> QED
  BY <1>2, <1>3

LEMMA ReadsDest ==
  ASSUME NEW m, MemoryIs(m), prog.op \in {"scas", "cmps"}
  PROVE  mem = m
  BY DEF MemoryIs, Does

-----------------------------------------------------------------------------
(* The end of an iteration                                                 *)

\* An index register after the move.
LEMMA NextIndex ==
  ASSUME prog \in Programs, NEW s \in Nat, NEW n \in Nat, NEW old \in Int, NEW i \in Int,
         i = Low(Moved(s, n), inst.asize),
         ghost.wrote \/ SameReg(old, RegAfter(s, inst.asize, n, Moved(s, n)))
  PROVE  SameReg(SetReg(old, inst.asize, i + Delta),
                 RegAfter(s, inst.asize, n + 1, Moved(s, n + 1)))
<1>1. PICK w \in Widths : w = inst.asize
  BY Sizes
<1> DEFINE x == Moved(s, n)
           y == i + Delta
           z == Moved(s, n + 1)
<1>2. x \in Int /\ Delta \in Int /\ z = x + Delta /\ y \in Int
  BY MovedNext
<1>3. Low(y, w) = Low(z, w)
  <2>1. Low(Low(x, w) + Delta, w) = Low(x + Delta, w)
    <3> HIDE DEF x
    <3> QED BY <1>2, LowAdd
  <2> QED
    BY <1>1, <1>2, <2>1
<1> HIDE DEF x, y, z
<1>4. RegAfter(s, w, n + 1, y) = RegAfter(s, w, n + 1, z)
  BY <1>3, RegAfterLow
<1>5. SameReg(SetReg(old, inst.asize, y), RegAfter(s, inst.asize, n + 1, y))
  BY <1>2, SameNext DEF x
<1> QED
  BY <1>1, <1>4, <1>5 DEF y, z

\* The processor after an iteration.
Advanced(moved, rax, zf, c) ==
  /\ c.rsi = IF "rsi" \in moved THEN SetReg(cpu.rsi, inst.asize, run.si + Delta) ELSE cpu.rsi
  /\ c.rdi = IF "rdi" \in moved THEN SetReg(cpu.rdi, inst.asize, run.di + Delta) ELSE cpu.rdi
  /\ c.rcx = IF Repeated THEN SetReg(cpu.rcx, inst.asize, run.count - 1) ELSE cpu.rcx
  /\ c.rax = rax /\ c.zf = zf

\* Moved are the index registers of the instruction.
MovesOwn(moved) == \A r \in {"rsi", "rdi"} : r \in moved <=> r \in OwnRegs

LEMMA RegistersNext ==
  ASSUME Inv, ~ghost.tainted, InCallback, NEW moved, MovesOwn(moved), NEW rax, NEW zf, NEW c,
         Advanced(moved, rax, zf, c)
  PROVE  RegsAfter(c, ghost.did + 1) /\ Untouched(c)
<1> DEFINE n == ghost.did
<1>1. /\ TypeOK /\ prog \in Programs /\ n \in Nat /\ (run.wrote => ghost.wrote)
      /\ cpu.rsi \in Int /\ cpu.rdi \in Int /\ cpu.rcx \in Int
      /\ ghost.cpu.rsi \in Nat /\ ghost.cpu.rdi \in Nat /\ ghost.cpu.rcx \in Nat
      /\ run.si \in Int /\ run.di \in Int /\ run.count \in Int
  BY DEF Inv, TypeOK, IsCpu, IsRun, IsGhost
<1>2. Registers /\ Locals
  BY DEF Inv, Exact
<1>3. Untouched(cpu) /\ (ghost.wrote \/ RegsAfter(cpu, n))
  BY <1>1, <1>2 DEF Registers
<1>4. Iterating
  BY DEF InCallback, Iterating
<1>5. SameReg(c.rsi, IndexAfter("rsi", n + 1))
  <2>1. CASE "rsi" \in OwnRegs
    <3>1. run.si = Low(Moved(ghost.cpu.rsi, n), inst.asize)
      BY <1>2, <2>1 DEF Locals
    <3>2. ghost.wrote \/ SameReg(cpu.rsi, RegAfter(ghost.cpu.rsi, inst.asize, n,
                                                   Moved(ghost.cpu.rsi, n)))
      BY <1>3, <2>1 DEF RegsAfter, IndexAfter
    <3>3. c.rsi = SetReg(cpu.rsi, inst.asize, run.si + Delta)
      BY <2>1 DEF Advanced, MovesOwn
    <3>4. SameReg(SetReg(cpu.rsi, inst.asize, run.si + Delta),
                  RegAfter(ghost.cpu.rsi, inst.asize, n + 1, Moved(ghost.cpu.rsi, n + 1)))
      <4> HIDE DEF n
      <4> QED BY <1>1, <3>1, <3>2, NextIndex
    <3> QED
      BY <2>1, <3>3, <3>4 DEF IndexAfter
  <2>2. CASE "rsi" \notin OwnRegs
    BY <1>3, <2>2 DEF Advanced, MovesOwn, Untouched, IndexAfter, SameReg
  <2> QED
    BY <2>1, <2>2
<1>6. SameReg(c.rdi, IndexAfter("rdi", n + 1))
  <2>1. CASE "rdi" \in OwnRegs
    <3>1. run.di = Low(Moved(ghost.cpu.rdi, n), inst.asize)
      BY <1>2, <2>1 DEF Locals
    <3>2. ghost.wrote \/ SameReg(cpu.rdi, RegAfter(ghost.cpu.rdi, inst.asize, n,
                                                   Moved(ghost.cpu.rdi, n)))
      BY <1>3, <2>1 DEF RegsAfter, IndexAfter
    <3>3. c.rdi = SetReg(cpu.rdi, inst.asize, run.di + Delta)
      BY <2>1 DEF Advanced, MovesOwn
    <3>4. SameReg(SetReg(cpu.rdi, inst.asize, run.di + Delta),
                  RegAfter(ghost.cpu.rdi, inst.asize, n + 1, Moved(ghost.cpu.rdi, n + 1)))
      <4> HIDE DEF n
      <4> QED BY <1>1, <3>1, <3>2, NextIndex
    <3> QED
      BY <2>1, <3>3, <3>4 DEF IndexAfter
  <2>2. CASE "rdi" \notin OwnRegs
    BY <1>3, <2>2 DEF Advanced, MovesOwn, Untouched, IndexAfter, SameReg
  <2> QED
    BY <2>1, <2>2
<1>7. SameReg(c.rcx, CountAfter(n + 1))
  <2>1. CASE Repeated
    <3> DEFINE y == run.count - 1
               x == Requested - n
    <3>1. run.count = x /\ Requested \in Nat
      BY <1>1, <1>2, <1>4, RequestedType DEF Locals
    <3>2. x \in Int /\ y \in Int /\ y = Requested - (n + 1)
      BY <1>1, <3>1
    <3>3. ghost.wrote \/ SameReg(cpu.rcx, RegAfter(ghost.cpu.rcx, inst.asize, n, x))
      BY <1>3, <2>1 DEF RegsAfter, CountAfter
    <3>4. c.rcx = SetReg(cpu.rcx, inst.asize, y)
      BY <2>1 DEF Advanced
    <3>5. SameReg(SetReg(cpu.rcx, inst.asize, y), RegAfter(ghost.cpu.rcx, inst.asize, n + 1, y))
      <4> HIDE DEF n, x, y
      <4> QED BY <1>1, <3>2, <3>3, SameNext
    <3> QED
      BY <2>1, <3>2, <3>4, <3>5 DEF CountAfter
  <2>2. CASE ~Repeated
    <3>1. "rcx" \notin OwnRegs
      BY <2>2 DEF OwnRegs
    <3> QED
      BY <1>3, <2>2, <3>1 DEF Advanced, Untouched, CountAfter, SameReg
  <2> QED
    BY <2>1, <2>2
<1>8. Untouched(c)
  <2>1. "rcx" \notin OwnRegs => ~Repeated
    BY DEF OwnRegs
  <2> QED
    BY <1>3, <2>1 DEF Untouched, Advanced, MovesOwn
<1> QED
  BY <1>5, <1>6, <1>7, <1>8 DEF RegsAfter

LEMMA AdvanceType ==
  ASSUME TypeOK, prog' = prog, NEW moved, NEW rax, NEW zf, Advance(moved, rax, zf)
  PROVE  /\ TypeOK' /\ Frozen /\ Advanced(moved, rax, zf, cpu')
         /\ run'.pc = IF RepEnds(run.count - 1, zf) THEN "done" ELSE "iter"
         /\ run'.count = run.count - 1 /\ run'.saved = run.saved
         /\ ghost'.did = ghost.did + 1 /\ ghost'.wrote = ghost.wrote
         /\ ghost'.tainted = ghost.tainted /\ ~ghost'.ahead
<1>1. /\ IsRun /\ IsGhost /\ IsCpu(cpu) /\ IsCpu(run.saved) /\ IsCpu(ghost.cpu)
      /\ cpu.rsi \in Int /\ cpu.rdi \in Int /\ cpu.rcx \in Int /\ ghost.did \in Nat
      /\ run.si \in Int /\ run.di \in Int /\ run.count \in Int /\ prog \in Programs
  BY DEF TypeOK, IsCpu, IsRun, IsGhost
<1> DEFINE a == IF "rsi" \in moved THEN SetReg(cpu.rsi, inst.asize, run.si + Delta) ELSE cpu.rsi
           b == IF "rdi" \in moved THEN SetReg(cpu.rdi, inst.asize, run.di + Delta) ELSE cpu.rdi
           c == IF Repeated THEN SetReg(cpu.rcx, inst.asize, run.count - 1) ELSE cpu.rcx
           left == run.count - 1
           p == IF RepEnds(left, zf) THEN "done" ELSE "iter"
           f == FALSE
           n == ghost.did + 1
<1>2. /\ cpu' = [cpu EXCEPT !.rsi = a, !.rdi = b, !.rcx = c, !.rax = rax, !.zf = zf]
      /\ run' = [run EXCEPT !.pc = p, !.count = left, !.wrote = f]
      /\ ghost' = [ghost EXCEPT !.did = n, !.ahead = f]
  <2>1. (IF prog.df THEN -step ELSE step) = Delta
    BY DEF Delta
  <2>2. cpu' = [cpu EXCEPT !.rsi = a, !.rdi = b,
                           !.rcx = IF Repeated THEN SetReg(@, inst.asize, left) ELSE @,
                           !.rax = rax, !.zf = zf]
    BY <2>1 DEF Advance
  <2> QED
    BY <1>1, <2>2 DEF Advance, IsCpu
<1>3. a \in Int /\ b \in Int /\ c \in Int
  <2>1. PICK w \in Widths : w = inst.asize
    BY <1>1, Sizes
  <2>2. Delta \in Int /\ run.si + Delta \in Int /\ run.di + Delta \in Int /\ run.count - 1 \in Int
    <3>1. step \in Int
      BY <1>1, Sizes
    <3> QED BY <1>1, <3>1 DEF Delta
  <2> QED
    BY <1>1, <2>1, <2>2, SetRegType
<1>4. left \in Int /\ n \in Nat /\ ~f /\ p \in {"done", "iter"}
  BY <1>1
<1> HIDE DEF a, b, c, left, p, f, n
<1>5. cpu' = [rsi |-> a, rdi |-> b, rcx |-> c, rax |-> rax, zf |-> zf]
  BY ONLY <1>1, <1>2 DEF IsCpu
<1>6. run' = [pc |-> p, exc |-> run.exc, saved |-> run.saved, count |-> left, si |-> run.si,
              di |-> run.di, val |-> run.val, val2 |-> run.val2, wrote |-> f]
  BY ONLY <1>1, <1>2 DEF IsRun
<1>7. ghost' = [cpu |-> ghost.cpu, mem |-> ghost.mem, did |-> n, ahead |-> f,
                tainted |-> ghost.tainted, wrote |-> ghost.wrote]
  BY ONLY <1>1, <1>2 DEF IsGhost
<1>8. /\ cpu'.rsi = a /\ cpu'.rdi = b /\ cpu'.rcx = c /\ cpu'.rax = rax /\ cpu'.zf = zf
  BY ONLY <1>5
<1>9. /\ run'.pc = p /\ run'.saved = run.saved /\ run'.count = left /\ run'.si = run.si
      /\ run'.di = run.di /\ run'.wrote = f
  BY ONLY <1>6
<1>10. /\ ghost'.cpu = ghost.cpu /\ ghost'.mem = ghost.mem /\ ghost'.did = n
       /\ ghost'.ahead = f /\ ghost'.tainted = ghost.tainted /\ ghost'.wrote = ghost.wrote
  BY ONLY <1>7
<1>11. IsCpu(cpu)'
  BY ONLY <1>3, <1>5, <1>8 DEF IsCpu
<1>12. IsRun'
  <2>1. run' = [pc |-> run'.pc, exc |-> run'.exc, saved |-> run'.saved, count |-> run'.count,
                si |-> run'.si, di |-> run'.di, val |-> run'.val, val2 |-> run'.val2,
                wrote |-> run'.wrote]
    BY ONLY <1>6
  <2> QED
    BY <1>1, <1>4, <1>9, <2>1 DEF IsRun
<1>13. IsGhost'
  <2>1. ghost' = [cpu |-> ghost'.cpu, mem |-> ghost'.mem, did |-> ghost'.did,
                  ahead |-> ghost'.ahead, tainted |-> ghost'.tainted, wrote |-> ghost'.wrote]
    BY ONLY <1>7
  <2> QED
    BY <1>4, <1>10, <2>1 DEF IsGhost
<1>14. Advanced(moved, rax, zf, cpu')
  BY <1>8 DEF Advanced, a, b, c
<1>15. IsCpu(run.saved)' /\ IsCpu(ghost.cpu)'
  BY <1>1, <1>9, <1>10 DEF IsCpu
<1>16. TypeOK'
  BY <1>4, <1>9, <1>10, <1>11, <1>12, <1>13, <1>15 DEF TypeOK
<1> QED
  BY <1>4, <1>9, <1>10, <1>14, <1>16 DEF Frozen, p, left, n

\* The tests after an iteration end the loop exactly when the reference ends it.
LEMMA EndsWhenHit ==
  ASSUME Inv, ~ghost.tainted, InCallback, NEW zf,
         prog.op \in {"cmps", "scas"} => zf = Equal(ghost.did)
  PROVE  /\ ghost.did + 1 <= Requested
         /\ RepEnds(run.count - 1, zf) => ghost.did + 1 = Due
         /\ ~RepEnds(run.count - 1, zf) =>
              /\ Repeated /\ run.count - 1 > 0
              /\ \A k \in 0..(ghost.did + 1)-1 : ~Hit(k)
<1> DEFINE n == ghost.did
<1>1. TypeOK /\ n \in Nat /\ Requested \in Nat
  BY RequestedType DEF Inv, TypeOK, IsGhost
<1>2. run.count = Requested - n /\ run.count > 0 /\ run.pc # "done"
  BY DEF Inv, Exact, Locals, InCallback, Iterating
<1>3. \A k \in 0..n-1 : ~Hit(k)
  BY <1>2 DEF Inv, Exact, Progress
<1>4. n + 1 <= Requested /\ n \in 0..Requested-1
  BY <1>1, <1>2
<1>5. ~Repeated => run.count - 1 = 0
  <2>1. SUFFICES ASSUME ~Repeated PROVE run.count - 1 = 0
    OBVIOUS
  <2>2. n = 0 /\ Requested = 1
    BY <1>2, <2>1 DEF Inv, Exact, Rollback, Requested
  <2> QED
    BY <1>2, <2>2
<1>6. RepEnds(run.count - 1, zf) <=> run.count - 1 = 0 \/ Hit(n)
  BY <1>5 DEF RepEnds, Hit
<1>7. CASE Hit(n)
  <2>1. Due = n + 1
    BY <1>1, <1>3, <1>4, <1>7, DueAt
  <2> QED
    BY <1>4, <1>6, <1>7, <2>1
<1>8. CASE ~Hit(n)
  <2>1. \A k \in 0..(n + 1)-1 : ~Hit(k)
    BY <1>1, <1>3, <1>8
  <2>2. CASE run.count - 1 = 0
    <3>1. n + 1 = Requested
      BY <1>1, <1>2, <2>2
    <3>2. Due = Requested
      BY <1>1, <2>1, <3>1, DueWithout
    <3> QED
      BY <1>4, <1>6, <2>2, <3>1, <3>2
  <2>3. CASE run.count - 1 # 0
    BY <1>1, <1>2, <1>4, <1>5, <1>6, <1>8, <2>1, <2>3
  <2> QED
    BY <2>2, <2>3
<1> QED
  BY <1>7, <1>8

LEMMA Advances ==
  ASSUME Inv, InCallback, prog' = prog, NEW moved, MovesOwn(moved), NEW rax, NEW zf,
         Advance(moved, rax, zf),
         ghost.tainted \/ rax = IF prog.op = "lods"
                                THEN write_lods_accumulator(ghost.cpu.rax,
                                                            Elem(ghost.mem, SrcAt(ghost.did)))
                                ELSE ghost.cpu.rax,
         ghost.tainted \/ zf = IF prog.op \in {"cmps", "scas"} THEN Equal(ghost.did)
                               ELSE ghost.cpu.zf,
         ghost.tainted \/ \A m : MemoryIs(m) => mem' = Does(m, ghost.did)
  PROVE  Inv'
<1>1. /\ TypeOK' /\ Frozen /\ Advanced(moved, rax, zf, cpu')
      /\ run'.pc = IF RepEnds(run.count - 1, zf) THEN "done" ELSE "iter"
      /\ run'.count = run.count - 1 /\ run'.saved = run.saved
      /\ ghost'.did = ghost.did + 1 /\ ghost'.wrote = ghost.wrote
      /\ ghost'.tainted = ghost.tainted /\ ~ghost'.ahead
  BY AdvanceType DEF Inv
<1>2. CASE ghost.tainted
  BY <1>1, <1>2 DEF Inv, Exact
<1>3. CASE ~ghost.tainted
  <2> DEFINE n == ghost.did + 1
  <2>1. Registers /\ Rollback /\ Memory /\ Locals /\ Progress /\ TypeOK
    BY <1>3 DEF Inv, Exact
  <2>2. ghost.did \in Nat /\ n \in Nat /\ n > 0 /\ n - 1 = ghost.did /\ Requested \in Nat
    BY <2>1, RequestedType DEF TypeOK, IsGhost
  <2>3. /\ n <= Requested
        /\ RepEnds(run.count - 1, zf) => n = Due
        /\ ~RepEnds(run.count - 1, zf) =>
             Repeated /\ run.count - 1 > 0 /\ \A k \in 0..n-1 : ~Hit(k)
    <3>1. prog.op \in {"cmps", "scas"} => zf = Equal(ghost.did)
      BY <1>3
    <3> QED
      BY <1>3, <3>1, EndsWhenHit
  <2>4. Registers'
    <3>1. RegsAfter(cpu', n) /\ Untouched(cpu')
      BY <1>1, <1>3, RegistersNext
    <3>2. FlagsAfter(cpu', n)
      <4>1. cpu'.rax = rax /\ cpu'.zf = zf
        BY <1>1 DEF Advanced
      <4>2. cpu'.rax = IF prog.op = "lods" /\ n > 0
                       THEN write_lods_accumulator(ghost.cpu.rax, Elem(ghost.mem, SrcAt(n - 1)))
                       ELSE ghost.cpu.rax
        BY <1>3, <2>2, <4>1
      <4>3. cpu'.zf = IF prog.op \in {"cmps", "scas"} /\ n > 0 THEN Equal(n - 1) ELSE ghost.cpu.zf
        BY <1>3, <2>2, <4>1
      <4> QED
        BY <4>2, <4>3 DEF FlagsAfter
    <3>3. RegsAfter(cpu, ghost.did)' /\ Untouched(cpu)' /\ FlagsAfter(cpu, ghost.did)'
      <4>1. ghost'.did = n
        BY <1>1
      <4> HIDE DEF n
      <4> QED
        BY <1>1, <3>1, <3>2, <4>1, CpuAfterKept
    <3> QED
      BY <3>3 DEF Registers
  <2>5. run'.pc # "done" => run'.pc = "iter" /\ ~RepEnds(run.count - 1, zf)
    BY <1>1
  <2>6. Rollback'
    BY <1>1, <2>3, <2>5, FrozenSizes DEF Rollback
  <2>7. Locals'
    <3>1. run.count = Requested - ghost.did /\ Requested' = Requested
      BY <1>1, <2>1, FrozenSizes DEF Locals, InCallback, Iterating
    <3>2. run'.count = Requested - ghost'.did
      BY <1>1, <2>2, <3>1
    <3>3. run'.pc \in {"iter", "done"}
      BY <1>1
    <3> QED
      BY <1>1, <2>3, <2>5, <3>1, <3>2, <3>3 DEF Locals, Iterating, InCallback
  <2>8. Memory'
    <3>1. PICK m : Reached(m, ghost.did) /\ MemoryIs(m)
      BY <2>1 DEF Memory
    <3> DEFINE m2 == Does(m, ghost.did)
    <3>2. mem' = m2 /\ Reached(m2, n)
      BY <1>3, <2>2, <3>1, ReachedNext
    <3>3. prog.op \notin {"movs", "stos"} => m2 = ghost.mem
      BY <3>1 DEF MemoryIs, Does
    <3>4. \A x : Values(x)'
      <4>1. run'.pc \in {"iter", "done"}
        BY <1>1
      <4> QED
        BY <4>1 DEF Values, Reads
    <3>5. PICK q : q = m2
      OBVIOUS
    <3>6. ghost'.did = n
      BY <1>1
    <3> HIDE DEF m2, n
    <3> QED
      BY <1>1, <3>2, <3>3, <3>4, <3>5, <3>6, MemoryKept
  <2>9. Progress'
    <3>1. CASE RepEnds(run.count - 1, zf)
      <4>1. Due' = Due /\ Requested' = Requested
        BY <1>1, FrozenDue, FrozenSizes
      <4> QED
        BY <1>1, <2>3, <3>1, <4>1 DEF Progress
    <3>2. CASE ~RepEnds(run.count - 1, zf)
      <4>1. run'.pc # "done" /\ ghost'.did = n /\ n <= Requested /\ \A k \in 0..n-1 : ~Hit(k)
        BY <1>1, <2>3, <3>2
      <4> HIDE DEF n
      <4> QED
        BY <1>1, <4>1, ProgressKept
    <3> QED
      BY <3>1, <3>2
  <2> QED
    BY <1>1, <2>4, <2>6, <2>7, <2>8, <2>9 DEF Inv, Exact
<1> QED
  BY <1>2, <1>3

-----------------------------------------------------------------------------
(* The instructions                                                        *)

\* Where the iteration's registers point is where the reference's iteration is.
LEMMA IndicesAt ==
  ASSUME NEW i, NEW d, IndicesAre(i, d)
  PROVE  /\ "rsi" \in OwnRegs => SrcAddr(i) = SrcAt(ghost.did)
         /\ "rdi" \in OwnRegs => DstAddr(d) = DstAt(ghost.did)
  BY DEF IndicesAre, SrcAt, DstAt

\* A first read of an iteration: of the source, or of what a scan is at.
LEMMA FirstRead ==
  ASSUME Inv, run.pc = "iter", prog' = prog, mem' = mem, NEW a, Read(a, "read", Indices),
         \/ prog.op \in {"movs", "lods", "cmps"} /\ a = SrcAddr(Indices.si)
         \/ prog.op = "scas" /\ a = DstAddr(Indices.di)
  PROVE  Inv'
<1> DEFINE i == Low(cpu.rsi, inst.asize)
           d == Low(cpu.rdi, inst.asize)
           p == "read"
<1>1. /\ i \in Int /\ d \in Int /\ LocalsAre(Indices, i, d, run.val)
      /\ Indices.si = i /\ Indices.di = d
      /\ ghost.tainted \/ IndicesAre(i, d)
  BY IndicesRight DEF LocalsAre
<1> HIDE DEF i, d
<1>2. ASSUME ~ghost.tainted, NEW m, MemoryIs(m) PROVE Reads(m, "read", Elem(mem, a), run.val)
  <2>1. CASE prog.op \in {"movs", "lods", "cmps"} /\ a = SrcAddr(Indices.si)
    <3>1. a = SrcAt(ghost.did)
      BY <1>1, <1>2, <2>1, IndicesAt DEF OwnRegs
    <3>2. Elem(mem, a) = Elem(m, SrcAt(ghost.did))
      BY <1>2, <2>1, <3>1, ReadsSource
    <3> QED
      BY <2>1, <3>2 DEF Reads
  <2>2. CASE prog.op = "scas" /\ a = DstAddr(Indices.di)
    <3>1. a = DstAt(ghost.did)
      BY <1>1, <1>2, <2>2, IndicesAt DEF OwnRegs
    <3>2. mem = m
      BY <1>2, <2>2, ReadsDest
    <3> QED
      BY <2>2, <3>1, <3>2 DEF Reads
  <2> QED
    BY <2>1, <2>2
<1>3. ghost.tainted \/ \A m : MemoryIs(m) => Reads(m, p, Elem(mem, a), run.val)
  BY <1>2
<1>4. p \in {"read", "read2"} /\ run.pc \in {"iter", "read"} /\ Read(a, p, Indices)
  OBVIOUS
<1> HIDE DEF p
<1>5. Inv /\ prog' = prog /\ mem' = mem
  OBVIOUS
<1> DEFINE locals == Indices
<1>6. LocalsAre(locals, i, d, run.val) /\ Read(a, p, locals)
  BY <1>1, <1>4
<1> HIDE DEF locals
<1> QED
  BY ONLY <1>1, <1>3, <1>4, <1>5, <1>6, ReadKeeps

\* What the iteration at hand has in its locals.
LEMMA RunAre ==
  ASSUME Inv, InCallback
  PROVE  /\ run.si \in Int /\ run.di \in Int /\ LocalsAre(run, run.si, run.di, run.val)
         /\ ghost.tainted \/ IndicesAre(run.si, run.di)
         /\ ghost.tainted \/ \A m : MemoryIs(m) => Reads(m, run.pc, run.val, run.val2)
<1>1. IsRun
  BY DEF Inv, TypeOK
<1>2. run.si \in Int /\ run.di \in Int
  BY <1>1 DEF IsRun
<1>3. LocalsAre(run, run.si, run.di, run.val)
  BY ONLY <1>1 DEF IsRun, LocalsAre
<1>4. ghost.tainted \/ IndicesAre(run.si, run.di)
  BY DEF Inv, Exact, Locals, IndicesAre
<1>5. \A m : MemoryIs(m) => Reads(m, run.pc, run.val, run.val2)
  BY DEF MemoryIs, Values
<1> QED
  BY <1>2, <1>3, <1>4, <1>5

\* The store, and the end of its iteration or the hook's exception.
LEMMA Stores ==
  ASSUME Inv, run.pc = "write", prog.op \in {"movs", "stos"}, prog' = prog,
         NEW moved, MovesOwn(moved), NEW overlap,
         prog.op = "movs" =>
           overlap = (/\ ElemCells(SrcAddr(run.si)) # ElemCells(DstAddr(run.di))
                      /\ ElemCells(SrcAddr(run.si)) \cap ElemCells(DstAddr(run.di)) # {}),
         mem' = Put(mem, DstAddr(run.di), run.val),
         IF run.exc # "none" THEN Break(run.exc, TRUE, overlap \/ HookLeftRegister)
         ELSE Advance(moved, cpu.rax, cpu.zf)
  PROVE  Inv'
<1>1. CASE run.exc # "none"
  <2>1. Break(run.exc, TRUE, overlap \/ HookLeftRegister)
    BY <1>1
  <2>2. /\ run' = [run EXCEPT !.pc = "stopped", !.exc = run.exc]
        /\ cpu' = IF Repeated THEN cpu ELSE run.saved
        /\ ghost' = [ghost EXCEPT !.ahead = TRUE,
                                  !.tainted = ghost.tainted \/ (overlap \/ HookLeftRegister)]
    BY <2>1 DEF Break
  <2> QED
    BY <2>2, HaltsAhead
<1>2. CASE ~(run.exc # "none")
  <2> DEFINE rax == cpu.rax
             zf == cpu.zf
  <2>1. Advance(moved, rax, zf)
    BY <1>2
  <2>2. InCallback
    BY DEF InCallback
  <2>3. ghost.tainted \/ FlagsAfter(cpu, ghost.did)
    BY DEF Inv, Exact, Registers
  <2>4. ghost.tainted \/ (rax = ghost.cpu.rax /\ zf = ghost.cpu.zf)
    BY <2>3 DEF FlagsAfter
  <2>5. ghost.tainted \/ \A m : MemoryIs(m) => mem' = Does(m, ghost.did)
    BY StoreDoes DEF Inv, Exact
  <2>6. /\ ghost.tainted \/ rax = IF prog.op = "lods"
                                  THEN write_lods_accumulator(ghost.cpu.rax,
                                                            Elem(ghost.mem, SrcAt(ghost.did)))
                                  ELSE ghost.cpu.rax
        /\ ghost.tainted \/ zf = IF prog.op \in {"cmps", "scas"} THEN Equal(ghost.did)
                                 ELSE ghost.cpu.zf
    BY <2>4
  <2> HIDE DEF rax, zf
  <2> QED
    BY <2>1, <2>2, <2>5, <2>6, Advances
<1> QED
  BY <1>1, <1>2

LEMMA MovsKeeps ==
  ASSUME Inv, execute_movs, prog' = prog
  PROVE  Inv'
<1>1. prog.op = "movs"
  BY DEF execute_movs
<1>2. CASE /\ run.pc = "iter" /\ mem' = mem
           /\ Validated(SrcAddr(Indices.si), DstAddr(Indices.di),
                        Read(SrcAddr(Indices.si), "read", Indices))
  <2>1. CASE Stop("gp")
    BY <1>2, <2>1, Halts
  <2>2. CASE Read(SrcAddr(Indices.si), "read", Indices)
    BY <1>1, <1>2, <2>2, FirstRead
  <2> QED
    BY <1>2, <2>1, <2>2 DEF Validated
<1>3. CASE /\ run.pc = "read" /\ mem' = mem
           /\ AfterHooks(Write(DstAddr(run.di), run))
  <2>1. CASE Stop(run.exc)
    BY <1>3, <2>1, Halts
  <2>2. CASE Write(DstAddr(run.di), run)
    <3> DEFINE i == run.si
               d == run.di
               v == run.val
               a == DstAddr(d)
               locals == run
    <3>1. /\ i \in Int /\ d \in Int /\ LocalsAre(locals, i, d, v) /\ Write(a, locals)
          /\ ghost.tainted \/ IndicesAre(i, d)
          /\ ghost.tainted \/ \A m : MemoryIs(m) => Reads(m, run.pc, v, run.val2)
      BY <1>3, <2>2, RunAre DEF InCallback
    <3>2. ghost.tainted \/ \A m : MemoryIs(m) => Reads(m, "write", v, run.val2)
      BY <1>1, <1>3, <3>1 DEF Reads
    <3>3. Inv /\ run.pc \in {"iter", "read"} /\ prog' = prog /\ mem' = mem
      BY <1>3
    <3> HIDE DEF i, d, v, a, locals
    <3> QED
      BY ONLY <3>1, <3>2, <3>3, WriteKeeps
  <2> QED
    BY <1>3, <2>1, <2>2 DEF AfterHooks
<1>4. CASE /\ run.pc = "write"
           /\ Store(DstAddr(run.di), run.val,
                    /\ ElemCells(SrcAddr(run.si)) # ElemCells(DstAddr(run.di))
                    /\ ElemCells(SrcAddr(run.si)) \cap ElemCells(DstAddr(run.di)) # {},
                    Advance({"rsi", "rdi"}, cpu.rax, cpu.zf))
  <2> DEFINE overlap == /\ ElemCells(SrcAddr(run.si)) # ElemCells(DstAddr(run.di))
                        /\ ElemCells(SrcAddr(run.si)) \cap ElemCells(DstAddr(run.di)) # {}
             moved == {"rsi", "rdi"}
  <2>1. /\ mem' = Put(mem, DstAddr(run.di), run.val)
        /\ IF run.exc # "none" THEN Break(run.exc, TRUE, overlap \/ HookLeftRegister)
           ELSE Advance(moved, cpu.rax, cpu.zf)
    BY <1>4 DEF Store
  <2>2. MovesOwn(moved)
    BY <1>1 DEF MovesOwn, OwnRegs
  <2>3. overlap = (/\ ElemCells(SrcAddr(run.si)) # ElemCells(DstAddr(run.di))
                   /\ ElemCells(SrcAddr(run.si)) \cap ElemCells(DstAddr(run.di)) # {})
    OBVIOUS
  <2> HIDE DEF overlap, moved
  <2> QED
    BY <1>1, <1>4, <2>1, <2>2, <2>3, Stores
<1> QED
  BY <1>2, <1>3, <1>4 DEF execute_movs

LEMMA StosKeeps ==
  ASSUME Inv, execute_stos, prog' = prog
  PROVE  Inv'
<1>1. prog.op = "stos"
  BY DEF execute_stos
<1>2. CASE /\ run.pc = "iter" /\ mem' = mem
           /\ Write(DstAddr(Indices.di), [Indices EXCEPT !.val = Accumulator(cpu.rax)])
  <2> DEFINE i == Low(cpu.rsi, inst.asize)
             d == Low(cpu.rdi, inst.asize)
             v == Accumulator(cpu.rax)
             a == DstAddr(Indices.di)
             locals == [Indices EXCEPT !.val = v]
  <2>1. /\ i \in Int /\ d \in Int /\ LocalsAre(Indices, i, d, run.val)
        /\ ghost.tainted \/ IndicesAre(i, d)
    BY <1>2, IndicesRight DEF LocalsAre
  <2>2. LocalsAre(locals, i, d, v)
    <3> HIDE DEF i, d, v
    <3> QED
      BY ONLY <2>1 DEF LocalsAre
  <2>3. ghost.tainted \/ FlagsAfter(cpu, ghost.did)
    BY DEF Inv, Exact, Registers
  <2>4. ghost.tainted \/ v = Accumulator(ghost.cpu.rax)
    BY <1>1, <2>3 DEF FlagsAfter
  <2>5. ghost.tainted \/ \A m : MemoryIs(m) => Reads(m, "write", v, run.val2)
    BY <1>1, <2>4 DEF Reads
  <2>6. Inv /\ run.pc \in {"iter", "read"} /\ prog' = prog /\ mem' = mem /\ Write(a, locals)
    BY <1>2
  <2> HIDE DEF i, d, v, a, locals
  <2> QED
    BY ONLY <2>1, <2>2, <2>5, <2>6, WriteKeeps
<1>3. CASE /\ run.pc = "write"
           /\ Store(DstAddr(run.di), run.val, FALSE, Advance({"rdi"}, cpu.rax, cpu.zf))
  <2> DEFINE moved == {"rdi"}
             overlap == FALSE
  <2>1. /\ mem' = Put(mem, DstAddr(run.di), run.val)
        /\ IF run.exc # "none" THEN Break(run.exc, TRUE, overlap \/ HookLeftRegister)
           ELSE Advance(moved, cpu.rax, cpu.zf)
    BY <1>3 DEF Store
  <2>2. MovesOwn(moved)
    BY <1>1 DEF MovesOwn, OwnRegs
  <2> HIDE DEF overlap, moved
  <2> QED
    BY <1>1, <1>3, <2>1, <2>2, Stores
<1> QED
  BY <1>2, <1>3 DEF execute_stos

\* The accumulator and ZF at the end of an iteration without a store.
LEMMA Computes ==
  ASSUME Inv, InCallback, prog.op \in {"lods", "cmps", "scas"}
  PROVE  /\ ghost.tainted \/ (cpu.rax = ghost.cpu.rax \/ prog.op = "lods")
         /\ ghost.tainted \/ (cpu.zf = ghost.cpu.zf \/ prog.op # "lods")
         /\ ghost.tainted \/ Reads(ghost.mem, run.pc, run.val, run.val2)
         /\ ghost.tainted \/ \A m : MemoryIs(m) => mem = Does(m, ghost.did)
<1>1. CASE ghost.tainted
  BY <1>1
<1>2. CASE ~ghost.tainted
  <2>1. FlagsAfter(cpu, ghost.did) /\ Memory
    BY <1>2 DEF Inv, Exact, Registers
  <2>2. PICK m : MemoryIs(m)
    BY <2>1 DEF Memory
  <2>3. m = ghost.mem /\ Reads(m, run.pc, run.val, run.val2)
    BY <2>2 DEF MemoryIs, Values
  <2>4. \A x : MemoryIs(x) => mem = Does(x, ghost.did)
    BY DEF MemoryIs, Does
  <2> QED
    BY <2>1, <2>3, <2>4, Zenon DEF FlagsAfter
<1> QED
  BY <1>1, <1>2

\* The accumulator a load leaves depends on its last element only.
LEMMA LodsAgain ==
  ASSUME prog \in Programs, NEW r, NEW u, NEW v
  PROVE  write_lods_accumulator(write_lods_accumulator(r, u), v) = write_lods_accumulator(r, v)
<1> DEFINE q == write_lods_accumulator(r, u)
<1>1. \A i \in 0..7 : q[i] = IF i < step THEN u[i] ELSE IF step = 4 THEN 0 ELSE r[i]
  BY DEF write_lods_accumulator
<1> HIDE DEF q
<1>2. \A i \in 0..7 : (IF i < step THEN v[i] ELSE IF step = 4 THEN 0 ELSE q[i])
                      = (IF i < step THEN v[i] ELSE IF step = 4 THEN 0 ELSE r[i])
  BY <1>1, Zenon
<1>3. write_lods_accumulator(q, v) = write_lods_accumulator(r, v)
  BY <1>2 DEF write_lods_accumulator
<1> QED
  BY <1>3 DEF q

LEMMA LodsKeeps ==
  ASSUME Inv, execute_lods, prog' = prog
  PROVE  Inv'
<1>1. prog.op = "lods" /\ mem' = mem
  BY DEF execute_lods
<1>2. CASE /\ run.pc = "iter"
           /\ Validated(SrcAddr(Indices.si), SrcAddr(Indices.si),
                        Read(SrcAddr(Indices.si), "read", Indices))
  <2>1. CASE Stop("gp")
    BY <1>1, <1>2, <2>1, Halts
  <2>2. CASE Read(SrcAddr(Indices.si), "read", Indices)
    BY <1>1, <1>2, <2>2, FirstRead
  <2> QED
    BY <1>2, <2>1, <2>2 DEF Validated
<1>3. CASE /\ run.pc = "read"
           /\ AfterHooks(Advance({"rsi"}, write_lods_accumulator(cpu.rax, run.val), cpu.zf))
  <2>1. CASE Stop(run.exc)
    BY <1>1, <1>3, <2>1, Halts
  <2>2. CASE Advance({"rsi"}, write_lods_accumulator(cpu.rax, run.val), cpu.zf)
    <3> DEFINE rax == write_lods_accumulator(cpu.rax, run.val)
               zf == cpu.zf
               moved == {"rsi"}
               e == Elem(ghost.mem, SrcAt(ghost.did))
    <3>1. InCallback /\ MovesOwn(moved)
      BY <1>1, <1>3 DEF InCallback, MovesOwn, OwnRegs
    <3>2. ghost.tainted \/ run.val = e
      BY <1>1, <1>3, <3>1, Computes DEF Reads
    <3>3. ghost.tainted \/ rax = write_lods_accumulator(ghost.cpu.rax, e)
      <4>1. SUFFICES ASSUME ~ghost.tainted PROVE rax = write_lods_accumulator(ghost.cpu.rax, e)
        OBVIOUS
      <4>2. FlagsAfter(cpu, ghost.did) /\ prog \in Programs
        BY <4>1 DEF Inv, TypeOK, Exact, Registers
      <4>3. \/ cpu.rax = ghost.cpu.rax
            \/ cpu.rax = write_lods_accumulator(ghost.cpu.rax,
                                                Elem(ghost.mem, SrcAt(ghost.did - 1)))
        BY <4>2, Zenon DEF FlagsAfter
      <4>4. rax = write_lods_accumulator(cpu.rax, e)
        BY <3>2, <4>1
      <4> HIDE DEF rax, e
      <4> QED
        BY <4>2, <4>3, <4>4, LodsAgain
    <3>4. ghost.tainted \/ zf = ghost.cpu.zf
      BY <1>1, <3>1, Computes
    <3>5. ghost.tainted \/ \A m : MemoryIs(m) => mem' = Does(m, ghost.did)
      BY <1>1, <3>1, Computes
    <3>6. /\ ghost.tainted \/ rax = IF prog.op = "lods"
                                    THEN write_lods_accumulator(ghost.cpu.rax, e)
                                    ELSE ghost.cpu.rax
          /\ ghost.tainted \/ zf = IF prog.op \in {"cmps", "scas"} THEN Equal(ghost.did)
                                   ELSE ghost.cpu.zf
      BY <1>1, <3>3, <3>4
    <3>7. Advance(moved, rax, zf)
      BY <2>2
    <3> HIDE DEF rax, zf, moved
    <3> QED
      BY <3>1, <3>5, <3>6, <3>7, Advances
  <2> QED
    BY <1>3, <2>1, <2>2 DEF AfterHooks
<1> QED
  BY <1>2, <1>3 DEF execute_lods

\* A scan's iteration ends with the flag of its comparison.
LEMMA Scans ==
  ASSUME Inv, InCallback, prog.op \in {"cmps", "scas"}, prog' = prog, mem' = mem,
         NEW moved, MovesOwn(moved), NEW zf, Advance(moved, cpu.rax, zf),
         ghost.tainted \/ zf = Equal(ghost.did)
  PROVE  Inv'
<1> DEFINE rax == cpu.rax
<1>1. ghost.tainted \/ rax = ghost.cpu.rax
  BY Computes
<1>2. ghost.tainted \/ \A m : MemoryIs(m) => mem' = Does(m, ghost.did)
  BY Computes
<1>3. /\ ghost.tainted \/ rax = IF prog.op = "lods"
                                THEN write_lods_accumulator(ghost.cpu.rax,
                                                            Elem(ghost.mem, SrcAt(ghost.did)))
                                ELSE ghost.cpu.rax
      /\ ghost.tainted \/ zf = IF prog.op \in {"cmps", "scas"} THEN Equal(ghost.did)
                               ELSE ghost.cpu.zf
  BY <1>1
<1>4. Advance(moved, rax, zf)
  OBVIOUS
<1> HIDE DEF rax
<1> QED
  BY <1>2, <1>3, <1>4, Advances

LEMMA ScasKeeps ==
  ASSUME Inv, execute_scas, prog' = prog
  PROVE  Inv'
<1>1. prog.op = "scas" /\ mem' = mem
  BY DEF execute_scas
<1>2. CASE run.pc = "iter" /\ Read(DstAddr(Indices.di), "read", Indices)
  BY <1>1, <1>2, FirstRead
<1>3. CASE /\ run.pc = "read"
           /\ AfterHooks(Advance({"rdi"}, cpu.rax,
                                 update_scas_flags(Accumulator(cpu.rax), run.val)))
  <2>1. CASE Stop(run.exc)
    BY <1>1, <1>3, <2>1, Halts
  <2>2. CASE Advance({"rdi"}, cpu.rax, update_scas_flags(Accumulator(cpu.rax), run.val))
    <3> DEFINE zf == update_scas_flags(Accumulator(cpu.rax), run.val)
               moved == {"rdi"}
    <3>1. InCallback /\ MovesOwn(moved)
      BY <1>1, <1>3 DEF InCallback, MovesOwn, OwnRegs
    <3>2. ghost.tainted \/ (cpu.rax = ghost.cpu.rax /\ run.val = Elem(ghost.mem, DstAt(ghost.did)))
      BY <1>1, <1>3, <3>1, Computes DEF Reads
    <3>3. ghost.tainted \/ zf = Equal(ghost.did)
      BY <1>1, <3>2 DEF update_scas_flags, Equal
    <3>4. Advance(moved, cpu.rax, zf)
      BY <2>2
    <3> HIDE DEF zf, moved
    <3> QED
      BY <1>1, <3>1, <3>3, <3>4, Scans
  <2> QED
    BY <1>3, <2>1, <2>2 DEF AfterHooks
<1> QED
  BY <1>2, <1>3 DEF execute_scas

LEMMA CmpsKeeps ==
  ASSUME Inv, execute_cmps, prog' = prog
  PROVE  Inv'
<1>1. prog.op = "cmps" /\ mem' = mem
  BY DEF execute_cmps
<1>2. CASE /\ run.pc = "iter"
           /\ Validated(SrcAddr(Indices.si), DstAddr(Indices.di),
                        Read(SrcAddr(Indices.si), "read", Indices))
  <2>1. CASE Stop("gp")
    BY <1>1, <1>2, <2>1, Halts
  <2>2. CASE Read(SrcAddr(Indices.si), "read", Indices)
    BY <1>1, <1>2, <2>2, FirstRead
  <2> QED
    BY <1>2, <2>1, <2>2 DEF Validated
<1>3. CASE run.pc = "read" /\ AfterHooks(Read(DstAddr(run.di), "read2", run))
  <2>1. CASE Stop(run.exc)
    BY <1>1, <1>3, <2>1, Halts
  <2>2. CASE Read(DstAddr(run.di), "read2", run)
    <3> DEFINE i == run.si
               d == run.di
               a == DstAddr(d)
               p == "read2"
               locals == run
    <3>1. /\ i \in Int /\ d \in Int /\ LocalsAre(locals, i, d, run.val) /\ Read(a, p, locals)
          /\ ghost.tainted \/ IndicesAre(i, d)
          /\ ghost.tainted \/ \A m : MemoryIs(m) => Reads(m, run.pc, run.val, run.val2)
      BY <1>3, <2>2, RunAre DEF InCallback
    <3>2. ASSUME ~ghost.tainted, NEW m, MemoryIs(m) PROVE Reads(m, p, Elem(mem, a), run.val)
      <4>1. run.val = Elem(m, SrcAt(ghost.did))
        BY <1>1, <1>3, <3>1, <3>2 DEF Reads
      <4>2. a = DstAt(ghost.did)
        BY <1>1, <3>1, <3>2, IndicesAt DEF OwnRegs
      <4>3. mem = m
        BY <1>1, <3>2, ReadsDest
      <4> QED
        BY <1>1, <4>1, <4>2, <4>3 DEF Reads
    <3>3. ghost.tainted \/ \A m : MemoryIs(m) => Reads(m, p, Elem(mem, a), run.val)
      BY <3>2
    <3>4. /\ Inv /\ run.pc \in {"iter", "read"} /\ prog' = prog /\ mem' = mem
          /\ p \in {"read", "read2"}
      BY <1>1, <1>3
    <3> HIDE DEF i, d, a, p, locals
    <3> QED
      BY ONLY <3>1, <3>3, <3>4, ReadKeeps
  <2> QED
    BY <1>3, <2>1, <2>2 DEF AfterHooks
<1>4. CASE /\ run.pc = "read2"
           /\ AfterHooks(Advance({"rsi", "rdi"}, cpu.rax, update_cmps_flags(run.val2, run.val)))
  <2>1. CASE Stop(run.exc)
    BY <1>1, <1>4, <2>1, Halts
  <2>2. CASE Advance({"rsi", "rdi"}, cpu.rax, update_cmps_flags(run.val2, run.val))
    <3> DEFINE zf == update_cmps_flags(run.val2, run.val)
               moved == {"rsi", "rdi"}
    <3>1. InCallback /\ MovesOwn(moved)
      BY <1>1, <1>4 DEF InCallback, MovesOwn, OwnRegs
    <3>2. ghost.tainted \/ (/\ run.val2 = Elem(ghost.mem, SrcAt(ghost.did))
                            /\ run.val = Elem(ghost.mem, DstAt(ghost.did)))
      BY <1>1, <1>4, <3>1, Computes DEF Reads
    <3>3. ghost.tainted \/ zf = Equal(ghost.did)
      BY <1>1, <3>2 DEF update_cmps_flags, Equal
    <3>4. Advance(moved, cpu.rax, zf)
      BY <2>2
    <3> HIDE DEF zf, moved
    <3> QED
      BY <1>1, <3>1, <3>3, <3>4, Scans
  <2> QED
    BY <1>4, <2>1, <2>2 DEF AfterHooks
<1> QED
  BY <1>2, <1>3, <1>4 DEF execute_cmps

-----------------------------------------------------------------------------
(* The host                                                                *)

\* A step of the host that leaves registers, memory and count alone: it repairs pages,
\* raises an exception in a hook, or starts the instruction again.
LEMMA HostKeeps ==
  ASSUME Inv, prog' = prog, cpu' = cpu, mem' = mem, ghost' = ghost, NEW p, NEW e,
         run' = [run EXCEPT !.pc = p, !.exc = e],
         p = run.pc \/ (p = "fetched" /\ run.pc = "stopped")
  PROVE  Inv'
<1> DEFINE s == run.saved
           c == run.count
           i == run.si
           d == run.di
           v == run.val
           u == run.val2
           wr == run.wrote
<1>0. TypeOK /\ IsRun
  BY DEF Inv, TypeOK
<1>1. /\ p \in {"fetched", "iter", "read", "read2", "write", "stopped", "done"}
      /\ c \in Int /\ i \in Int /\ d \in Int /\ IsCpu(s) /\ (wr => ghost.wrote)
      /\ TypeOK /\ prog' = prog /\ cpu' = cpu /\ ghost' = ghost
  BY <1>0 DEF IsRun, TypeOK
<1>2. run' = [pc |-> p, exc |-> e, saved |-> s, count |-> c, si |-> i, di |-> d,
              val |-> v, val2 |-> u, wrote |-> wr]
  <2>1. run' = [run EXCEPT !.pc = p, !.exc = e]
    OBVIOUS
  <2> QED
    BY ONLY <1>0, <2>1 DEF IsRun
<1> HIDE DEF s, c, i, d, v, u, wr
<1>3. /\ TypeOK' /\ Frozen
      /\ run'.pc = p /\ run'.saved = s /\ run'.count = c /\ run'.si = i /\ run'.di = d
      /\ run'.val = v /\ run'.val2 = u /\ run'.wrote = wr
  BY ONLY <1>1, <1>2, LocalsType
<1>4. CASE ghost.tainted
  BY <1>3, <1>4 DEF Inv, Exact
<1>5. CASE ~ghost.tainted
  <2>1. Registers /\ Rollback /\ Memory /\ Locals /\ Progress
    BY <1>5 DEF Inv, Exact
  <2>2. Registers'
    BY <1>3, <2>1, CpuKept DEF Boundary, wr
  <2>3. Repeated' = Repeated /\ Requested' = Requested /\ inst' = inst /\ OwnRegs' = OwnRegs
    BY <1>3, FrozenSizes
  <2>4. Rollback'
    <3>1. CASE run.pc = "done"
      BY <1>3, <3>1 DEF Rollback
    <3>2. CASE run.pc # "done"
      BY <1>3, <2>1, <3>2, SavedKept DEF s
    <3> QED
      BY <3>1, <3>2
  <2>5. Locals'
    <3>1. Iterating' => Iterating /\ run'.pc = run.pc
      BY <1>3 DEF Iterating
    <3>2. InCallback' => InCallback
      BY <1>3 DEF InCallback
    <3>3. InCallback' =>
             /\ ("rsi" \in OwnRegs => run.si = Low(Moved(ghost.cpu.rsi, ghost.did), inst.asize))'
             /\ ("rdi" \in OwnRegs => run.di = Low(Moved(ghost.cpu.rdi, ghost.did), inst.asize))'
      BY <1>3, <2>1, <2>3, <3>2, FrozenSizes DEF Moved, Locals, i, d
    <3> QED
      BY <1>3, <2>1, <2>3, <3>1, <3>3 DEF Locals, c
  <2>6. Memory'
    <3>1. PICK m : Reached(m, ghost.did) /\ MemoryIs(m)
      BY <2>1 DEF Memory
    <3>2. PICK x, z : x = v /\ z = u
      OBVIOUS
    <3>3. Reads(m, p, x, z)
      <4>1. CASE p = run.pc
        BY <3>1, <3>2, <4>1 DEF MemoryIs, Values, v, u
      <4>2. CASE p = "fetched"
        BY <4>2 DEF Reads
      <4> QED
        BY <4>1, <4>2
    <3>4. Reads(m, p, x, z)'
      BY <1>3, <3>3, ReadsKept
    <3>5. Values(m)'
      BY <1>3, <3>2, <3>4 DEF Values, Reads
    <3> QED
      BY <1>3, <3>1, <3>5, MemoryKept DEF MemoryIs
  <2>7. Progress'
    <3>1. CASE run.pc = "done"
      <4>1. Due' = Due
        BY <1>3, FrozenDue
      <4> QED
        BY <1>3, <2>1, <2>3, <3>1, <4>1 DEF Progress
    <3>2. CASE run.pc # "done"
      <4>1. run'.pc # "done"
        BY <1>3, <3>2
      <4> QED
        BY <1>3, <2>1, <3>2, <4>1, ProgressKept DEF Progress
    <3> QED
      BY <3>1, <3>2
  <2> QED
    BY <1>3, <2>2, <2>4, <2>5, <2>6, <2>7 DEF Inv, Exact
<1> QED
  BY <1>4, <1>5

\* A hook's write to a register of the instruction.
LEMMA RegisterKeeps ==
  ASSUME Inv, NEW r, NEW v, HostWritesRegister(r, v), v \in RegValues
  PROVE  Inv'
<1> DEFINE y == TRUE
<1>1. /\ prog' = prog /\ mem' = mem /\ InCallback /\ r \in OwnRegs
      /\ cpu' = [cpu EXCEPT ![r] = v]
      /\ run' = [run EXCEPT !.wrote = y] /\ ghost' = [ghost EXCEPT !.wrote = y]
  BY DEF HostWritesRegister, HostCall
<1>2. v \in Int
  BY StringOpsAssumption DEF Cells, Top
<1>3. /\ TypeOK /\ IsRun /\ IsGhost /\ IsCpu(cpu) /\ IsCpu(run.saved) /\ IsCpu(ghost.cpu)
  BY DEF Inv, TypeOK
<1>4. y
  OBVIOUS
<1> HIDE DEF y
<1>5. run' = [pc |-> run.pc, exc |-> run.exc, saved |-> run.saved, count |-> run.count,
              si |-> run.si, di |-> run.di, val |-> run.val, val2 |-> run.val2, wrote |-> y]
  BY ONLY <1>1, <1>3 DEF IsRun
<1>6. ghost' = [cpu |-> ghost.cpu, mem |-> ghost.mem, did |-> ghost.did, ahead |-> ghost.ahead,
                tainted |-> ghost.tainted, wrote |-> y]
  BY ONLY <1>1, <1>3 DEF IsGhost
<1>7. /\ run'.pc = run.pc /\ run'.saved = run.saved /\ run'.count = run.count
      /\ run'.si = run.si /\ run'.di = run.di /\ run'.val = run.val /\ run'.val2 = run.val2
      /\ run'.wrote = y /\ run'.exc = run.exc
  BY ONLY <1>5
<1>8. /\ ghost'.cpu = ghost.cpu /\ ghost'.mem = ghost.mem /\ ghost'.did = ghost.did
      /\ ghost'.ahead = ghost.ahead /\ ghost'.tainted = ghost.tainted /\ ghost'.wrote = y
  BY ONLY <1>6
<1>9. r \in {"rsi", "rdi", "rcx"}
  BY <1>1 DEF OwnRegs
<1>10. /\ IsCpu(cpu') /\ cpu'.rax = cpu.rax /\ cpu'.zf = cpu.zf
       /\ "rsi" \notin OwnRegs => cpu'.rsi = cpu.rsi
       /\ "rdi" \notin OwnRegs => cpu'.rdi = cpu.rdi
       /\ "rcx" \notin OwnRegs => cpu'.rcx = cpu.rcx
  <2>1. CASE r = "rsi"
    <3>1. cpu' = [rsi |-> v, rdi |-> cpu.rdi, rcx |-> cpu.rcx, rax |-> cpu.rax, zf |-> cpu.zf]
      BY ONLY <1>1, <1>3, <2>1 DEF IsCpu
    <3> QED
      BY <1>1, <1>2, <1>3, <2>1, <3>1 DEF IsCpu
  <2>2. CASE r = "rdi"
    <3>1. cpu' = [rsi |-> cpu.rsi, rdi |-> v, rcx |-> cpu.rcx, rax |-> cpu.rax, zf |-> cpu.zf]
      BY ONLY <1>1, <1>3, <2>2 DEF IsCpu
    <3> QED
      BY <1>1, <1>2, <1>3, <2>2, <3>1 DEF IsCpu
  <2>3. CASE r = "rcx"
    <3>1. cpu' = [rsi |-> cpu.rsi, rdi |-> cpu.rdi, rcx |-> v, rax |-> cpu.rax, zf |-> cpu.zf]
      BY ONLY <1>1, <1>3, <2>3 DEF IsCpu
    <3> QED
      BY <1>1, <1>2, <1>3, <2>3, <3>1 DEF IsCpu
  <2> QED
    BY <1>9, <2>1, <2>2, <2>3
<1>11. TypeOK' /\ Frozen
  <2>1. IsRun'
    BY <1>3, <1>5, <1>7 DEF IsRun
  <2>2. IsGhost'
    BY <1>3, <1>6, <1>8 DEF IsGhost
  <2>3. IsCpu(cpu)' /\ IsCpu(run.saved)' /\ IsCpu(ghost.cpu)'
    BY <1>3, <1>7, <1>8, <1>10 DEF IsCpu
  <2> QED
    BY <1>1, <1>3, <1>4, <1>7, <1>8, <2>1, <2>2, <2>3 DEF TypeOK, Frozen
<1>12. CASE ghost.tainted
  BY <1>8, <1>11, <1>12 DEF Inv, Exact
<1>13. CASE ~ghost.tainted
  <2>1. Registers /\ Rollback /\ Memory /\ Locals /\ Progress
    BY <1>13 DEF Inv, Exact
  <2>2. run.pc # "done" /\ ~Boundary
    BY <1>1 DEF InCallback, Boundary
  <2>3. Registers'
    <3>1. Untouched(cpu')
      BY <1>10, <2>1 DEF Registers, Untouched
    <3>2. FlagsAfter(cpu', ghost.did)
      BY <1>10, <2>1 DEF Registers, FlagsAfter
    <3>3. Untouched(cpu)'
      <4>1. PICK c : c = cpu'
        OBVIOUS
      <4>2. Untouched(c)'
        BY <1>11, <3>1, <4>1, UntouchedKept
      <4> QED
        BY <4>1, <4>2 DEF Untouched
    <3>4. FlagsAfter(cpu, ghost.did)'
      <4>1. PICK c, n : c = cpu' /\ n = ghost.did
        OBVIOUS
      <4>2. FlagsAfter(c, n)'
        BY <1>11, <3>2, <4>1, FlagsAfterKept
      <4>3. ghost'.did = n
        BY <1>8, <4>1
      <4> QED
        BY <4>1, <4>2, <4>3 DEF FlagsAfter, Equal, SrcAt, DstAt, Moved
    <3>5. ~(Boundary' \/ (~run.wrote)')
      BY <1>4, <1>7, <2>2 DEF Boundary
    <3> QED
      BY <3>3, <3>4, <3>5 DEF Registers
  <2>4. Rollback'
    BY <1>4, <1>7, <1>8, <1>11, <2>1, <2>2, SavedKept
  <2>5. Requested' = Requested /\ inst' = inst /\ OwnRegs' = OwnRegs
    BY <1>11, FrozenSizes
  <2>6. Locals'
    <3>1. /\ ("rsi" \in OwnRegs => run.si = Low(Moved(ghost.cpu.rsi, ghost.did), inst.asize))'
          /\ ("rdi" \in OwnRegs => run.di = Low(Moved(ghost.cpu.rdi, ghost.did), inst.asize))'
      BY <1>1, <1>7, <1>8, <1>11, <2>1, <2>5, FrozenSizes DEF Moved, Locals, Frozen
    <3>2. run.count = Requested - ghost.did /\ run.count > 0
      BY <1>1, <2>1 DEF Locals, InCallback, Iterating
    <3> QED
      BY <1>7, <1>8, <2>5, <3>1, <3>2 DEF Locals
  <2>7. Memory'
    <3>1. PICK m : Reached(m, ghost.did) /\ MemoryIs(m)
      BY <2>1 DEF Memory
    <3>2. PICK p, w, u : p = run.pc /\ w = run.val /\ u = run.val2
      OBVIOUS
    <3>3. Reads(m, p, w, u)
      BY <3>1, <3>2 DEF MemoryIs, Values
    <3>4. Reads(m, p, w, u)'
      BY <1>8, <1>11, <3>3, ReadsKept
    <3>5. Values(m)'
      BY <1>7, <3>2, <3>4 DEF Values, Reads
    <3> QED
      BY <1>1, <1>8, <1>11, <3>1, <3>5, MemoryKept DEF MemoryIs
  <2>8. Progress'
    <3>1. run'.pc # "done"
      BY <1>7, <2>2
    <3> QED
      BY <1>8, <1>11, <2>1, <2>2, <3>1, ProgressKept DEF Progress
  <2> QED
    BY <1>8, <1>11, <2>3, <2>4, <2>6, <2>7, <2>8 DEF Inv, Exact
<1> QED
  BY <1>12, <1>13

LEMMA RunSame ==
  ASSUME Inv, run' = run
  PROVE  run' = [run EXCEPT !.pc = run.pc, !.exc = run.exc]
<1>1. IsRun
  BY DEF Inv, TypeOK
<1> QED
  BY ONLY <1>1, run' = run DEF IsRun

LEMMA BeginKeeps ==
  ASSUME Inv, Begin
  PROVE  Inv'
<1> DEFINE count == IF Repeated THEN Low(cpu.rcx, inst.asize) ELSE 1
           f == FALSE
<1>1. run.pc = "fetched" /\ prog' = prog /\ mem' = mem
  BY DEF Begin
<1>2. CASE inst.ud
  <2>1. Stop("ud")
    BY <1>2 DEF Begin
  <2> QED
    BY <1>1, <2>1, Halts
<1>3. CASE ~inst.ud
  <2>1. /\ run' = [run EXCEPT !.pc = IF count = 0 THEN "done" ELSE "iter", !.count = count,
                              !.saved = cpu, !.wrote = f]
        /\ UNCHANGED <<cpu, ghost, mem>>
    BY <1>1, <1>3 DEF Begin
  <2>2. count \in Int
    <3>1. PICK w \in Widths : w = inst.asize
      BY Sizes DEF Inv, TypeOK
    <3>2. cpu.rcx \in Int
      BY DEF Inv, TypeOK, IsCpu
    <3>3. Low(cpu.rcx, w) \in Int
      BY <3>2, LowType
    <3> QED
      BY <3>1, <3>3
  <2>3. f = FALSE /\ count = IF Repeated THEN Low(cpu.rcx, inst.asize) ELSE 1
    OBVIOUS
  <2> HIDE DEF count, f
  <2> QED
    BY <1>1, <2>1, <2>2, <2>3, Begins
<1> QED
  BY <1>2, <1>3

LEMMA InvKept == Inv /\ [Next]_vars => Inv'
<1> SUFFICES ASSUME Inv, [Next]_vars PROVE Inv'
  OBVIOUS
<1>1. CASE Begin
  BY <1>1, BeginKeeps
<1>2. CASE execute_rep_iteration
  <2>1. prog' = prog
    BY <1>2 DEF execute_rep_iteration
  <2> QED
    BY <1>2, <2>1, MovsKeeps, CmpsKeeps, StosKeeps, LodsKeeps, ScasKeeps
    DEF execute_rep_iteration
<1>3. CASE Resume
  <2>1. /\ prog' = prog /\ cpu' = cpu /\ mem' = mem /\ ghost' = ghost /\ run.pc = "stopped"
        /\ run' = [run EXCEPT !.pc = "fetched", !.exc = "none"]
    BY <1>3 DEF Resume
  <2> QED
    BY <2>1, HostKeeps
<1>4. CASE HostRaise
  <2>1. /\ prog' = prog /\ cpu' = cpu /\ mem' = mem /\ ghost' = ghost
        /\ run' = [run EXCEPT !.exc = "host"]
    BY <1>4 DEF HostRaise, HostCall
  <2> DEFINE p == run.pc
             e == "host"
  <2>2. run' = [run EXCEPT !.pc = p, !.exc = e]
    <3>1. IsRun
      BY DEF Inv, TypeOK
    <3> QED
      BY ONLY <2>1, <3>1 DEF IsRun
  <2>3. p = run.pc
    OBVIOUS
  <2> HIDE DEF p, e
  <2> QED
    BY <2>1, <2>2, <2>3, HostKeeps
<1>5. CASE UNCHANGED vars \/ Finished \/ \E c \in Protects : HostProtect(c[1], c[2])
  <2>1. prog' = prog /\ cpu' = cpu /\ mem' = mem /\ ghost' = ghost /\ run' = run
    BY <1>5 DEF Finished, HostProtect, HostCall, vars
  <2> DEFINE p == run.pc
             e == run.exc
  <2>2. run' = [run EXCEPT !.pc = p, !.exc = e]
    BY <2>1, RunSame
  <2>3. p = run.pc
    OBVIOUS
  <2> HIDE DEF p, e
  <2> QED
    BY <2>1, <2>2, <2>3, HostKeeps
<1>6. CASE \E r \in {"rsi", "rdi", "rcx"}, v \in RegValues : HostWritesRegister(r, v)
  BY <1>6, RegisterKeeps
<1> QED
  BY <1>1, <1>2, <1>3, <1>4, <1>5, <1>6 DEF Next, EngineNext

-----------------------------------------------------------------------------
(* What it promises                                                        *)

LEMMA InvRestartExact == Inv => RestartExact
<1> SUFFICES ASSUME Inv, Boundary, ~ghost.tainted
    PROVE  /\ SameReg(cpu.rsi, IndexAfter("rsi", ghost.did))
           /\ SameReg(cpu.rdi, IndexAfter("rdi", ghost.did))
           /\ SameReg(cpu.rcx, CountAfter(ghost.did))
           /\ mem = MemAfter(IF ghost.ahead THEN ghost.did + 1 ELSE ghost.did)
           /\ cpu.zf = IF prog.op \in {"cmps", "scas"} /\ ghost.did > 0
                       THEN Equal(ghost.did - 1) ELSE ghost.cpu.zf
           /\ cpu.rax = IF prog.op = "lods" /\ ghost.did > 0
                        THEN write_lods_accumulator(ghost.cpu.rax,
                                                    Elem(mem, SrcAt(ghost.did - 1)))
                        ELSE ghost.cpu.rax
  BY DEF RestartExact
<1>1. Registers /\ Memory /\ ghost.did \in Nat
  BY DEF Inv, Exact, TypeOK, IsGhost
<1>2. RegsAfter(cpu, ghost.did) /\ FlagsAfter(cpu, ghost.did)
  BY <1>1 DEF Registers
<1>3. PICK m : Reached(m, ghost.did) /\ MemoryIs(m)
  BY <1>1 DEF Memory
<1>4. mem = MemAfter(IF ghost.ahead THEN ghost.did + 1 ELSE ghost.did)
  <2>1. CASE ghost.ahead
    <3> DEFINE x == Does(m, ghost.did)
               n == ghost.did + 1
    <3>1. Reached(x, n) /\ n \in Nat /\ mem = x
      BY <1>1, <1>3, <2>1, ReachedNext DEF MemoryIs
    <3> HIDE DEF x, n
    <3>2. MemAfter(n) = x
      BY <3>1, ReachedIsAfter
    <3> QED
      BY <2>1, <3>1, <3>2 DEF n
  <2>2. CASE ~ghost.ahead
    <3>1. MemAfter(ghost.did) = m
      BY <1>1, <1>3, ReachedIsAfter
    <3> QED
      BY <1>3, <2>2, <3>1 DEF MemoryIs
  <2> QED
    BY <2>1, <2>2
<1>5. prog.op = "lods" => mem = ghost.mem
  BY <1>3 DEF MemoryIs, Does
<1>6. cpu.rax = IF prog.op = "lods" /\ ghost.did > 0
                THEN write_lods_accumulator(ghost.cpu.rax, Elem(mem, SrcAt(ghost.did - 1)))
                ELSE ghost.cpu.rax
  BY <1>2, <1>5 DEF FlagsAfter
<1> QED
  BY <1>2, <1>4, <1>6 DEF RegsAfter, FlagsAfter

LEMMA InvEndsWhenDue == Inv => EndsWhenDue
<1> SUFFICES ASSUME Inv, ~ghost.tainted
    PROVE  ghost.did <= Due /\ (run.pc = "done" => ghost.did = Due)
  BY DEF EndsWhenDue
<1>1. TypeOK /\ Progress /\ ghost.did \in Nat
  BY DEF Inv, Exact, TypeOK, IsGhost
<1>2. CASE run.pc = "done"
  BY <1>1, <1>2 DEF Progress
<1>3. CASE run.pc # "done"
  BY <1>1, <1>3, DueBeyond DEF Progress
<1> QED
  BY <1>2, <1>3

\* executor.hpp, the PARTIAL_PROGRESS branch of cpu_step_finish with rep.hpp's execute_rep:
\* whatever faults, hooks, host repairs and restarts break a string instruction off, and
\* however often, its registers, accumulator, ZF and memory are those of a whole number of
\* iterations from its start.
THEOREM RestartsExact == Spec => []RestartExact
<1>1. Inv /\ [Next]_vars => Inv'
  BY InvKept
<1> QED
  BY InvInit, <1>1, InvRestartExact, PTL DEF Spec

\* rep.hpp, execute_rep: the loop has no more iterations than its count and the elements it
\* compares ask for, and when it ends, it has had all of them.
THEOREM EndsDue == Spec => []EndsWhenDue
<1>1. Inv /\ [Next]_vars => Inv'
  BY InvKept
<1> QED
  BY InvInit, <1>1, InvEndsWhenDue, PTL DEF Spec

-----------------------------------------------------------------------------
(* Why it ends                                                             *)

\* How many steps of the engine are left at most: the iterations of the count in the
\* loop's local, which no callback reaches, and the accesses of the one at hand.
Rank(pc) == CASE pc = "iter" -> 3 [] pc = "read" -> 2 [] OTHER -> 1

StepsLeft == 4 * run.count + Rank(run.pc)

CountPositive == Iterating => run.count > 0

Nearer ==
  /\ EngineNext /\ Iterating /\ Iterating' => StepsLeft' < StepsLeft
  /\ Iterating /\ Iterating' => StepsLeft' <= StepsLeft

\* What the steps of an iteration do to the count and the place in it.
Moves ==
  \/ run'.pc = "stopped"
  \/ /\ run'.count = run.count
     /\ run'.pc \in {"read", "read2", "write"} /\ Rank(run'.pc) < Rank(run.pc)
  \/ /\ run'.count = run.count - 1 /\ run'.pc \in {"iter", "done"}
     /\ run.count - 1 = 0 => run'.pc = "done"

LEMMA StopMoves ==
  ASSUME TypeOK, NEW e, Stop(e)
  PROVE  Moves
<1>1. IsRun /\ run' = [run EXCEPT !.pc = "stopped", !.exc = e]
  BY DEF Stop, Break, TypeOK
<1>2. run'.pc = "stopped"
  BY ONLY <1>1 DEF IsRun
<1> QED
  BY <1>2 DEF Moves

LEMMA AdvanceMoves ==
  ASSUME TypeOK, prog' = prog, NEW moved, NEW rax, NEW zf, Advance(moved, rax, zf)
  PROVE  Moves
<1>1. /\ run'.pc = IF RepEnds(run.count - 1, zf) THEN "done" ELSE "iter"
      /\ run'.count = run.count - 1
  BY AdvanceType
<1>2. run.count - 1 = 0 => RepEnds(run.count - 1, zf)
  BY DEF RepEnds
<1> QED
  BY <1>1, <1>2 DEF Moves

LEMMA ReadMoves ==
  ASSUME TypeOK, NEW a, NEW p \in {"read", "read2"}, NEW i, NEW d, NEW v, NEW locals,
         LocalsAre(locals, i, d, v), Read(a, p, locals), Rank(p) < Rank(run.pc)
  PROVE  Moves
<1>1. CASE Refused(a, {"r", "rw"}) # {}
  <2>1. Stop(AccessFault(a, {"r", "rw"}))
    BY <1>1 DEF Read
  <2> QED
    BY <2>1, StopMoves
<1>2. CASE ~(Refused(a, {"r", "rw"}) # {})
  <2> DEFINE x == Elem(mem, a)
  <2>1. run' = [locals EXCEPT !.pc = p, !.val2 = locals.val, !.val = x]
    BY <1>2 DEF Read
  <2> HIDE DEF x
  <2>2. run'.pc = p /\ run'.count = run.count
    BY ONLY <2>1, LocalsAre(locals, i, d, v) DEF LocalsAre
  <2> QED
    BY <2>2 DEF Moves
<1> QED
  BY <1>1, <1>2

LEMMA WriteMoves ==
  ASSUME TypeOK, NEW a, NEW i, NEW d, NEW v, NEW locals,
         LocalsAre(locals, i, d, v), Write(a, locals), run.pc \in {"iter", "read"}
  PROVE  Moves
<1>1. CASE Refused(a, {"rw"}) # {}
  <2>1. Stop(AccessFault(a, {"rw"}))
    BY <1>1 DEF Write
  <2> QED
    BY <2>1, StopMoves
<1>2. CASE ~(Refused(a, {"rw"}) # {})
  <2>1. run' = [locals EXCEPT !.pc = "write"]
    BY <1>2 DEF Write
  <2>2. run'.pc = "write" /\ run'.count = run.count
    BY ONLY <2>1, LocalsAre(locals, i, d, v) DEF LocalsAre
  <2> QED
    BY <2>2 DEF Moves, Rank
<1> QED
  BY <1>1, <1>2

LEMMA StoreMoves ==
  ASSUME TypeOK, prog' = prog, NEW overlap, NEW moved,
         IF run.exc # "none" THEN Break(run.exc, TRUE, overlap)
         ELSE Advance(moved, cpu.rax, cpu.zf)
  PROVE  Moves
<1>1. CASE run.exc # "none"
  <2>1. IsRun /\ run' = [run EXCEPT !.pc = "stopped", !.exc = run.exc]
    BY <1>1 DEF Break, TypeOK
  <2>2. run'.pc = "stopped"
    BY ONLY <2>1 DEF IsRun
  <2> QED
    BY <2>2 DEF Moves
<1>2. CASE ~(run.exc # "none")
  <2> DEFINE rax == cpu.rax
             zf == cpu.zf
  <2>1. Advance(moved, rax, zf)
    BY <1>2
  <2> HIDE DEF rax, zf
  <2> QED
    BY <2>1, AdvanceMoves
<1> QED
  BY <1>1, <1>2

\* Every step of an iteration goes on in it, ends it, or ends the instruction.
LEMMA IterationMoves ==
  ASSUME Inv, execute_rep_iteration
  PROVE  Moves
<1>1. TypeOK /\ prog' = prog /\ Rank("read") < Rank("iter") /\ Rank("read2") < Rank("read")
  BY DEF Inv, execute_rep_iteration, Rank
<1>2. ASSUME NEW a, run.pc = "iter", Read(a, "read", Indices) PROVE Moves
  <2> DEFINE i == Low(cpu.rsi, inst.asize)
             d == Low(cpu.rdi, inst.asize)
             v == run.val
             p == "read"
             locals == Indices
  <2>1. LocalsAre(locals, i, d, v)
    BY <1>2, IndicesRight DEF LocalsAre
  <2>2. TypeOK /\ p \in {"read", "read2"} /\ Read(a, p, locals) /\ Rank(p) < Rank(run.pc)
    BY <1>1, <1>2
  <2> HIDE DEF i, d, v, p, locals
  <2> QED
    BY ONLY <2>1, <2>2, ReadMoves
<1>3. ASSUME NEW a, NEW v, run.pc = "iter", Write(a, [Indices EXCEPT !.val = v]) PROVE Moves
  <2> DEFINE i == Low(cpu.rsi, inst.asize)
             d == Low(cpu.rdi, inst.asize)
             locals == [Indices EXCEPT !.val = v]
  <2>1. LocalsAre(Indices, i, d, run.val)
    BY <1>3, IndicesRight DEF LocalsAre
  <2>2. TypeOK /\ Write(a, locals) /\ run.pc \in {"iter", "read"}
    BY <1>1, <1>3
  <2>3. LocalsAre(locals, i, d, v)
    <3> HIDE DEF i, d
    <3> QED
      BY ONLY <2>1 DEF LocalsAre
  <2> HIDE DEF i, d, locals
  <2> QED
    BY ONLY <2>2, <2>3, WriteMoves
<1>4. CASE execute_movs
  <2>1. ASSUME run.pc = "iter",
               Validated(SrcAddr(Indices.si), DstAddr(Indices.di),
                         Read(SrcAddr(Indices.si), "read", Indices))
        PROVE  Moves
    BY <1>1, <1>2, <2>1, StopMoves DEF Validated
  <2>2. ASSUME run.pc = "read", AfterHooks(Write(DstAddr(run.di), run)) PROVE Moves
    <3>1. CASE Stop(run.exc)
      BY <1>1, <3>1, StopMoves
    <3>2. CASE Write(DstAddr(run.di), run)
      <4> DEFINE a == DstAddr(run.di)
                 i == run.si
                 d == run.di
                 v == run.val
                 locals == run
      <4>1. /\ TypeOK /\ LocalsAre(locals, i, d, v) /\ Write(a, locals)
            /\ run.pc \in {"iter", "read"}
        BY <1>1, <2>2, <3>2, RunAre DEF InCallback
      <4> HIDE DEF a, i, d, v, locals
      <4> QED
        BY ONLY <4>1, WriteMoves
    <3> QED
      BY <2>2, <3>1, <3>2 DEF AfterHooks
  <2>3. ASSUME run.pc = "write",
               Store(DstAddr(run.di), run.val,
                     /\ ElemCells(SrcAddr(run.si)) # ElemCells(DstAddr(run.di))
                     /\ ElemCells(SrcAddr(run.si)) \cap ElemCells(DstAddr(run.di)) # {},
                     Advance({"rsi", "rdi"}, cpu.rax, cpu.zf))
        PROVE  Moves
    <3> DEFINE overlap == \/ /\ ElemCells(SrcAddr(run.si)) # ElemCells(DstAddr(run.di))
                             /\ ElemCells(SrcAddr(run.si)) \cap ElemCells(DstAddr(run.di)) # {}
                          \/ HookLeftRegister
               moved == {"rsi", "rdi"}
    <3>1. IF run.exc # "none" THEN Break(run.exc, TRUE, overlap)
          ELSE Advance(moved, cpu.rax, cpu.zf)
      BY <2>3 DEF Store
    <3> HIDE DEF overlap, moved
    <3> QED
      BY <1>1, <3>1, StoreMoves
  <2> QED
    BY <1>4, <2>1, <2>2, <2>3 DEF execute_movs
<1>5. CASE execute_stos
  <2>1. ASSUME run.pc = "iter",
               Write(DstAddr(Indices.di), [Indices EXCEPT !.val = Accumulator(cpu.rax)])
        PROVE  Moves
    BY <1>3, <2>1
  <2>2. ASSUME run.pc = "write",
               Store(DstAddr(run.di), run.val, FALSE, Advance({"rdi"}, cpu.rax, cpu.zf))
        PROVE  Moves
    <3> DEFINE overlap == FALSE \/ HookLeftRegister
               moved == {"rdi"}
    <3>1. IF run.exc # "none" THEN Break(run.exc, TRUE, overlap)
          ELSE Advance(moved, cpu.rax, cpu.zf)
      BY <2>2 DEF Store
    <3> HIDE DEF overlap, moved
    <3> QED
      BY <1>1, <3>1, StoreMoves
  <2> QED
    BY <1>5, <2>1, <2>2 DEF execute_stos
<1>6. ASSUME NEW moved, NEW rax, NEW zf, AfterHooks(Advance(moved, rax, zf)) PROVE Moves
  <2>1. CASE Stop(run.exc)
    BY <1>1, <2>1, StopMoves
  <2>2. CASE Advance(moved, rax, zf)
    BY <1>1, <2>2, AdvanceMoves
  <2> QED
    BY <1>6, <2>1, <2>2 DEF AfterHooks
<1>7. CASE execute_lods
  BY <1>1, <1>2, <1>6, <1>7, StopMoves DEF execute_lods, Validated, AfterHooks
<1>8. CASE execute_scas
  BY <1>1, <1>2, <1>6, <1>8, StopMoves DEF execute_scas, AfterHooks
<1>9. CASE execute_cmps
  <2>1. ASSUME run.pc = "read", AfterHooks(Read(DstAddr(run.di), "read2", run)) PROVE Moves
    <3>1. CASE Stop(run.exc)
      BY <1>1, <3>1, StopMoves
    <3>2. CASE Read(DstAddr(run.di), "read2", run)
      <4> DEFINE a == DstAddr(run.di)
                 i == run.si
                 d == run.di
                 v == run.val
                 p == "read2"
                 locals == run
      <4>1. /\ TypeOK /\ LocalsAre(locals, i, d, v) /\ Read(a, p, locals)
            /\ p \in {"read", "read2"} /\ Rank(p) < Rank(run.pc)
        BY <1>1, <2>1, <3>2, RunAre DEF InCallback
      <4> HIDE DEF a, i, d, v, p, locals
      <4> QED
        BY ONLY <4>1, ReadMoves
    <3> QED
      BY <2>1, <3>1, <3>2 DEF AfterHooks
  <2> QED
    BY <1>1, <1>2, <1>6, <1>9, <2>1, StopMoves DEF execute_cmps, Validated, AfterHooks
<1> QED
  BY <1>4, <1>5, <1>7, <1>8, <1>9 DEF execute_rep_iteration

\* The host has no step that stretches an iteration.
LEMMA HostMoves ==
  ASSUME TypeOK,
         \/ UNCHANGED vars \/ Finished \/ HostRaise
         \/ \E c \in Protects : HostProtect(c[1], c[2])
         \/ \E r \in {"rsi", "rdi", "rcx"}, v \in RegValues : HostWritesRegister(r, v)
  PROVE  run'.pc = run.pc /\ run'.count = run.count
<1>1. IsRun
  BY DEF TypeOK
<1>2. CASE UNCHANGED vars \/ Finished \/ \E c \in Protects : HostProtect(c[1], c[2])
  BY <1>2 DEF vars, Finished, HostProtect
<1>3. CASE HostRaise
  <2>1. run' = [run EXCEPT !.exc = "host"]
    BY <1>3 DEF HostRaise
  <2> QED
    BY ONLY <1>1, <2>1 DEF IsRun
<1>4. CASE \E r \in {"rsi", "rdi", "rcx"}, v \in RegValues : HostWritesRegister(r, v)
  <2> DEFINE y == TRUE
  <2>1. run' = [run EXCEPT !.wrote = y]
    BY <1>4 DEF HostWritesRegister
  <2> HIDE DEF y
  <2> QED
    BY ONLY <1>1, <2>1 DEF IsRun
<1> QED
  BY <1>2, <1>3, <1>4

LEMMA StepsNearer ==
  ASSUME Inv, CountPositive, [Next]_vars
  PROVE  Nearer /\ CountPositive'
<1>1. TypeOK /\ TypeOK' /\ run.count \in Int /\ run'.count \in Int
  BY InvKept DEF Inv, TypeOK, IsRun
<1>2. CASE execute_rep_iteration
  <2>1. Iterating
    BY <1>2 DEF execute_rep_iteration, execute_movs, execute_cmps, execute_stos, execute_lods,
      execute_scas, Iterating
  <2>2. Moves /\ run.count > 0
    BY <1>2, <2>1, IterationMoves DEF CountPositive
  <2>3. CASE run'.pc = "stopped"
    BY <2>3 DEF Nearer, CountPositive, Iterating
  <2>4. CASE /\ run'.count = run.count
             /\ run'.pc \in {"read", "read2", "write"} /\ Rank(run'.pc) < Rank(run.pc)
    <3>1. Rank(run'.pc) \in Int /\ Rank(run.pc) \in Int
      BY DEF Rank
    <3>2. StepsLeft' < StepsLeft
      BY <1>1, <2>4, <3>1 DEF StepsLeft
    <3>3. StepsLeft' \in Int /\ StepsLeft \in Int
      BY <1>1, <3>1 DEF StepsLeft
    <3> QED
      BY <2>2, <2>4, <3>2, <3>3 DEF Nearer, CountPositive
  <2>5. CASE /\ run'.count = run.count - 1 /\ run'.pc \in {"iter", "done"}
             /\ run.count - 1 = 0 => run'.pc = "done"
    <3>1. Rank(run'.pc) \in {1, 2, 3} /\ Rank(run.pc) \in {1, 2, 3}
      BY DEF Rank
    <3>2. StepsLeft' < StepsLeft /\ StepsLeft' \in Int /\ StepsLeft \in Int
      BY <1>1, <2>5, <3>1 DEF StepsLeft
    <3>3. Iterating' => run'.count > 0
      BY <1>1, <2>2, <2>5 DEF Iterating
    <3> QED
      BY <3>2, <3>3 DEF Nearer, CountPositive
  <2> QED
    BY <2>2, <2>3, <2>4, <2>5 DEF Moves
<1>3. CASE Begin
  <2>1. ~Iterating
    BY <1>3 DEF Begin, Iterating
  <2>2. CASE inst.ud
    <3>1. Stop("ud")
      BY <1>3, <2>2 DEF Begin
    <3>2. IsRun /\ run' = [run EXCEPT !.pc = "stopped", !.exc = "ud"]
      BY <1>1, <3>1 DEF Stop, Break, TypeOK
    <3>3. run'.pc = "stopped"
      BY ONLY <3>2 DEF IsRun
    <3> QED
      BY <2>1, <3>3 DEF Nearer, CountPositive, Iterating
  <2>3. CASE ~inst.ud
    <3> DEFINE count == IF Repeated THEN Low(cpu.rcx, inst.asize) ELSE 1
               p == IF count = 0 THEN "done" ELSE "iter"
               f == FALSE
    <3>1. run' = [run EXCEPT !.pc = p, !.count = count, !.saved = cpu, !.wrote = f]
      BY <1>3, <2>3 DEF Begin
    <3>2. count \in Int /\ count >= 0
      <4>1. PICK w \in Widths : w = inst.asize
        BY <1>1, Sizes DEF TypeOK
      <4>2. cpu.rcx \in Int
        BY <1>1 DEF TypeOK, IsCpu
      <4>3. Low(cpu.rcx, w) \in Int /\ Low(cpu.rcx, w) >= 0
        BY <4>2, LowType
      <4> QED
        BY <4>1, <4>3
    <3>3. p = "iter" => count > 0
      BY <3>2
    <3>4. p \in {"iter", "done"} /\ IsRun
      BY <1>1 DEF TypeOK
    <3> HIDE DEF count, p, f
    <3>5. run'.pc = p /\ run'.count = count
      BY ONLY <3>1, <3>4 DEF IsRun
    <3> QED
      BY <2>1, <3>3, <3>4, <3>5 DEF Nearer, CountPositive, Iterating
  <2> QED
    BY <2>2, <2>3
<1>4. CASE Resume
  <2>1. IsRun /\ run' = [run EXCEPT !.pc = "fetched", !.exc = "none"]
    BY <1>1, <1>4 DEF Resume, TypeOK
  <2>2. run'.pc = "fetched"
    BY ONLY <2>1 DEF IsRun
  <2> QED
    BY <2>2 DEF Nearer, CountPositive, Iterating
<1>5. CASE \/ UNCHANGED vars \/ Finished \/ HostRaise
           \/ \E c \in Protects : HostProtect(c[1], c[2])
           \/ \E r \in {"rsi", "rdi", "rcx"}, v \in RegValues : HostWritesRegister(r, v)
  <2>1. run'.pc = run.pc /\ run'.count = run.count
    BY <1>1, <1>5, HostMoves
  <2>2. Rank(run.pc) \in Int
    BY DEF Rank
  <2>3. StepsLeft' <= StepsLeft
    BY <1>1, <2>1, <2>2 DEF StepsLeft
  <2>4. CountPositive'
    BY <2>1 DEF CountPositive, Iterating
  <2>5. ~EngineNext \/ execute_rep_iteration \/ Begin
    BY DEF EngineNext
  <2>6. CASE ~EngineNext
    BY <2>3, <2>4, <2>6 DEF Nearer
  <2> QED
    BY <1>2, <1>3, <2>4, <2>5, <2>6
<1> QED
  BY <1>2, <1>3, <1>4, <1>5 DEF Next, EngineNext

\* rep.hpp, execute_rep, the loop over its local count: whatever hooks write to RCX, RSI and
\* RDI, every step of the engine in an iteration brings the end of the instruction nearer,
\* and no step of the host moves it away.  With weak fairness of those steps this is why
\* RunEnds holds.
THEOREM StepsRunOut == Spec => [](Iterating => run.count > 0) /\ [][Nearer]_vars
<1>1. Init => CountPositive
  BY DEF Init, CountPositive, Iterating
<1>2. Inv /\ CountPositive /\ [Next]_vars => Nearer /\ (Inv /\ CountPositive)'
  BY InvKept, StepsNearer
<1>3. Inv /\ CountPositive /\ [Next]_vars => [Nearer]_vars
  BY <1>2
<1>4. CountPositive <=> (Iterating => run.count > 0)
  BY DEF CountPositive
<1> QED
  BY InvInit, <1>1, <1>2, <1>3, <1>4, PTL DEF Spec

=============================================================================
