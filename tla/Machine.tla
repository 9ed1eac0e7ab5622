------------------------------ MODULE Machine -------------------------------
(***************************************************************************)
(* What every integer instruction is built from, on the words and flags of *)
(* Calc: registers, memory and effective addresses (cpu/helper.hpp,        *)
(* cpu/def.h, cpu/memory.hpp), and the shape all decode_* functions of     *)
(* instructions/ share.                                                    *)
(*                                                                         *)
(* A context c is a record: r (registers), f (flags), mem and perm (the    *)
(* guest's bytes and their rights), seg (segment registers), ex (the       *)
(* pending exception), rip, long (64-bit code) and cpl.  An operation is a *)
(* function from contexts to contexts.  An access of several bytes is one  *)
(* step; MemAccess shows that it happens as a whole or not at all.         *)
(***************************************************************************)
EXTENDS Calc, Sequences, Bitwise

CONSTANT Descriptors   \* the descriptor table, from index 1

RAX == 0
RCX == 1
RDX == 2
RBX == 3
RSP == 4
RBP == 5
RSI == 6
RDI == 7
Segments == {"es", "cs", "ss", "ds", "fs", "gs"}

-----------------------------------------------------------------------------
(* Exceptions and flags                                                    *)

\* cpu_raise_exception: the first exception stays.
Raise(c, ex) == IF c.ex # "none" THEN c ELSE [c EXCEPT !.ex = ex]
Ok(c)        == c.ex = "none"
First(exs)   == LET hits == {k \in DOMAIN exs : exs[k] # "none"}
                IN IF hits = {} THEN "none" ELSE exs[CHOOSE k \in hits : \A l \in hits : k <= l]
If(p, ex)    == IF p THEN ex ELSE "none"

\* set_flag for each flag of m; nothing under a pending exception.
SetFlags(c, m) ==
  IF Ok(c) THEN [c EXCEPT !.f = [n \in Flags |-> IF n \in DOMAIN m THEN m[n] ELSE c.f[n]]]
           ELSE c

Cf(c) == Num(c.f["CF"])

-----------------------------------------------------------------------------
(* Registers; without REX numbers 4 to 7 are AH, CH, DH and BH              *)

get_reg8(c, rex, k) == IF rex.p \/ k < 4 THEN c.r[k] % M(1) ELSE ByteOf(c.r[k-4], 1)

set_reg8(c, rex, k, v) ==
  IF rex.p \/ k < 4 THEN [c EXCEPT !.r[k] = @ - (@ % M(1)) + v]
  ELSE [c EXCEPT !.r[k-4] = (@ - ByteOf(@, 1) * M(1)) + v * M(1)]

get_reg(c, rex, k, n) == IF n = 1 THEN get_reg8(c, rex, k) ELSE c.r[k] % M(n)

\* 16 bits keep what is above, 32 bits clear it.
set_reg(c, rex, k, n, v) ==
  CASE n = 1 -> set_reg8(c, rex, k, v)
    [] n = 2 -> [c EXCEPT !.r[k] = @ - (@ % M(2)) + v]
    [] OTHER -> [c EXCEPT !.r[k] = v]

-----------------------------------------------------------------------------
(* Memory                                                                  *)

cpu_is_canonical_address(a) == a < Sign(6) \/ a >= M(8) - Sign(6)

cpu_raise_noncanonical_address(seg) == IF seg = "ss" THEN "SS" ELSE "GP"

cpu_validate_linear_address(c, a, seg) ==
  If(c.long /\ ~cpu_is_canonical_address(a), cpu_raise_noncanonical_address(seg))

Bytes(a, n) == {(a + k) % M(8) : k \in 0..n-1}
Perm(c, a)  == IF a \in DOMAIN c.perm THEN c.perm[a] ELSE "none"

\* What cpu_resolve_memory_access raises for the first byte that is not accessible.
Fault(c, a, n, rights) ==
  First([k \in 1..n |-> LET x == (a + k - 1) % M(8)
                        IN First(<<cpu_validate_linear_address(c, x, "ds"),
                                   If(Perm(c, x) \notin rights, "PF")>>)])

\* read_memory_*: 0 under a pending exception or when it faults.
ReadEx(c, a, n) == IF Ok(c) THEN Raise(c, Fault(c, a, n, {"r", "rw"})) ELSE c
RECURSIVE Load(_, _, _)
Load(c, a, n) == IF n = 0 THEN 0 ELSE c.mem[a] + M(1) * Load(c, (a + 1) % M(8), n - 1)
Read(c, a, n) == IF Ok(ReadEx(c, a, n)) THEN Load(c, a, n) ELSE 0

\* write_memory_*: nothing under a pending exception.
Store(c, a, n, v) ==
  IF ~Ok(c) THEN c
  ELSE [c EXCEPT !.mem = [x \in DOMAIN c.mem |->
          IF x \in Bytes(a, n) THEN ByteOf(v, (x - a) % M(8)) ELSE c.mem[x]]]
Write(c, a, n, v) == Store(Raise(c, Fault(c, a, n, {"rw"})), a, n, v)

-----------------------------------------------------------------------------
(* Effective addresses                                                     *)

cpu_segment_base_for_addressing(c, s) ==
  IF c.long /\ s \notin {"fs", "gs"} THEN 0 ELSE c.seg[s].d.base

cpu_memory_base_register_uses_ss(k) == k \in {RSP, RBP, 13}

address_size(c, e) ==
  IF c.long THEN IF "67" \in e.pfx THEN 4 ELSE 8 ELSE IF "67" \in e.pfx THEN 2 ELSE 4

HasSib(e, as)   == e.rm = 4 /\ as # 2
RegNo(e)        == e.reg + 8 * e.rex.r
RmNo(e)         == e.rm + 8 * e.rex.b
BaseNo(e)       == e.base + 8 * e.rex.b
RipRelative(e, as) == e.mod = 0 /\ e.rm = 5 /\ as = 8

cpu_default_segment_for_memory_operand(e, as) ==
  IF as = 2 THEN IF e.rm \in {2, 3} \/ (e.rm = 6 /\ e.mod # 0) THEN "ss" ELSE "ds"
  ELSE IF HasSib(e, as)
       THEN IF ~(BaseNo(e) = 5 /\ e.mod = 0) /\ cpu_memory_base_register_uses_ss(BaseNo(e))
            THEN "ss" ELSE "ds"
       ELSE IF ~(e.mod = 0 /\ e.rm = 5) /\ cpu_memory_base_register_uses_ss(RmNo(e))
            THEN "ss" ELSE "ds"

Pair16 == <<{RBX, RSI}, {RBX, RDI}, {RBP, RSI}, {RBP, RDI}, {RSI}, {RDI}, {RBP}, {RBX}>>

\* disp is signed; without a base (or with neither base nor rip) it is zero-extended.
get_effective_offset(c, e, as, size) ==
  LET disp  == IF e.mod \in {1, 2} THEN e.disp ELSE 0
      index == IF e.index = 4 /\ e.rex.x = 0 THEN 0
               ELSE c.r[e.index + 8 * e.rex.x] * 2^e.scale
      base  == CASE HasSib(e, as) -> (IF e.mod = 0 /\ e.base = 5 THEN e.disp % M(4)
                                      ELSE c.r[BaseNo(e)]) + index
                 [] RipRelative(e, as) -> c.rip + size + e.disp
                 [] e.mod = 0 /\ e.rm = 5 -> e.disp % M(4)
                 [] OTHER -> c.r[RmNo(e)]
      pair  == IF e.mod = 0 /\ e.rm = 6 THEN e.disp
               ELSE LET ks == Pair16[e.rm + 1]
                        Sum[s \in SUBSET ks] == IF s = {} THEN 0
                               ELSE LET k == CHOOSE k \in s : TRUE IN c.r[k] + Sum[s \ {k}]
                    IN Sum[ks]
  IN IF as = 2 THEN (pair + disp) % M(2) ELSE (base + disp) % M(as)

\* The address and what its validation raises.
Validated(c, a, s) == [addr |-> a, ex |-> cpu_validate_linear_address(c, a, s)]
Linear(c, s, offset) ==
  Validated(c, (offset + cpu_segment_base_for_addressing(c, s)) % M(8), s)
get_effective_address(c, e, as, size) ==
  Linear(c, IF e.seg # "none" THEN e.seg ELSE cpu_default_segment_for_memory_operand(e, as),
         get_effective_offset(c, e, as, size))

-----------------------------------------------------------------------------
(* Decoding.  An encoding e has: pfx (66, 67, F0, F2, F3), rex, seg, two (a *)
(* 0F opcode), op, the fields of ModRM and SIB, disp, imm (unsigned), len,  *)
(* and cut: the window ends after the opcode.                               *)

Lock(e) == "F0" \in e.pfx

operand_size(e) == IF e.rex.w = 1 THEN 8 ELSE IF "66" \in e.pfx THEN 2 ELSE 4
ImmSize(n)      == IF n = 8 THEN 4 ELSE n

NoModrm == [addr |-> 0, ex |-> "none", has |-> FALSE]

\* decode_modrm_*: the address, computed before the length is known, then the rule for LOCK.
Operand(a, ud) == [addr |-> a.addr, ex |-> First(<<a.ex, If(ud, "UD")>>), has |-> TRUE]
Modrm(c, e, ud) ==
  Operand(IF e.mod = 3 THEN NoModrm ELSE get_effective_address(c, e, address_size(c, e), 0), ud)

\* An RIP-relative address is computed again with the length.
finalize_rip_relative_address(c, e, m) ==
  IF m.has /\ e.mod # 3 /\ RipRelative(e, address_size(c, e))
  THEN get_effective_address(c, e, 8, e.len)
  ELSE [addr |-> m.addr, ex |-> "none"]

\* The decoded instruction: early and late are the #UD rules checked before and after ModRM.
Decoded(e, size, as, early, m, late, a) ==
  [e |-> e, size |-> size, as |-> as, addr |-> a.addr, modrm |-> m.has,
   ex |-> First(<<If(early, "UD"), If(e.cut, "GP"), m.ex, If(late, "UD"), a.ex>>)]
Inst(c, e, size, early, m, late) ==
  Decoded(e, size, address_size(c, e), early, m, late, finalize_rip_relative_address(c, e, m))

\* The r/m operand.
ReadRmEx(c, i)   == IF i.e.mod = 3 THEN c ELSE ReadEx(c, i.addr, i.size)
ReadRmN(c, i, n) == IF i.e.mod = 3 THEN get_reg(c, i.e.rex, RmNo(i.e), n)
                    ELSE Read(c, i.addr, n)
ReadRm(c, i)     == ReadRmN(c, i, i.size)
WriteRm(c, i, v) == IF i.e.mod = 3 THEN set_reg(c, i.e.rex, RmNo(i.e), i.size, v)
                    ELSE Write(c, i.addr, i.size, v)
ReadReg(c, i)    == get_reg(c, i.e.rex, RegNo(i.e), i.size)
WriteReg(c, i, v) == set_reg(c, i.e.rex, RegNo(i.e), i.size, v)

=============================================================================
