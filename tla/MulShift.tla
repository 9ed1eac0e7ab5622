------------------------------ MODULE MulShift ------------------------------
(***************************************************************************)
(* MUL, IMUL, DIV, IDIV, CBW and CWD with their wider forms, the shifts,   *)
(* the rotates through and past CF, SHLD and SHRD (instructions/<name>.hpp)*)
(*                                                                         *)
(* A shift count is scaled apart from the words: it has CountBits bits, so *)
(* that it exceeds the widest operand as a count of 8 bits does.           *)
(***************************************************************************)
EXTENDS Alu

CONSTANT CountBits

ASSUME MulShiftAssumption == CountBits \in Nat /\ 2^CountBits > 8 * B

-----------------------------------------------------------------------------
(* Products                                                                *)

OneOperandInst(c, e, ext, m) ==
  Inst(c, e, IF e.op = \hF6 THEN 1 ELSE operand_size(e), FALSE, m, e.reg # ext)

\* AX for bytes, else rDX:rAX.
SetPair(c, i, lo, hi) ==
  IF i.size = 1 THEN set_reg(c, i.e.rex, RAX, 2, lo + M(1) * hi)
  ELSE set_reg(set_reg(c, i.e.rex, RAX, i.size, lo), i.e.rex, RDX, i.size, hi)

GetPair(c, n) ==
  IF n = 1 THEN c.r[RAX] % M(2) ELSE (c.r[RAX] % M(n)) + M(n) * (c.r[RDX] % M(n))

update_flags_mul(overflow) == [n \in {"CF", "OF"} |-> overflow]

mul_rm(c, i) ==
  LET c1 == ReadRmEx(c, i)
      p  == (c.r[RAX] % M(i.size)) * ReadRm(c, i)
      hi == p \div M(i.size)
  IN IF ~Ok(c1) THEN c1
     ELSE SetFlags(SetPair(c1, i, p % M(i.size), hi), update_flags_mul(hi # 0))

decode_modrm_mul(c, e) == Modrm(c, e, Lock(e))
decode_mul_instruction(c, e) == OneOperandInst(c, e, 4, decode_modrm_mul(c, e))
execute_mul(c, i) == mul_rm(c, i)

\* The product, and whether its low half does not hold it.
Product(x, y, n) == LET p == Signed(x, n) * Signed(y, n)
                    IN [p |-> p, o |-> p # Signed(p % M(n), n)]

imul_rm(c, i) ==
  LET c1 == ReadRmEx(c, i)
      x  == Product(c.r[RAX] % M(i.size), ReadRm(c, i), i.size)
  IN IF ~Ok(c1) THEN c1
     ELSE SetFlags(SetPair(c1, i, x.p % M(i.size), (x.p \div M(i.size)) % M(i.size)),
                   update_flags_mul(x.o))

ImulTo(c, i, y) ==
  LET c1 == ReadRmEx(c, i)
      x  == Product(ReadRm(c, i), y, i.size)
  IN IF ~Ok(c1) THEN c1
     ELSE SetFlags(WriteReg(c1, i, x.p % M(i.size)), update_flags_mul(x.o))

imul_r_rm(c, i)      == ImulTo(c, i, ReadReg(c, i))
imul_r_rm_imm8(c, i) == ImulTo(c, i, Sext(i.e.imm, 1, i.size))
imul_r_rm_imm(c, i)  == ImulTo(c, i, Sext(i.e.imm, ImmSize(i.size), i.size))

decode_modrm_imul(c, e) == Modrm(c, e, Lock(e))
decode_imul_instruction(c, e) ==
  Inst(c, e, IF e.op = \hF6 THEN 1 ELSE operand_size(e), FALSE, decode_modrm_imul(c, e),
       e.op \in {\hF6, \hF7} /\ e.reg # 5)
execute_imul(c, i) ==
  CASE i.e.op \in {\hF6, \hF7} -> imul_rm(c, i)
    [] i.e.op = \hAF           -> imul_r_rm(c, i)
    [] i.e.op = \h6B           -> imul_r_rm_imm8(c, i)
    [] OTHER                   -> imul_r_rm_imm(c, i)

-----------------------------------------------------------------------------
(* Quotients                                                               *)

div_quotient_overflows(q, n) == q >= M(n)

div_rm(c, i) ==
  LET c1 == ReadRmEx(c, i)
      d  == ReadRm(c, i)
      x  == GetPair(c, i.size)
  IN IF ~Ok(c1) THEN c1
     ELSE IF d = 0 \/ div_quotient_overflows(x \div d, i.size) THEN Raise(c1, "DE")
     ELSE SetPair(c1, i, x \div d, x % d)

decode_modrm_div(c, e) == Modrm(c, e, Lock(e))
decode_div_instruction(c, e) == OneOperandInst(c, e, 6, decode_modrm_div(c, e))
execute_div(c, i) == div_rm(c, i)

idiv_quotient_overflows_Symmetric(q, negative, n) ==  \* mutant: the least negative is refused
  q >= Sign(n)

idiv_quotient_overflows(q, negative, n) == IF negative THEN q > Sign(n) ELSE q > Sign(n) - 1

pack_signed_value(v, negative, n) == (IF negative THEN -v ELSE v) % M(n)

\* The high half of the absolute dividend is compared first at 64 bits, where a quotient
\* of 128 bits has no place.
idiv_rm(c, i) ==
  LET n  == i.size
      c1 == ReadRmEx(c, i)
      db == ReadRm(c, i)
      xb == GetPair(c, n)
      xn == xb >= M(n) * Sign(n)
      dn == Neg(db, n)
      x  == IF xn THEN M(n) * M(n) - xb ELSE xb
      d  == IF dn THEN M(n) - db ELSE db
      qn == xn # dn
  IN IF ~Ok(c1) THEN c1
     ELSE IF \/ db = 0
             \/ n = 8 /\ x \div M(n) >= d
             \/ idiv_quotient_overflows(x \div d, qn, n) THEN Raise(c1, "DE")
     ELSE SetPair(c1, i, pack_signed_value(x \div d, qn, n), pack_signed_value(x % d, xn, n))

decode_modrm_idiv(c, e) == Modrm(c, e, Lock(e))
decode_idiv_instruction(c, e) == OneOperandInst(c, e, 7, decode_modrm_idiv(c, e))
execute_idiv(c, i) == idiv_rm(c, i)

\* CBW, CWDE, CDQE extend within rAX; CWD, CDQ, CQO into rDX.
decode_cbw_instruction(c, e) == Inst(c, e, operand_size(e), Lock(e), NoModrm, FALSE)
execute_cbw(c, i) ==
  set_reg(c, i.e.rex, RAX, i.size,
          Sext(c.r[RAX] % M(i.size \div 2), i.size \div 2, i.size))

decode_cdq_instruction(c, e) == Inst(c, e, operand_size(e), Lock(e), NoModrm, FALSE)
execute_cdq(c, i) ==
  set_reg(c, i.e.rex, RDX, i.size, IF Neg(c.r[RAX] % M(i.size), i.size) THEN M(i.size) - 1 ELSE 0)

-----------------------------------------------------------------------------
(* Shifts and rotates, one bit at a time as the loops do                   *)

ShiftInst(c, e, ext, m) ==
  Inst(c, e, IF e.op \in {\hC0, \hD0, \hD2} THEN 1 ELSE operand_size(e), FALSE, m, e.reg # ext)

\* By 1, by CL, by an immediate.
ShiftCount(c, i) ==
  CASE i.e.op \in {\hD0, \hD1} -> 1
    [] i.e.op \in {\hD2, \hD3} -> c.r[RCX] % 2^CountBits
    [] OTHER                   -> i.e.imm

CountMask(k, n) == k % (IF n = 8 THEN 8 * B ELSE 4 * B)

\* The value and CF after k steps.
Shifted(c, i, k, step(_, _)) ==
  LET F[j \in 0..k] == IF j = 0 THEN [v |-> ReadRm(c, i), cf |-> c.f["CF"]]
                       ELSE step(F[j - 1], i.size)
  IN F[k]

\* OF is set by counts of 1 only.
RotateFlags(x, k, of) ==
  [m \in IF k = 1 THEN {"CF", "OF"} ELSE {"CF"} |-> IF m = "OF" THEN of ELSE x.cf]
ShiftFlags(x, n, k, of) ==
  LET z == Szp(x.v, n)  r == RotateFlags(x, k, of)
  IN [m \in DOMAIN z \cup DOMAIN r |-> IF m \in DOMAIN z THEN z[m] ELSE r[m]]

\* Nothing on a fault or a count of 0; else the result, then the flags.
ShiftRm(c, i, k, v, flags) ==
  LET c1 == ReadRmEx(c, i)
  IN IF ~Ok(c1) \/ k = 0 THEN c1 ELSE SetFlags(WriteRm(c1, i, v), flags)

Left(x, n, in)  == [v |-> (2 * x.v + in) % M(n), cf |-> Neg(x.v, n)]
Right(x, n, in) == [v |-> x.v \div 2 + (IF in THEN Sign(n) ELSE 0), cf |-> x.v % 2 = 1]
TopTwoDiffer(v, n) == Neg(v, n) # Bit(v, B * n - 2)

shl_step(x, n) == Left(x, n, 0)
update_flags_shl(x, n, k) == ShiftFlags(x, n, k, Neg(x.v, n) # x.cf)
decode_shl_count(c, i) == CountMask(ShiftCount(c, i), i.size)
shl_rm(c, i) ==
  LET k == decode_shl_count(c, i)  x == Shifted(c, i, k, shl_step)
  IN ShiftRm(c, i, k, x.v, update_flags_shl(x, i.size, k))
decode_modrm_shl(c, e) == Modrm(c, e, LockNeedsMemory(e))
decode_shl_instruction(c, e) == ShiftInst(c, e, 4, decode_modrm_shl(c, e))
execute_shl(c, i) == shl_rm(c, i)

shr_step(x, n) == Right(x, n, FALSE)
update_flags_shr(src, x, n, k) == ShiftFlags(x, n, k, Neg(src, n))
decode_shr_count(c, i) == CountMask(ShiftCount(c, i), i.size)
shr_rm(c, i) ==
  LET k == decode_shr_count(c, i)  x == Shifted(c, i, k, shr_step)
  IN ShiftRm(c, i, k, x.v, update_flags_shr(ReadRm(c, i), x, i.size, k))
decode_modrm_shr(c, e) == Modrm(c, e, LockNeedsMemory(e))
decode_shr_instruction(c, e) == ShiftInst(c, e, 5, decode_modrm_shr(c, e))
execute_shr(c, i) == shr_rm(c, i)

sar_step(x, n) == Right(x, n, Neg(x.v, n))
update_flags_sar(x, n, k) == ShiftFlags(x, n, k, FALSE)
decode_sar_count(c, i) == CountMask(ShiftCount(c, i), i.size)
sar_rm(c, i) ==
  LET k == decode_sar_count(c, i)  x == Shifted(c, i, k, sar_step)
  IN ShiftRm(c, i, k, x.v, update_flags_sar(x, i.size, k))
decode_modrm_sar(c, e) == Modrm(c, e, LockNeedsMemory(e))
decode_sar_instruction(c, e) == ShiftInst(c, e, 7, decode_modrm_sar(c, e))
execute_sar(c, i) == sar_rm(c, i)

\* The masked count modulo the width: a multiple of it leaves CF alone too.
rol_step(x, n) == Left(x, n, IF Neg(x.v, n) THEN 1 ELSE 0)
update_flags_rol(x, n, k) == RotateFlags(x, k, Neg(x.v, n) # x.cf)
decode_rol_count(c, i) == CountMask(ShiftCount(c, i), i.size) % (B * i.size)
rol_rm(c, i) ==
  LET k == decode_rol_count(c, i)  x == Shifted(c, i, k, rol_step)
  IN ShiftRm(c, i, k, x.v, update_flags_rol(x, i.size, k))
decode_modrm_rol(c, e) == Modrm(c, e, LockNeedsMemory(e))
decode_rol_instruction(c, e) == ShiftInst(c, e, 0, decode_modrm_rol(c, e))
execute_rol(c, i) == rol_rm(c, i)

ror_step(x, n) == Right(x, n, x.v % 2 = 1)
update_flags_ror(x, n, k) == RotateFlags(x, k, TopTwoDiffer(x.v, n))
decode_ror_count(c, i) == CountMask(ShiftCount(c, i), i.size) % (B * i.size)
ror_rm(c, i) ==
  LET k == decode_ror_count(c, i)  x == Shifted(c, i, k, ror_step)
  IN ShiftRm(c, i, k, x.v, update_flags_ror(x, i.size, k))
decode_modrm_ror(c, e) == Modrm(c, e, LockNeedsMemory(e))
decode_ror_instruction(c, e) == ShiftInst(c, e, 1, decode_modrm_ror(c, e))
execute_ror(c, i) == ror_rm(c, i)

get_rcl_count_Masked(c, i) ==  \* mutant: modulo the width, as for ROL
  LET k == CountMask(ShiftCount(c, i), i.size) IN IF i.size < 4 THEN k % (B * i.size) ELSE k

\* RCL and RCR rotate width + 1 bits; only 8- and 16-bit counts can exceed that.
get_rcl_count(c, i) ==
  LET k == CountMask(ShiftCount(c, i), i.size)
  IN IF i.size < 4 THEN k % (B * i.size + 1) ELSE k

\* The loop sets CF itself, before the result is written.
CarryRotateRm(c, i, x, k, flags) ==
  LET c1 == ReadRmEx(c, i)
  IN IF ~Ok(c1) \/ k = 0 THEN c1
     ELSE SetFlags(WriteRm(SetFlags(c1, [m \in {"CF"} |-> x.cf]), i, x.v), flags)

rcl_step(x, n) == Left(x, n, IF x.cf THEN 1 ELSE 0)
update_flags_rcl(x, n, k) == RotateFlags(x, k, Neg(x.v, n) # x.cf)
rcl_rm(c, i) ==
  LET k == get_rcl_count(c, i)  x == Shifted(c, i, k, rcl_step)
  IN CarryRotateRm(c, i, x, k, update_flags_rcl(x, i.size, k))
decode_rcl_instruction(c, e) == ShiftInst(c, e, 2, decode_modrm_rol(c, e))
execute_rcl(c, i) == rcl_rm(c, i)

rcr_step(x, n) == Right(x, n, x.cf)
update_flags_rcr(x, n, k) == RotateFlags(x, k, TopTwoDiffer(x.v, n))
rcr_rm(c, i) ==
  LET k == get_rcl_count(c, i)  x == Shifted(c, i, k, rcr_step)
  IN CarryRotateRm(c, i, x, k, update_flags_rcr(x, i.size, k))
decode_rcr_instruction(c, e) == ShiftInst(c, e, 3, decode_modrm_rol(c, e))
execute_rcr(c, i) == rcr_rm(c, i)

-----------------------------------------------------------------------------
(* SHLD and SHRD: 16-bit counts above the width are taken modulo the width *)

decode_shld_count(c, i) == IF i.e.op \in {\hA4, \hAC} THEN i.e.imm ELSE c.r[RCX] % 2^CountBits

update_flags_shld_shrd(old, r, n, k, right) ==
  LET cf == IF right THEN Bit(old, k - 1) ELSE Bit(old, B * n - k)
  IN ShiftFlags([v |-> r, cf |-> cf], n, k, Neg(old, n) # Neg(r, n))

shld_shrd_rm(c, i, right) ==
  LET n   == i.size
      w   == B * n
      k0  == CountMask(decode_shld_count(c, i), n)
      k   == IF k0 <= w THEN k0 ELSE IF k0 % w = 0 THEN w ELSE k0 % w
      old == ReadRm(c, i)
      src == ReadReg(c, i)
      r   == IF k = w THEN src
             ELSE IF right THEN old \div 2^k + (src % 2^k) * 2^(w - k)
             ELSE (old % 2^(w - k)) * 2^k + src \div 2^(w - k)
      c1  == ReadRmEx(c, i)
  IN IF ~Ok(c1) \/ k0 = 0 THEN c1
     ELSE SetFlags(WriteRm(c1, i, r), update_flags_shld_shrd(old, r, n, k, right))

decode_shld_shrd_instruction(c, e) ==
  Inst(c, e, operand_size(e), FALSE, decode_modrm_shl(c, e), Lock(e))
execute_shld(c, i) == shld_shrd_rm(c, i, FALSE)
execute_shrd(c, i) == shld_shrd_rm(c, i, TRUE)

=============================================================================
