------------------------------ MODULE MovesBits -----------------------------
(***************************************************************************)
(* Moves, conditions and bit instructions: MOV, MOVZX, MOVSX, MOVSXD, LEA, *)
(* XCHG, XADD, XLAT, BSWAP, MOVBE, CMOVcc, SETcc, the flag instructions,   *)
(* BT with BTS, BTR and BTC, BSF, BSR, TZCNT, LZCNT, POPCNT and the        *)
(* VEX-encoded BMI instructions (instructions/<name>.hpp).                 *)
(***************************************************************************)
EXTENDS MulShift

-----------------------------------------------------------------------------
(* Segment registers.  A selector is a number of 2 bytes: the privilege     *)
(* level asked for in its two low bits, then the index of the descriptor.   *)
(* A descriptor has base, type ("data", "rodata", "code", "conf", "xcode":  *)
(* code that cannot be read), dpl, present, long and db.                    *)

SegName == <<"es", "cs", "ss", "ds", "fs", "gs">>
SReg(k) == IF k \in 0..5 THEN SegName[k + 1] ELSE "none"

Rpl(sel)              == sel % 4
is_null_selector(sel) == sel \div 4 = 0
NullDescriptor ==
  [base |-> 0, type |-> "rodata", dpl |-> 0, present |-> FALSE, long |-> FALSE, db |-> FALSE]

load_descriptor_from_table(sel) ==
  IF sel \div 4 \in DOMAIN Descriptors THEN Descriptors[sel \div 4] ELSE NullDescriptor
DescriptorEx(sel) == If(sel \div 4 \notin DOMAIN Descriptors, "GP")

is_data_segment(t)            == t \in {"data", "rodata"}
is_writable_data_segment(t)   == t = "data"
is_code_segment(t)            == t \in {"code", "conf", "xcode"}
is_readable_code_segment(t)   == t \in {"code", "conf"}
is_conforming_code_segment(t) == t = "conf"

SetSeg(c, s, sel, d) == [c EXCEPT !.seg[s] = [sel |-> sel, d |-> d]]

load_segment_register(c, s, sel) ==
  LET d   == load_descriptor_from_table(sel)
      bad == IF s = "ss"
             THEN First(<<If(is_null_selector(sel), "GP"), DescriptorEx(sel),
                          If(Rpl(sel) # c.cpl \/ ~is_writable_data_segment(d.type)
                             \/ d.dpl # c.cpl, "GP"),
                          If(~d.present, "SS")>>)
             ELSE First(<<DescriptorEx(sel),
                          If(~is_data_segment(d.type) /\ ~is_readable_code_segment(d.type), "GP"),
                          If(~is_conforming_code_segment(d.type)
                             /\ (Rpl(sel) > d.dpl \/ c.cpl > d.dpl), "GP"),
                          If(~d.present, "NP")>>)
  IN CASE s = "none" -> Raise(c, "GP")
       [] s = "cs"   -> Raise(c, "UD")
       [] s \notin {"none", "cs", "ss"} /\ is_null_selector(sel) ->
            SetSeg(c, s, sel, NullDescriptor)
       [] OTHER -> IF Ok(Raise(c, bad)) THEN SetSeg(c, s, sel, d) ELSE Raise(c, bad)

-----------------------------------------------------------------------------
(* MOV                                                                     *)

mov_rm_r(c, i) == WriteRm(c, i, ReadReg(c, i))
\* The register is written even if the read faulted.
mov_r_rm(c, i) == WriteReg(ReadRmEx(c, i), i, ReadRm(c, i))
mov_rm_sreg(c, i) ==
  LET s  == SReg(i.e.reg)
      c1 == IF s = "none" THEN Raise(c, "GP") ELSE c
      v  == IF s = "none" THEN 0 ELSE c.seg[s].sel
  IN IF i.e.mod = 3 THEN set_reg(c1, i.e.rex, RmNo(i.e), i.size, v) ELSE Write(c1, i.addr, 2, v)
mov_sreg_rm(c, i) ==
  LET c1 == IF i.e.reg = 1 THEN Raise(c, "UD") ELSE c
      c2 == IF i.e.mod = 3 THEN c1 ELSE ReadEx(c1, i.addr, 2)
  IN load_segment_register(c2, SReg(i.e.reg), ReadRmN(c1, i, 2))
mov_acc_moffs(c, i) == set_reg(ReadEx(c, i.addr, i.size), i.e.rex, RAX, i.size,
                               Read(c, i.addr, i.size))
mov_moffs_acc(c, i) == Write(c, i.addr, i.size, c.r[RAX] % M(i.size))
mov_r_imm(c, i)  == set_reg(c, i.e.rex, (i.e.op % 8) + 8 * i.e.rex.b, i.size, i.e.imm)
mov_rm_imm(c, i) == WriteRm(c, i, Sext(i.e.imm, ImmSize(i.size), i.size))

MoffsForm(op) == op \in \hA0..\hA3

\* A0 to A3 hold an absolute offset; the segment base is added here, once.
decode_modrm_mov(c, e) == Modrm(c, e, FALSE)
decode_mov_instruction(c, e) ==
  LET size == IF e.op \in {\h88, \h8A, \hA0, \hA2, \hC6} \cup \hB0..\hB7 THEN 1
              ELSE operand_size(e)
      seg  == IF e.seg = "none" THEN "ds" ELSE e.seg
      addr == (e.imm + cpu_segment_base_for_addressing(c, seg)) % M(8)
      x    == Inst(c, e, size, Lock(e), NoModrm, FALSE)
  IN CASE MoffsForm(e.op) -> [x EXCEPT !.addr = addr,
                            !.ex = First(<<@, cpu_validate_linear_address(c, addr, seg)>>)]
       [] e.op \in \hB0..\hBF -> x
       [] OTHER -> Inst(c, e, size, Lock(e), decode_modrm_mov(c, e),
                        e.op \in {\hC6, \hC7} /\ e.reg # 0)

execute_mov(c, i) ==
  CASE i.e.op \in {\h88, \h89} -> mov_rm_r(c, i)
    [] i.e.op \in {\h8A, \h8B} -> mov_r_rm(c, i)
    [] i.e.op = \h8C           -> mov_rm_sreg(c, i)
    [] i.e.op = \h8E           -> mov_sreg_rm(c, i)
    [] i.e.op \in {\hA0, \hA1} -> mov_acc_moffs(c, i)
    [] i.e.op \in {\hA2, \hA3} -> mov_moffs_acc(c, i)
    [] i.e.op \in \hB0..\hBF   -> mov_r_imm(c, i)
    [] OTHER                   -> mov_rm_imm(c, i)

-----------------------------------------------------------------------------
(* MOVZX, MOVSX, MOVSXD: the width read, then the width written.  The       *)
(* register is written even if the read faulted.                            *)

Extend(c, i, n, v) == WriteReg(IF i.e.mod = 3 THEN c ELSE ReadEx(c, i.addr, n), i, v)
Extended(e) == IF e.op \in {\hB6, \hBE} THEN 1 ELSE 2

movzx_r_rm(c, i) == LET n == Extended(i.e) IN Extend(c, i, n, ReadRmN(c, i, n))
decode_modrm_movzx(c, e) == Modrm(c, e, Lock(e))
decode_movzx_instruction(c, e) ==
  Inst(c, e, operand_size(e), e.op = \hB7 /\ operand_size(e) = 2, decode_modrm_movzx(c, e), FALSE)
execute_movzx(c, i) == movzx_r_rm(c, i)

movsx_r_rm(c, i) ==
  LET n == Extended(i.e) IN Extend(c, i, n, Sext(ReadRmN(c, i, n), n, i.size))
decode_modrm_movsx(c, e) == Modrm(c, e, Lock(e))
decode_movsx_instruction(c, e) ==
  Inst(c, e, operand_size(e), e.op = \hBF /\ operand_size(e) = 2, decode_modrm_movsx(c, e), FALSE)
execute_movsx(c, i) == movsx_r_rm(c, i)

movsxd_r64_rm32(c, i) == Extend(c, i, 4, Sext(ReadRmN(c, i, 4), 4, 8))
decode_modrm_movsxd(c, e) == Modrm(c, e, Lock(e))
decode_movsxd_instruction(c, e) ==
  Inst(c, e, 8, ~c.long \/ e.rex.w = 0 \/ "66" \in e.pfx, decode_modrm_movsxd(c, e), FALSE)
execute_movsxd(c, i) == movsxd_r64_rm32(c, i)

-----------------------------------------------------------------------------
(* LEA has its own address computation: no segment base, and the            *)
(* displacement of a SIB without base is sign-extended.                     *)

calculate_lea_address(c, e, as) ==
  IF as # 2 /\ HasSib(e, as) /\ e.mod = 0 /\ e.base = 5 /\ as = 8
  THEN (get_effective_offset(c, [e EXCEPT !.disp = 0], as, e.len) + e.disp) % M(8)
  ELSE get_effective_offset(c, e, as, e.len)

write_lea_reg_operand(c, i) == WriteReg(c, i, i.addr % M(i.size))

decode_modrm_lea(c, e) ==
  [addr |-> calculate_lea_address(c, e, address_size(c, e)),
   ex |-> If(e.mod = 3 \/ Lock(e), "UD"), has |-> TRUE]
decode_lea_instruction(c, e) ==
  Inst(c, e, operand_size(e), FALSE, decode_modrm_lea(c, e), FALSE)
execute_lea(c, i) == write_lea_reg_operand(c, i)

-----------------------------------------------------------------------------
(* XCHG and XADD; XCHG with memory is always the atomic exchange           *)

xchg_rm_reg(c, i) ==
  LET old == ReadRm(c, i)
      c1  == IF i.e.mod = 3 THEN c ELSE WriteRm(ReadRmEx(c, i), i, ReadReg(c, i))
  IN CASE i.e.mod = 3 -> WriteRm(WriteReg(c, i, old), i, ReadReg(c, i))
       [] i.e.mod # 3 /\ Ok(c1) -> WriteReg(c1, i, old)
       [] OTHER -> c1
xchg_acc_reg(c, i) ==
  LET k == (i.e.op - \h90) + 8 * i.e.rex.b
      n == i.size
  IN IF k = RAX THEN c
     ELSE set_reg(set_reg(c, i.e.rex, RAX, n, c.r[k] % M(n)), i.e.rex, k, n, c.r[RAX] % M(n))
decode_modrm_xchg(c, e) == Modrm(c, e, LockNeedsMemory(e))
decode_xchg_instruction(c, e) ==
  IF e.op \in {\h86, \h87}
  THEN Inst(c, e, IF e.op = \h86 THEN 1 ELSE operand_size(e), FALSE, decode_modrm_xchg(c, e), FALSE)
  ELSE Inst(c, e, operand_size(e), Lock(e), NoModrm, FALSE)
execute_xchg(c, i) == IF i.e.op \in {\h86, \h87} THEN xchg_rm_reg(c, i) ELSE xchg_acc_reg(c, i)

\* Without LOCK the register is written before the sum is stored.
xadd_compute_result(old, s, n) == [r |-> (old + s) % M(n), f |-> update_flags_add(old, s, n)]
xadd_rm_reg(c, i) ==
  LET c1  == ReadRmEx(c, i)
      old == ReadRm(c, i)
      x   == xadd_compute_result(old, ReadReg(c, i), i.size)
      c2  == WriteRm(c1, i, x.r)
  IN CASE ~Ok(c1) -> c1
       [] Ok(c1) /\ Lock(i.e) /\ i.e.mod # 3 ->
            IF Ok(c2) THEN WriteReg(SetFlags(c2, x.f), i, old) ELSE c2
       [] OTHER -> WriteRm(WriteReg(SetFlags(c1, x.f), i, old), i, x.r)
decode_modrm_xadd(c, e) == Modrm(c, e, LockNeedsMemory(e))
decode_xadd_instruction(c, e) ==
  Inst(c, e, IF e.op = \hC0 THEN 1 ELSE operand_size(e), FALSE, decode_modrm_xadd(c, e), FALSE)
execute_xadd(c, i) == xadd_rm_reg(c, i)

-----------------------------------------------------------------------------
(* BSWAP and MOVBE                                                         *)

\* The bytes of v in the other order.
Swapped(v, n) == LET S[k \in 0..n] == IF k = 0 THEN 0 ELSE M(1) * S[k-1] + ByteOf(v, k - 1)
                 IN S[n]

byteswap_bswap(v, n) == Swapped(v, n)
decode_bswap_instruction(c, e) ==
  Inst(c, e, IF e.rex.w = 1 THEN 8 ELSE 4, Lock(e), NoModrm, FALSE)
execute_bswap(c, i) ==
  LET k == (i.e.op - \hC8) + 8 * i.e.rex.b
  IN set_reg(c, i.e.rex, k, i.size, byteswap_bswap(c.r[k] % M(i.size), i.size))

movbe_swap(v, n) == Swapped(v, n)
decode_movbe_instruction(c, e) ==
  Inst(c, e, operand_size(e), Lock(e), Modrm(c, e, e.mod = 3), FALSE)
execute_movbe(c, i) ==
  LET c1 == ReadEx(c, i.addr, i.size)
  IN CASE i.e.op = \hF1 -> Write(c, i.addr, i.size, movbe_swap(ReadReg(c, i), i.size))
       [] i.e.op = \hF0 /\ Ok(c1) ->
            WriteReg(c1, i, movbe_swap(Read(c, i.addr, i.size), i.size))
       [] OTHER -> c1

-----------------------------------------------------------------------------
(* Conditional moves and sets                                              *)

\* The operand is read whether or not the condition holds.
decode_modrm_cmovcc(c, e) == Modrm(c, e, Lock(e))
decode_cmovcc_instruction(c, e) ==
  Inst(c, e, operand_size(e), FALSE, decode_modrm_cmovcc(c, e), FALSE)
execute_cmovcc(c, i) ==
  LET c1 == ReadRmEx(c, i)
  IN IF Ok(c1) /\ eval_condition(c, i.e.op % 16) THEN WriteReg(c1, i, ReadRm(c, i)) ELSE c1

decode_modrm_setcc(c, e) == Modrm(c, e, Lock(e))
decode_setcc_instruction(c, e) == Inst(c, e, 1, FALSE, decode_modrm_setcc(c, e), FALSE)
execute_setcc(c, i) == WriteRm(c, i, IF eval_condition(c, i.e.op % 16) THEN 1 ELSE 0)

decode_flags_instruction(c, e) == Inst(c, e, 4, Lock(e), NoModrm, FALSE)
execute_flags(c, i) ==
  LET to == CASE i.e.op = \hF5 -> [CF |-> ~c.f["CF"]]
              [] i.e.op = \hF8 -> [CF |-> FALSE]
              [] i.e.op = \hF9 -> [CF |-> TRUE]
              [] i.e.op = \hFC -> [DF |-> FALSE]
              [] OTHER         -> [DF |-> TRUE]
  IN SetFlags(c, to)

-----------------------------------------------------------------------------
(* XLAT: the segment is decoded, the address computed when it executes      *)

XlatSegment(e) == IF e.seg = "none" THEN "ds" ELSE e.seg

get_xlat_base_offset(c, as) == c.r[RBX] % M(as)
get_xlat_linear_address(c, as, s) ==
  LET offset == (get_xlat_base_offset(c, as) + (c.r[RAX] % M(1))) % M(as)
  IN (cpu_segment_base_for_addressing(c, s) + offset) % M(8)

decode_xlat_instruction(c, e) == Inst(c, e, 1, Lock(e), NoModrm, FALSE)
execute_xlat(c, i) ==
  LET s == XlatSegment(i.e)
      a == get_xlat_linear_address(c, i.as, s)
      ex == cpu_validate_linear_address(c, a, s)
  IN IF ex # "none" THEN Raise(c, ex) ELSE set_reg(ReadEx(c, a, 1), i.e.rex, RAX, 1, Read(c, a, 1))

-----------------------------------------------------------------------------
(* BT, BTS, BTR and BTC                                                    *)

decode_bt_operation(e) ==
  CASE e.op = \hA3 \/ (e.op = \hBA /\ e.reg = 4) -> "BT"
    [] e.op = \hAB \/ (e.op = \hBA /\ e.reg = 5) -> "BTS"
    [] e.op = \hB3 \/ (e.op = \hBA /\ e.reg = 6) -> "BTR"
    [] OTHER -> "BTC"

bt_operation_allows_lock(e) == decode_bt_operation(e) # "BT" /\ e.mod # 3

sign_extend_bt_source(v, n) == Signed(v, n)

floor_div_bt_index_Truncated(x, d) ==  \* mutant: division toward zero
  IF x >= 0 THEN x \div d ELSE -((-x) \div d)

floor_div_bt_index(x, d) == IF x >= 0 THEN x \div d ELSE -((-x + d - 1) \div d)

\* A register index into memory selects any bit of the string around the operand.
BtTarget(c, i) ==
  LET w   == B * i.size
      raw == IF i.e.op = \hBA THEN i.e.imm ELSE ReadReg(c, i)
      x   == sign_extend_bt_source(raw, i.size)
  IN IF i.e.mod = 3 \/ i.e.op = \hBA THEN [addr |-> i.addr, bit |-> raw % w]
     ELSE [addr |-> (i.addr + floor_div_bt_index(x, w) * i.size) % M(8), bit |-> x % w]

BtValue(v, k, op) ==
  CASE op = "BTS" -> IF Bit(v, k) THEN v ELSE v + 2^k
    [] op = "BTR" -> IF Bit(v, k) THEN v - 2^k ELSE v
    [] op = "BTC" -> IF Bit(v, k) THEN v - 2^k ELSE v + 2^k
    [] OTHER      -> v

\* CF first, then the operand; BT leaves it alone.
execute_bt(c, i) ==
  LET t  == BtTarget(c, i)
      op == decode_bt_operation(i.e)
      j  == [i EXCEPT !.addr = t.addr]
      c1 == ReadRmEx(c, j)
      v  == ReadRm(c, j)
      c2 == SetFlags(c1, [CF |-> Bit(v, t.bit)])
  IN IF ~Ok(c1) \/ op = "BT" THEN c2 ELSE WriteRm(c2, j, BtValue(v, t.bit, op))

decode_modrm_bt(c, e) == Modrm(c, e, FALSE)
decode_bt_instruction(c, e) ==
  Inst(c, e, operand_size(e), FALSE, decode_modrm_bt(c, e),
       (e.op = \hBA /\ e.reg < 4) \/ (Lock(e) /\ ~bt_operation_allows_lock(e)))

-----------------------------------------------------------------------------
(* BSF, BSR, TZCNT, LZCNT, POPCNT                                          *)

BitsOf(v, n)             == {k \in 0..B*n-1 : Bit(v, k)}
scan_forward_bsf(v, n)   == CHOOSE k \in BitsOf(v, n) : \A l \in BitsOf(v, n) : k <= l
scan_reverse_bsf(v, n)   == CHOOSE k \in BitsOf(v, n) : \A l \in BitsOf(v, n) : l <= k
count_trailing_zeros_bsf(v, n) == IF v = 0 THEN B * n ELSE scan_forward_bsf(v, n)
count_leading_zeros_bsf(v, n)  == IF v = 0 THEN B * n ELSE B * n - 1 - scan_reverse_bsf(v, n)

\* A source of 0 leaves the register of BSF and BSR.
execute_bsf(c, i) ==
  LET c1  == ReadRmEx(c, i)
      v   == ReadRm(c, i)
      n   == i.size
      cnt == IF i.e.op = \hBC THEN count_trailing_zeros_bsf(v, n) ELSE count_leading_zeros_bsf(v, n)
      at  == IF i.e.op = \hBC THEN scan_forward_bsf(v, n) ELSE scan_reverse_bsf(v, n)
  IN CASE ~Ok(c1) -> c1
       [] Ok(c1) /\ "F3" \in i.e.pfx ->
            SetFlags(WriteReg(c1, i, cnt % M(n)), [CF |-> v = 0, ZF |-> cnt = 0])
       [] Ok(c1) /\ "F3" \notin i.e.pfx /\ v = 0 -> SetFlags(c1, [ZF |-> TRUE])
       [] OTHER -> SetFlags(WriteReg(c1, i, at), [ZF |-> FALSE])

decode_modrm_bsf(c, e) == Modrm(c, e, Lock(e))
decode_bsf_instruction(c, e) == Inst(c, e, operand_size(e), FALSE, decode_modrm_bsf(c, e), FALSE)

popcnt_count_bits(v, n) == Cardinality(BitsOf(v, n))
execute_popcnt(c, i) ==
  LET c1 == ReadRmEx(c, i)
      v  == ReadRm(c, i)
  IN IF ~Ok(c1) THEN c1
     ELSE SetFlags(WriteReg(c1, i, popcnt_count_bits(v, i.size)),
                   [m \in Flags \ {"DF"} |-> m = "ZF" /\ v = 0])
decode_modrm_popcnt(c, e) == Modrm(c, e, Lock(e))
decode_popcnt_instruction(c, e) ==
  Inst(c, e, operand_size(e), "F3" \notin e.pfx, decode_modrm_popcnt(c, e), FALSE)

-----------------------------------------------------------------------------
(* BMI: VEX-encoded, with vex.map, vex.pp, vex.l and the register vex.v.    *)
(* The host's processor has the features.                                   *)

bmi_operand_size(c, e) == IF c.long /\ e.rex.w = 1 THEN 8 ELSE 4

bmi_rotate_right(v, k, n) ==
  LET w == B * n  a == k % w IN v \div 2^a + (v % 2^a) * 2^((w - a) % w)

\* Start and length are counts.
bmi_bextr(v, ctl, n) ==
  LET start == ctl % 2^CountBits
      len   == (ctl \div 2^CountBits) % 2^CountBits
      room  == B * n - start
  IN IF len = 0 \/ start >= B * n THEN 0
     ELSE (v \div 2^start) % 2^(IF len < room THEN len ELSE room)

bmi_bzhi(v, ctl, n) == LET k == ctl % 2^CountBits IN IF k >= B * n THEN v ELSE v % 2^k

\* The bits of the mask from the lowest: gathered, or scattered.
LowestBit(mask) == CHOOSE b \in {2^k : k \in 0..8*B-1} : mask % (2 * b) = b
RECURSIVE bmi_pext(_, _, _)
bmi_pext(v, mask, out) ==
  IF mask = 0 THEN 0
  ELSE LET low == LowestBit(mask)
       IN (IF (v \div low) % 2 = 1 THEN out ELSE 0) + bmi_pext(v, mask - low, 2 * out)
RECURSIVE bmi_pdep(_, _, _)
bmi_pdep(v, mask, in) ==
  IF mask = 0 THEN 0
  ELSE LET low == LowestBit(mask)
       IN (IF (v \div in) % 2 = 1 THEN low ELSE 0) + bmi_pdep(v, mask - low, 2 * in)

bmi_set_logic_flags(r, n) == With(Szp(r, n), FALSE, FALSE, FALSE)

\* RORX alone has an immediate, which the RIP-relative address is computed before.
decode_bmi_vex_modrm(c, e) ==
  LET len == IF e.vex.map = 3 THEN e.len - 1 ELSE e.len
      x   == Inst(c, [e EXCEPT !.len = len], bmi_operand_size(c, e), e.vex.l = 1,
                  Modrm(c, e, FALSE), FALSE)
  IN [x EXCEPT !.e = e]

BmiFlags(cf, zf) == [m \in Flags \ {"DF"} |-> (m = "CF" /\ cf) \/ (m = "ZF" /\ zf)]

try_execute_bmi_vex(c, i) ==
  LET e  == i.e
      n  == i.size
      c1 == ReadRmEx(c, i)
      v  == ReadRm(c, i)
      y  == get_reg(c, [e.rex EXCEPT !.p = TRUE], e.vex.v, n)
      k  == CountMask(y % 2^CountBits, n)
      To(r, val) == set_reg(c1, e.rex, r, n, val)
      p  == (c.r[RDX] % M(n)) * v
      bls == CASE e.reg = 1 -> v & ((v - 1) % M(n))
               [] e.reg = 2 -> v ^^ ((v - 1) % M(n))
               [] OTHER     -> v & ((-v) % M(n))
      blsf == [bmi_set_logic_flags(bls, n) EXCEPT !["CF"] = (v = 0) = (e.reg # 3)]
  IN CASE ~Ok(c1) -> c1
       [] e.vex.map = 3 -> To(RegNo(e), bmi_rotate_right(v, e.imm, n))
       [] e.vex.map = 2 /\ e.op = \hF7 /\ e.vex.pp = 0 ->
            LET r == bmi_bextr(v, y, n) IN SetFlags(To(RegNo(e), r), BmiFlags(FALSE, r = 0))
       [] e.vex.map = 2 /\ e.op = \hF7 /\ e.vex.pp = 1 -> To(RegNo(e), (v % 2^(B*n - k)) * 2^k)
       [] e.vex.map = 2 /\ e.op = \hF7 /\ e.vex.pp = 2 ->
            To(RegNo(e), (Signed(v, n) \div 2^k) % M(n))
       [] e.vex.map = 2 /\ e.op = \hF7 /\ e.vex.pp = 3 -> To(RegNo(e), v \div 2^k)
       [] e.vex.map = 2 /\ e.op = \hF5 /\ e.vex.pp = 0 ->
            LET r == bmi_bzhi(v, y, n)
            IN SetFlags(To(RegNo(e), r), BmiFlags(y % 2^CountBits >= B * n, r = 0))
       [] e.vex.map = 2 /\ e.op = \hF5 /\ e.vex.pp = 2 -> To(RegNo(e), bmi_pext(y, v, 1))
       [] e.vex.map = 2 /\ e.op = \hF5 /\ e.vex.pp = 3 -> To(RegNo(e), bmi_pdep(y, v, 1))
       [] e.vex.map = 2 /\ e.op = \hF3 -> SetFlags(To(e.vex.v, bls), blsf)
       [] OTHER -> set_reg(To(e.vex.v, p % M(n)), e.rex, RegNo(e), n, p \div M(n))

=============================================================================
