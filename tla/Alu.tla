-------------------------------- MODULE Alu ---------------------------------
(***************************************************************************)
(* ADD, OR, ADC, SBB, AND, SUB, XOR, CMP, TEST, INC, DEC, NEG and NOT      *)
(* (instructions/<name>.hpp).  The eight two-operand files have the same   *)
(* six forms; what differs is the opcode, the group number, the LOCK rule, *)
(* the value and the flags.  The 8-, 16-, 32- and 64-bit functions of a    *)
(* form are one operator over the operand size.                            *)
(***************************************************************************)
EXTENDS Machine

-----------------------------------------------------------------------------
(* Forms.  op(c, d, s, n) is the result and the flags of an operation.      *)

Group == {\h80, \h81, \h83}

\* 83 sign-extends a byte, REX.W a dword.
Imm(i) == CASE i.e.op = \h83 -> Sext(i.e.imm, 1, i.size)
            [] i.size = 8    -> Sext(i.e.imm, 4, 8)
            [] OTHER         -> i.e.imm

\* Read the operand, set the flags, write the result.
ToRm(c, i, x) == WriteRm(SetFlags(c, x.f), i, x.r)
RmDest(c, i, s, op(_, _, _, _)) == ToRm(ReadRmEx(c, i), i, op(c, ReadRm(c, i), s, i.size))

\* The register is written even if the read faulted.
ToReg(c, i, k, x) == set_reg(SetFlags(c, x.f), i.e.rex, k, i.size, x.r)
RegDest(c, i, op(_, _, _, _)) ==
  ToReg(ReadRmEx(c, i), i, RegNo(i.e), op(c, ReadReg(c, i), ReadRm(c, i), i.size))

AccDest(c, i, op(_, _, _, _)) ==
  ToReg(c, i, RAX, op(c, c.r[RAX] % M(i.size), Imm(i), i.size))

\* The cpu_atomic_* path of LOCK with a memory operand: flags only once it is stored.
StoreFirst(c, i, x) ==
  IF Lock(i.e) /\ i.e.mod # 3 THEN SetFlags(WriteRm(c, i, x.r), x.f) ELSE ToRm(c, i, x)
Locked(c, i, s, op(_, _, _, _)) ==
  StoreFirst(ReadRmEx(c, i), i, op(c, ReadRm(c, i), s, i.size))

AluSize(e, b) == IF e.op \in {\h80, b, b + 2, b + 4} THEN 1 ELSE operand_size(e)

\* b is the first of the six opcodes, ext the number in the group.
AluInst(c, e, b, ext, m, lockable) ==
  LET early == Lock(e) /\ (~lockable \/ e.op \in b+2..b+5)
  IN IF e.op \in {b + 4, b + 5} THEN Inst(c, e, AluSize(e, b), early, NoModrm, FALSE)
     ELSE Inst(c, e, AluSize(e, b), early, m, e.op \in Group /\ e.reg # ext)

AluForm(c, i, b, acc(_, _), rmimm(_, _), rmr(_, _), rrm(_, _)) ==
  CASE i.e.op \in {b + 4, b + 5} -> acc(c, i)
    [] i.e.op \in Group          -> rmimm(c, i)
    [] i.e.op \in {b, b + 1}     -> rmr(c, i)
    [] OTHER                     -> rrm(c, i)

LockNeedsMemory(e) == Lock(e) /\ e.mod = 3

-----------------------------------------------------------------------------
(* ADD                                                                     *)

add_value(c, d, s, n) == [r |-> (d + s) % M(n), f |-> update_flags_add(d, s, n)]
add_acc_imm(c, i) == AccDest(c, i, add_value)
add_rm_imm(c, i)  == RmDest(c, i, Imm(i), add_value)
add_rm_r(c, i)    == RmDest(c, i, ReadReg(c, i), add_value)
add_r_rm(c, i)    == RegDest(c, i, add_value)
decode_modrm_add(c, e) == Modrm(c, e, LockNeedsMemory(e))
decode_add_instruction(c, e) == AluInst(c, e, \h00, 0, decode_modrm_add(c, e), TRUE)
execute_add(c, i) == AluForm(c, i, \h00, add_acc_imm, add_rm_imm, add_rm_r, add_r_rm)

-----------------------------------------------------------------------------
(* OR: the locked form goes through cpu_atomic_or_memory                   *)

or_value(c, d, s, n) == LET r == d | s IN [r |-> r, f |-> update_flags_or(r, n)]
or_acc_imm(c, i) == AccDest(c, i, or_value)
or_rm_imm(c, i)  == Locked(c, i, Imm(i), or_value)
or_rm_r(c, i)    == Locked(c, i, ReadReg(c, i), or_value)
or_r_rm(c, i)    == RegDest(c, i, or_value)
decode_modrm_or(c, e) == Modrm(c, e, LockNeedsMemory(e))
decode_or_instruction(c, e) == AluInst(c, e, \h08, 1, decode_modrm_or(c, e), TRUE)
execute_or(c, i) == AluForm(c, i, \h08, or_acc_imm, or_rm_imm, or_rm_r, or_r_rm)

-----------------------------------------------------------------------------
(* ADC and SBB take CF in                                                  *)

adc_value(c, d, s, n) ==
  [r |-> (d + s + Cf(c)) % M(n), f |-> update_flags_adc(d, s, Cf(c), n)]
adc_acc_imm(c, i) == AccDest(c, i, adc_value)
adc_rm_imm(c, i)  == RmDest(c, i, Imm(i), adc_value)
adc_rm_r(c, i)    == RmDest(c, i, ReadReg(c, i), adc_value)
adc_r_rm(c, i)    == RegDest(c, i, adc_value)
decode_modrm_adc(c, e) == Modrm(c, e, LockNeedsMemory(e))
decode_adc_instruction(c, e) == AluInst(c, e, \h10, 2, decode_modrm_adc(c, e), TRUE)
execute_adc(c, i) == AluForm(c, i, \h10, adc_acc_imm, adc_rm_imm, adc_rm_r, adc_r_rm)

sbb_value(c, d, s, n) ==
  [r |-> (d - s - Cf(c)) % M(n), f |-> update_flags_sbb(d, s, Cf(c), n)]
sbb_acc_imm(c, i) == AccDest(c, i, sbb_value)
sbb_rm_imm(c, i)  == RmDest(c, i, Imm(i), sbb_value)
sbb_rm_r(c, i)    == RmDest(c, i, ReadReg(c, i), sbb_value)
sbb_r_rm(c, i)    == RegDest(c, i, sbb_value)
decode_modrm_sbb(c, e) == Modrm(c, e, LockNeedsMemory(e))
decode_sbb_instruction(c, e) == AluInst(c, e, \h18, 3, decode_modrm_sbb(c, e), TRUE)
execute_sbb(c, i) == AluForm(c, i, \h18, sbb_acc_imm, sbb_rm_imm, sbb_rm_r, sbb_r_rm)

-----------------------------------------------------------------------------
(* AND, SUB, XOR                                                           *)

and_value(c, d, s, n) == LET r == d & s IN [r |-> r, f |-> update_flags_and(r, n)]
and_acc_imm(c, i) == AccDest(c, i, and_value)
and_rm_imm(c, i)  == RmDest(c, i, Imm(i), and_value)
and_rm_r(c, i)    == RmDest(c, i, ReadReg(c, i), and_value)
and_r_rm(c, i)    == RegDest(c, i, and_value)
decode_modrm_and(c, e) == Modrm(c, e, LockNeedsMemory(e))
decode_and_instruction(c, e) == AluInst(c, e, \h20, 4, decode_modrm_and(c, e), TRUE)
execute_and(c, i) == AluForm(c, i, \h20, and_acc_imm, and_rm_imm, and_rm_r, and_r_rm)

sub_value(c, d, s, n) == [r |-> (d - s) % M(n), f |-> update_flags_sub(d, s, n)]
sub_acc_imm(c, i) == AccDest(c, i, sub_value)
sub_rm_imm(c, i)  == RmDest(c, i, Imm(i), sub_value)
sub_rm_r(c, i)    == RmDest(c, i, ReadReg(c, i), sub_value)
sub_r_rm(c, i)    == RegDest(c, i, sub_value)
decode_modrm_sub(c, e) == Modrm(c, e, LockNeedsMemory(e))
decode_sub_instruction(c, e) == AluInst(c, e, \h28, 5, decode_modrm_sub(c, e), TRUE)
execute_sub(c, i) == AluForm(c, i, \h28, sub_acc_imm, sub_rm_imm, sub_rm_r, sub_r_rm)

xor_value(c, d, s, n) == LET r == d ^^ s IN [r |-> r, f |-> update_flags_xor(r, n)]
xor_acc_imm(c, i) == AccDest(c, i, xor_value)
xor_rm_imm(c, i)  == Locked(c, i, Imm(i), xor_value)
xor_rm_r(c, i)    == Locked(c, i, ReadReg(c, i), xor_value)
xor_r_rm(c, i)    == RegDest(c, i, xor_value)
decode_modrm_xor(c, e) == Modrm(c, e, LockNeedsMemory(e))
decode_xor_instruction(c, e) == AluInst(c, e, \h30, 6, decode_modrm_xor(c, e), TRUE)
execute_xor(c, i) == AluForm(c, i, \h30, xor_acc_imm, xor_rm_imm, xor_rm_r, xor_r_rm)

-----------------------------------------------------------------------------
(* CMP and TEST only set flags; LOCK is refused in the prefix loop         *)

cmp_acc_imm(c, i) == SetFlags(c, update_flags_sub(c.r[RAX] % M(i.size), Imm(i), i.size))
cmp_rm_imm(c, i)  == SetFlags(ReadRmEx(c, i), update_flags_sub(ReadRm(c, i), Imm(i), i.size))
cmp_rm_r(c, i) ==
  SetFlags(ReadRmEx(c, i), update_flags_sub(ReadRm(c, i), ReadReg(c, i), i.size))
cmp_r_rm(c, i) ==
  SetFlags(ReadRmEx(c, i), update_flags_sub(ReadReg(c, i), ReadRm(c, i), i.size))
decode_modrm_cmp(c, e) == Modrm(c, e, FALSE)
decode_cmp_instruction(c, e) == AluInst(c, e, \h38, 7, decode_modrm_cmp(c, e), FALSE)
execute_cmp(c, i) == AluForm(c, i, \h38, cmp_acc_imm, cmp_rm_imm, cmp_rm_r, cmp_r_rm)

test_acc_imm(c, i) ==
  SetFlags(c, update_flags_test((c.r[RAX] % M(i.size)) & Imm(i), i.size))
test_rm_imm(c, i) == SetFlags(ReadRmEx(c, i), update_flags_test(ReadRm(c, i) & Imm(i), i.size))
test_rm_r(c, i) ==
  SetFlags(ReadRmEx(c, i), update_flags_test(ReadRm(c, i) & ReadReg(c, i), i.size))
decode_modrm_test(c, e) == Modrm(c, e, FALSE)
decode_test_instruction(c, e) ==
  LET size == IF e.op \in {\hA8, \hF6, \h84} THEN 1 ELSE operand_size(e)
  IN IF e.op \in {\hA8, \hA9} THEN Inst(c, e, size, Lock(e), NoModrm, FALSE)
     ELSE Inst(c, e, size, Lock(e), decode_modrm_test(c, e),
               e.op \in {\hF6, \hF7} /\ e.reg # 0)
execute_test(c, i) ==
  CASE i.e.op \in {\hA8, \hA9} -> test_acc_imm(c, i)
    [] i.e.op \in {\hF6, \hF7} -> test_rm_imm(c, i)
    [] OTHER                   -> test_rm_r(c, i)

-----------------------------------------------------------------------------
(* INC and DEC keep CF; 40 to 4F exist in 32-bit code only                 *)

IncDecInst(c, e, b, ext, m) ==
  IF e.op \in b..b+7 THEN Inst(c, e, operand_size(e), c.long, NoModrm, FALSE)
  ELSE Inst(c, e, IF e.op = \hFE THEN 1 ELSE operand_size(e), FALSE, m, e.reg # ext)

\* 40+r addresses its register like ModRM C0+r.
ShortForm(i, b) ==
  IF i.e.op \in b..b+7 THEN [i EXCEPT !.e.mod = 3, !.e.rm = i.e.op - b] ELSE i

inc_value(c, d, s, n) == [r |-> (d + 1) % M(n), f |-> update_flags_inc(d, n)]
inc_rm(c, i) == Locked(c, i, 0, inc_value)
decode_modrm_inc(c, e) == Modrm(c, e, LockNeedsMemory(e))
decode_inc_instruction(c, e) == IncDecInst(c, e, \h40, 0, decode_modrm_inc(c, e))
execute_inc(c, i) == inc_rm(c, ShortForm(i, \h40))

dec_value(c, d, s, n) == [r |-> (d - 1) % M(n), f |-> update_flags_dec(d, n)]
dec_rm(c, i) == Locked(c, i, 0, dec_value)
decode_modrm_dec(c, e) == Modrm(c, e, LockNeedsMemory(e))
decode_dec_instruction(c, e) == IncDecInst(c, e, \h48, 1, decode_modrm_dec(c, e))
execute_dec(c, i) == dec_rm(c, ShortForm(i, \h48))

-----------------------------------------------------------------------------
(* NEG and NOT                                                             *)

NegNotInst(c, e, ext, m) ==
  Inst(c, e, IF e.op = \hF6 THEN 1 ELSE operand_size(e), FALSE, m, e.reg # ext)

neg_value(c, d, s, n) == [r |-> (-d) % M(n), f |-> update_flags_sub(0, d, n)]
neg_rm(c, i) == Locked(c, i, 0, neg_value)
decode_modrm_neg(c, e) == Modrm(c, e, LockNeedsMemory(e))
decode_neg_instruction(c, e) == NegNotInst(c, e, 3, decode_modrm_neg(c, e))
execute_neg(c, i) == neg_rm(c, i)

\* NOT leaves every flag.
not_value(c, d, s, n) == [r |-> M(n) - 1 - d, f |-> [m \in {} |-> FALSE]]
not_rm(c, i) == Locked(c, i, 0, not_value)
decode_modrm_not(c, e) == Modrm(c, e, LockNeedsMemory(e))
decode_not_instruction(c, e) == NegNotInst(c, e, 2, decode_modrm_not(c, e))
execute_not(c, i) == not_rm(c, i)

=============================================================================
