------------------------------- MODULE Control ------------------------------
(***************************************************************************)
(* The stack and the control transfers: PUSH, POP, PUSHF, POPF, ENTER,     *)
(* LEAVE, CALL, RET near and far, IRET, JMP, Jcc, LOOP and JCXZ            *)
(* (instructions/<name>.hpp, the stack helpers of cpu/helper.hpp, the      *)
(* inlined RET and Jcc of cpu/executor.hpp).                               *)
(*                                                                         *)
(* Long mode is active; c.long says that CS holds a 64-bit code segment,   *)
(* and code segments that are not are 32-bit.  A branch has its signed     *)
(* displacement in e.rel, a far pointer its selector in e.sel.             *)
(***************************************************************************)
EXTENDS MovesBits

-----------------------------------------------------------------------------
(* Code offsets                                                            *)

cpu_mask_code_offset(v, n) == v % M(n)

cpu_validate_code_offset(c, v, n) ==
  If(c.long /\ ~cpu_is_canonical_address(cpu_mask_code_offset(v, n)), "GP")

cpu_assign_rip_checked(c, v, n) ==
  LET ex == cpu_validate_code_offset(c, v, n)
  IN IF ex = "none" THEN [c EXCEPT !.rip = cpu_mask_code_offset(v, n)] ELSE Raise(c, ex)

\* The operand size of the stack instructions and near branches, and where they continue.
BranchSize(c, e) == IF "66" \in e.pfx THEN 2 ELSE IF c.long THEN 8 ELSE 4
NextRip(c, e)    == c.rip + e.len

-----------------------------------------------------------------------------
(* The stack.  SS adds no base.                                            *)

cpu_stack_address_size(c) == IF c.long THEN 8 ELSE IF c.seg["ss"].d.db THEN 4 ELSE 2

cpu_get_stack_pointer_value(c, ss) == c.r[RSP] % M(ss)
cpu_stack_pointer_add(ss, v, k)    == (v + k) % M(ss)
\* What lies above the stack's width stays.
cpu_set_stack_pointer_value(c, ss, v) == [c EXCEPT !.r[RSP] = @ - (@ % M(ss)) + (v % M(ss))]

\* A slot of 8 bytes does not exist on a 16-bit stack.
SlotEx(ss, n) == If(ss = 2 /\ n = 8, "GP")

\* The stack pointer k bytes on.
Beyond(c, ss, k) == cpu_stack_pointer_add(ss, cpu_get_stack_pointer_value(c, ss), k)

\* The pointer moves once the value is stored.
MoveSp(c, ss, sp) == IF Ok(c) THEN cpu_set_stack_pointer_value(c, ss, sp) ELSE c
PushAt(c, ss, sp, n, v) == MoveSp(Write(Raise(c, SlotEx(ss, n)), sp, n, v % M(n)), ss, sp)
push_value(c, n, v) ==
  LET ss == cpu_stack_address_size(c) IN PushAt(c, ss, Beyond(c, ss, -n), n, v)

cpu_resolve_stack_slot_write(c, a, n) == Fault(c, a, n, {"rw"})
cpu_commit_stack_slot_write(c, a, n, v) == Write(c, a, n, v % M(n))

\* Every slot is resolved before the first is written.
Slots(c, ss, n, count) == [k \in 1..count |-> Beyond(c, ss, -n * k)]
SlotsEx(c, at, n) == First([k \in DOMAIN at |-> cpu_resolve_stack_slot_write(c, at[k], n)])
StoreSlots(c, at, n, vs) ==
  LET F[k \in 0..Len(vs)] ==
        IF k = 0 THEN c ELSE cpu_commit_stack_slot_write(F[k - 1], at[k], n, vs[k])
  IN F[Len(vs)]

FillSlots(c, ss, at, n, vs) == MoveSp(StoreSlots(c, at, n, vs), ss, at[Len(at)])
PushSlots(c, ss, at, n, vs) ==
  FillSlots(Raise(c, First(<<SlotEx(ss, n), SlotsEx(c, at, n)>>)), ss, at, n, vs)
push_two_stack_values(c, first, second, n) ==
  LET ss == cpu_stack_address_size(c)
  IN PushSlots(c, ss, Slots(c, ss, n, 2), n, <<first, second>>)

\* The values above the pointer, the pointer after them and what reading them raises.
PeekEx(c, ss, at, n) ==
  First(<<SlotEx(ss, n)>> \o [k \in DOMAIN at |-> Fault(c, at[k], n, {"r", "rw"})])
Peeked(c, n, at, sp, ex) ==
  [ex |-> ex, v |-> [k \in DOMAIN at |-> IF ex = "none" THEN Load(c, at[k], n) ELSE 0], sp |-> sp]
PeekAt(c, ss, n, at, sp) == Peeked(c, n, at, sp, PeekEx(c, ss, at, n))
peek_stack_values(c, n, count) ==
  LET ss == cpu_stack_address_size(c)
  IN PeekAt(c, ss, n, [k \in 1..count |-> Beyond(c, ss, n * (k - 1))], Beyond(c, ss, n * count))

\* The value and the context after it.
Popped(c, p) == [v |-> p.v[1], c |-> MoveSp(Raise(c, p.ex), cpu_stack_address_size(c), p.sp)]
pop_value(c, n) == Popped(c, peek_stack_values(c, n, 1))

-----------------------------------------------------------------------------
(* PUSH.  06, 0E, 16, 1E exist in 32-bit code only; 0F A0 and A8 in both.  *)

PushPopSreg(e) ==
  CASE e.two /\ e.op \in {\hA0, \hA1} -> "fs"
    [] e.two /\ e.op \in {\hA8, \hA9} -> "gs"
    [] ~e.two /\ e.op \in {\h06, \h07} -> "es"
    [] ~e.two /\ e.op = \h0E           -> "cs"
    [] ~e.two /\ e.op \in {\h16, \h17} -> "ss"
    [] ~e.two /\ e.op \in {\h1E, \h1F} -> "ds"
    [] OTHER -> "none"

push_rm(c, i) ==
  IF Ok(ReadRmEx(c, i)) THEN push_value(c, i.size, ReadRm(c, i)) ELSE ReadRmEx(c, i)
push_r(c, i)    == push_value(c, i.size, c.r[(i.e.op - \h50) + 8 * i.e.rex.b])
push_imm(c, i)  ==
  push_value(c, i.size, Sext(i.e.imm, IF i.e.op = \h6A THEN 1 ELSE ImmSize(i.size), i.size))
push_sreg(c, i) == push_value(c, i.size, c.seg[PushPopSreg(i.e)].sel)

decode_modrm_push(c, e) == Modrm(c, e, FALSE)
decode_push_instruction(c, e) ==
  IF e.op = \hFF THEN Inst(c, e, BranchSize(c, e), Lock(e), decode_modrm_push(c, e), e.reg # 6)
  ELSE Inst(c, e, BranchSize(c, e), Lock(e), NoModrm,
            c.long /\ ~e.two /\ PushPopSreg(e) # "none")
execute_push(c, i) ==
  CASE i.e.op = \hFF                -> push_rm(c, i)
    [] i.e.op \in \h50..\h57        -> push_r(c, i)
    [] i.e.op \in {\h6A, \h68}      -> push_imm(c, i)
    [] OTHER                        -> push_sreg(c, i)

-----------------------------------------------------------------------------
(* POP                                                                     *)

pop_peek_stack_value(c, n) == peek_stack_values(c, n, 1)
\* The width is that of the stack of now, a new SS included.
pop_commit_stack_pointer(c, sp) == cpu_set_stack_pointer_value(c, cpu_stack_address_size(c), sp)
pop_write_memory_value(c, a, n, v) == Write(c, a, n, v)

pop_destination_Before(c, i, sp) ==  \* mutant: the address of before the pop
  get_effective_address(c, i.e, i.as, 0)

\* pop_compute_memory_destination_after_stack_advance: no length is added to rip.
pop_destination(c, i, sp) == get_effective_address(pop_commit_stack_pointer(c, sp), i.e, i.as, 0)

PopCommitted(c, sp) == IF Ok(c) THEN pop_commit_stack_pointer(c, sp) ELSE c
PopToMemory(c, i, p, a) ==
  PopCommitted(pop_write_memory_value(Raise(c, a.ex), a.addr, i.size, p.v[1]), p.sp)
PopToReg(c, i, k, p) ==
  IF p.ex # "none" THEN Raise(c, p.ex)
  ELSE set_reg(pop_commit_stack_pointer(c, p.sp), i.e.rex, k, i.size, p.v[1])
PopToRm(c, i, p) ==
  IF p.ex # "none" \/ i.e.mod = 3 THEN PopToReg(c, i, RmNo(i.e), p)
  ELSE PopToMemory(c, i, p, pop_destination(c, i, p.sp))
PopToSreg(c, i, p) ==
  IF p.ex # "none" THEN Raise(c, p.ex)
  ELSE PopCommitted(load_segment_register(c, PushPopSreg(i.e), p.v[1] % M(2)), p.sp)

pop_rm(c, i)   == PopToRm(c, i, pop_peek_stack_value(c, i.size))
pop_r(c, i)    == PopToReg(c, i, (i.e.op - \h58) + 8 * i.e.rex.b,
                           pop_peek_stack_value(c, i.size))
pop_sreg(c, i) == PopToSreg(c, i, pop_peek_stack_value(c, i.size))

\* Takes the bytes and no address: the destination is computed after the stack is read.
decode_modrm_pop(c, e) == Operand(NoModrm, FALSE)
decode_pop_instruction(c, e) ==
  IF e.op = \h8F THEN Inst(c, e, BranchSize(c, e), Lock(e), decode_modrm_pop(c, e), e.reg # 0)
  ELSE Inst(c, e, BranchSize(c, e), Lock(e), NoModrm,
            c.long /\ ~e.two /\ PushPopSreg(e) # "none")
execute_pop(c, i) ==
  CASE i.e.op = \h8F         -> pop_rm(c, i)
    [] i.e.op \in \h58..\h5F -> pop_r(c, i)
    [] OTHER                 -> pop_sreg(c, i)

-----------------------------------------------------------------------------
(* PUSHF and POPF: the flags modelled are all writable.  In the scaled      *)
(* image they take seven bits, so that operands of 4 and 8 bytes hold it.   *)

FlagBit == [CF |-> 0, PF |-> 1, AF |-> 2, ZF |-> 3, SF |-> 4, DF |-> 5, OF |-> 6]
FlagsOf(v) == [n \in Flags |-> Bit(v, FlagBit[n])]

get_pushf_image(c, n) ==
  LET V(m) == IF c.f[m] THEN 2^FlagBit[m] ELSE 0
  IN (V("CF") + V("PF") + V("AF") + V("ZF") + V("SF") + V("DF") + V("OF")) % M(n)

write_popf_flags(c, v) == [c EXCEPT !.f = FlagsOf(v)]

decode_pushf_instruction(c, e) == Inst(c, e, BranchSize(c, e), Lock(e), NoModrm, FALSE)
PopFlags(p) == IF Ok(p.c) THEN write_popf_flags(p.c, p.v) ELSE p.c
execute_pushf(c, i) ==
  IF i.e.op = \h9C THEN push_value(c, i.size, get_pushf_image(c, i.size))
  ELSE PopFlags(pop_value(c, i.size))

-----------------------------------------------------------------------------
(* ENTER and LEAVE: e.imm bytes are allocated, e.level is the nesting       *)

decode_enter_stack_addr_size(c, e) ==
  LET flip == "67" \in e.pfx
  IN CASE c.long -> IF flip THEN 4 ELSE 8
       [] ~c.long /\ c.seg["ss"].d.db -> IF flip THEN 2 ELSE 4
       [] OTHER -> IF flip THEN 4 ELSE 2

\* rBP k frame slots down: what lies above the operand size stays.
enter_frame_address(c, i, k) ==
  LET rbp == c.r[RBP]  low == rbp % M(i.size)
  IN ((rbp - low) + ((low - k * i.size) % M(i.size))) % M(i.as)

decode_enter_instruction(c, e) ==
  [Inst(c, e, BranchSize(c, e), Lock(e), NoModrm, FALSE)
     EXCEPT !.as = decode_enter_stack_addr_size(c, e)]

execute_enter(c, i) ==
  LET n     == i.size
      level == i.e.level % 32
      read  == [k \in 1..(IF level > 1 THEN level - 1 ELSE 0) |-> enter_frame_address(c, i, k)]
      at    == Slots(c, i.as, n, IF level = 0 THEN 1 ELSE level + 1)
      ex    == First(<<SlotEx(i.as, n)>>
                     \o [k \in DOMAIN read |-> Fault(c, read[k], n, {"r", "rw"})]
                     \o <<SlotsEx(c, at, n)>>)
      vs    == <<c.r[RBP] % M(n)>> \o [k \in DOMAIN read |-> Load(c, read[k], n)]
               \o (IF level = 0 THEN <<>> ELSE <<at[1]>>)
  IN IF ex # "none" THEN Raise(c, ex)
     ELSE cpu_set_stack_pointer_value(
            set_reg(StoreSlots(c, at, n, vs), i.e.rex, RBP, n, at[1] % M(n)),
            i.as, at[Len(at)] - i.e.imm)

leave_get_frame_pointer_value(c, ss) == c.r[RBP] % M(ss)

decode_leave_instruction(c, e) ==
  [Inst(c, e, BranchSize(c, e), Lock(e), NoModrm, FALSE)
     EXCEPT !.as = decode_enter_stack_addr_size(c, e)]
execute_leave(c, i) ==
  LET a  == leave_get_frame_pointer_value(c, i.as)
      c1 == ReadEx(Raise(c, SlotEx(i.as, i.size)), a, i.size)
  IN IF ~Ok(c1) THEN c1
     ELSE set_reg(cpu_set_stack_pointer_value(c, i.as, cpu_stack_pointer_add(i.as, a, i.size)),
                  i.e.rex, RBP, i.size, Load(c, a, i.size))

-----------------------------------------------------------------------------
(* Far transfers                                                           *)

\* CALL and JMP stay within the privilege level.  A segment that is both 64-bit and 32-bit
\* code is refused, except by the direct far CALL.
FarEx(c, sel, direct) ==
  LET d == load_descriptor_from_table(sel)
  IN First(<<If(is_null_selector(sel), "GP"), DescriptorEx(sel),
             If(~is_code_segment(d.type) \/ (~direct /\ d.long /\ d.db), "GP"),
             If(IF is_conforming_code_segment(d.type) THEN d.dpl > c.cpl
                ELSE d.dpl # c.cpl \/ Rpl(sel) > c.cpl, "GP"),
             If(~d.present, "NP")>>)

\* CS keeps the privilege level, and the mode changes with it.
LoadCs(c, sel, rip) ==
  LET d == load_descriptor_from_table(sel)
  IN [c EXCEPT !.seg["cs"] = [sel |-> (sel - Rpl(sel)) + c.cpl, d |-> d],
               !.long = d.long, !.rip = rip]

\* The far pointer in memory: the offset, then the selector.
FarPointerEx(c, i) == ReadEx(ReadEx(c, i.addr, i.size), (i.addr + i.size) % M(8), 2)
FarPointer(c, i) == [off |-> Load(c, i.addr, i.size),
                     sel |-> Load(c, (i.addr + i.size) % M(8), 2)]

FarSize(c, e) == IF c.long THEN operand_size(e) ELSE BranchSize(c, e)

-----------------------------------------------------------------------------
(* CALL                                                                    *)

\* The target is checked, then the return address pushed.
GoTo(c, rip) == IF Ok(c) THEN [c EXCEPT !.rip = rip] ELSE c
NearCall(c, i, target) ==
  GoTo(push_value(Raise(c, cpu_validate_code_offset(c, target, i.size)), i.size,
                  NextRip(c, i.e)),
       cpu_mask_code_offset(target, i.size))

call_near_rel(c, i) == NearCall(c, i, NextRip(c, i.e) + i.e.rel)
call_near_abs(c, i) ==
  IF Ok(ReadRmEx(c, i)) THEN NearCall(c, i, ReadRm(c, i)) ELSE ReadRmEx(c, i)

\* 64-bit code pushes slots of 8 bytes whatever the size of the pointer.
FarGoTo(c, sel, off) == IF Ok(c) THEN LoadCs(c, sel, off) ELSE c
FarCall(c, i, sel, off, ex) ==
  IF ex # "none" THEN Raise(c, ex)
  ELSE FarGoTo(push_two_stack_values(c, c.seg["cs"].sel, NextRip(c, i.e),
                                     IF c.long THEN 8 ELSE i.size), sel, off)

call_far_mem(c, i) ==
  LET p    == FarPointer(c, i)
      long == load_descriptor_from_table(p.sel).long
      off  == IF long THEN p.off ELSE p.off % M(IF i.size = 2 THEN 2 ELSE 4)
      ex   == First(<<FarEx(c, p.sel, FALSE),
                      cpu_validate_code_offset(c, off, IF long THEN 8 ELSE i.size)>>)
  IN IF ~Ok(FarPointerEx(c, i)) THEN FarPointerEx(c, i) ELSE FarCall(c, i, p.sel, off, ex)

call_far_ptr(c, i) ==
  LET off == i.e.imm % M(i.size)
  IN FarCall(c, i, i.e.sel, off,
             First(<<FarEx(c, i.e.sel, TRUE), cpu_validate_code_offset(c, off, i.size)>>))

decode_modrm_call(c, e) == Modrm(c, e, FALSE)
decode_call_instruction(c, e) ==
  LET n == CASE e.op = \hFF /\ e.reg = 2 /\ c.long -> 8
             [] e.op = \hFF /\ e.reg = 3           -> FarSize(c, e)
             [] OTHER                              -> BranchSize(c, e)
  IN IF e.op = \hFF
     THEN Inst(c, e, n, Lock(e), decode_modrm_call(c, e),
               e.reg \notin {2, 3} \/ (e.reg = 3 /\ e.mod = 3))
     ELSE Inst(c, e, n, Lock(e), NoModrm, e.op = \h9A /\ c.long)
execute_call(c, i) ==
  CASE i.e.op = \hE8                  -> call_near_rel(c, i)
    [] i.e.op = \hFF /\ i.e.reg = 2   -> call_near_abs(c, i)
    [] i.e.op = \hFF /\ i.e.reg # 2   -> call_far_mem(c, i)
    [] OTHER                          -> call_far_ptr(c, i)

-----------------------------------------------------------------------------
(* RET far and IRET                                                        *)

decode_ret_far_operand_size(c, e) == BranchSize(c, e)

ret_far_adjust_stack(c, k) ==
  LET ss == cpu_stack_address_size(c)
  IN cpu_set_stack_pointer_value(c, ss, cpu_get_stack_pointer_value(c, ss) + k)

validate_ret_far_selector(c, sel) ==
  LET d == load_descriptor_from_table(sel)
  IN First(<<If(is_null_selector(sel), "GP"), DescriptorEx(sel),
             If(~is_code_segment(d.type) \/ (d.long /\ d.db) \/ Rpl(sel) # c.cpl, "GP"),
             If(IF is_conforming_code_segment(d.type) THEN d.dpl > c.cpl ELSE d.dpl # c.cpl, "GP"),
             If(~d.present, "NP")>>)

\* The size at which the popped offset is checked.
TargetSize(sel, n) == IF load_descriptor_from_table(sel).long THEN 8 ELSE n

FarReturnEx(c, p, n) ==
  LET sel == p.v[2] % M(2)
  IN First(<<p.ex, validate_ret_far_selector(c, sel),
             cpu_validate_code_offset(c, p.v[1], TargetSize(sel, n))>>)

decode_ret_instruction(c, e) ==
  [Inst(c, e, decode_ret_far_operand_size(c, e), Lock(e), NoModrm, FALSE)
     EXCEPT !.as = cpu_stack_address_size(c)]
RetFrom(c, i, p, ex) ==
  IF ex # "none" THEN Raise(c, ex)
  ELSE LoadCs(ret_far_adjust_stack(cpu_set_stack_pointer_value(c, i.as, p.sp),
                                   IF i.e.op = \hCA THEN i.e.imm ELSE 0),
              p.v[2] % M(2), cpu_mask_code_offset(p.v[1], i.size))
RetFrame(c, i, p) == RetFrom(c, i, p, FarReturnEx(c, p, i.size))
execute_ret(c, i) == RetFrame(c, i, peek_stack_values(c, i.size, 2))

\* A 64-bit target takes RSP and the selector of SS from the frame, which only a frame of
\* 8-byte slots has.
decode_iret_instruction(c, e) ==
  [Inst(c, e, decode_ret_far_operand_size(c, e), Lock(e), NoModrm, FALSE)
     EXCEPT !.as = cpu_stack_address_size(c)]
IretStack(c, i, p, to) ==
  IF to # 8 THEN cpu_set_stack_pointer_value(c, i.as, p.sp)
  ELSE [c EXCEPT !.r[RSP] = IF i.size = 8 THEN p.v[4] ELSE 0,
                 !.seg["ss"].sel = IF i.size = 8 THEN p.v[5] % M(2) ELSE 0]
IretTo(c, i, p, sel, to) ==
  IretStack([LoadCs(c, sel, cpu_mask_code_offset(p.v[1], to)) EXCEPT !.f = FlagsOf(p.v[3])],
            i, p, to)
IretFrom(c, i, p, sel, ex) ==
  IF ex # "none" THEN Raise(c, ex) ELSE IretTo(c, i, p, sel, TargetSize(sel, i.size))
IretFrame(c, i, p) == IretFrom(c, i, p, p.v[2] % M(2), FarReturnEx(c, p, i.size))
execute_iret(c, i) == IretFrame(c, i, peek_stack_values(c, i.size, IF i.size = 8 THEN 5 ELSE 3))

-----------------------------------------------------------------------------
(* JMP                                                                     *)

jmp_rel(c, i) == cpu_assign_rip_checked(c, NextRip(c, i.e) + i.e.rel, i.size)
jmp_abs(c, i) ==
  IF Ok(ReadRmEx(c, i)) THEN cpu_assign_rip_checked(c, ReadRm(c, i), i.size) ELSE ReadRmEx(c, i)
jmp_far(c, sel, off, n) ==
  LET rip == cpu_mask_code_offset(off, n)
      ex  == First(<<FarEx(c, sel, FALSE), cpu_validate_code_offset(c, rip, TargetSize(sel, n))>>)
  IN IF ex # "none" THEN Raise(c, ex) ELSE LoadCs(c, sel, rip)

decode_modrm_jmp(c, e) == Modrm(c, e, FALSE)
decode_jmp_instruction(c, e) ==
  LET n == CASE e.op = \hFF /\ e.reg = 4 /\ c.long -> 8
             [] e.op = \hFF /\ e.reg = 5           -> FarSize(c, e)
             [] OTHER                              -> BranchSize(c, e)
  IN IF e.op = \hFF
     THEN Inst(c, e, n, Lock(e), decode_modrm_jmp(c, e),
               e.reg \notin {4, 5} \/ (e.reg = 5 /\ e.mod = 3))
     ELSE Inst(c, e, n, Lock(e), NoModrm,
               c.long /\ (e.op = \hEA \/ (e.op = \hE9 /\ "66" \in e.pfx)))
execute_jmp(c, i) ==
  LET c1 == FarPointerEx(c, i)
      p  == FarPointer(c, i)
  IN CASE i.e.op \in {\hEB, \hE9}      -> jmp_rel(c, i)
       [] i.e.op = \hFF /\ i.e.reg = 4 -> jmp_abs(c, i)
       [] i.e.op = \hFF /\ i.e.reg # 4 -> IF Ok(c1) THEN jmp_far(c, p.sel, p.off, i.size) ELSE c1
       [] OTHER                        -> jmp_far(c, i.e.sel, i.e.imm, i.size)

-----------------------------------------------------------------------------
(* Jcc, LOOP and JCXZ                                                      *)

jcc_branch(c, i, taken) ==
  cpu_assign_rip_checked(c, NextRip(c, i.e) + (IF taken THEN i.e.rel ELSE 0), i.size)

execute_jcc_short(c, i) == jcc_branch(c, i, eval_condition(c, i.e.op % 16))
execute_jcc_near(c, i)  == jcc_branch(c, i, eval_condition(c, i.e.op % 16))
execute_jcxz(c, i)      == jcc_branch(c, i, c.r[RCX] % M(i.as) = 0)

\* What lies above the address size stays.
decrement_loop_count(c, as) ==
  [c EXCEPT !.r[RCX] = (@ - (@ % M(as))) + (((@ % M(as)) - 1) % M(as))]
execute_loopcc(c, i) ==
  LET c1 == decrement_loop_count(c, i.as)
  IN jcc_branch(c1, i, /\ c1.r[RCX] % M(i.as) # 0
                       /\ (i.e.op = \hE0 => ~c.f["ZF"])
                       /\ (i.e.op = \hE1 => c.f["ZF"]))

decode_jcc(c, e) ==
  Inst(c, e, IF c.long THEN 8 ELSE BranchSize(c, e), Lock(e), NoModrm,
       e.two /\ c.long /\ "66" \in e.pfx)
execute_jcc(c, i) ==
  CASE i.e.two            -> execute_jcc_near(c, i)
    [] ~i.e.two /\ i.e.op \in \h70..\h7F -> execute_jcc_short(c, i)
    [] i.e.op = \hE3      -> execute_jcxz(c, i)
    [] OTHER              -> execute_loopcc(c, i)

-----------------------------------------------------------------------------
(* The forms the executor inlines                                          *)

RetTo(p, n) == IF Ok(p.c) THEN cpu_assign_rip_checked(p.c, p.v, n) ELSE p.c
cpu_executor_inline_ret_no_imm(c, n) == RetTo(pop_value(c, n), n)

Released(c, imm) == IF Ok(c) THEN ret_far_adjust_stack(c, imm) ELSE c
cpu_executor_inline_ret_imm16(c, n, imm) == Released(cpu_executor_inline_ret_no_imm(c, n), imm)

InlineJcc(c, e, len) ==
  LET next == c.rip + len
  IN cpu_assign_rip_checked(c, next + (IF cpu_executor_eval_jcc_condition(c.f, e.op % 16)
                                       THEN e.rel ELSE 0), 8)
cpu_executor_inline_jcc_short_longmode(c, e) == InlineJcc(c, e, 2)
cpu_executor_inline_jcc_near_longmode(c, e)  == InlineJcc(c, e, 6)

=============================================================================
