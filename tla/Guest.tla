-------------------------------- MODULE Guest -------------------------------
(***************************************************************************)
(* Guest programs on the integer instruction set: what the decoder makes   *)
(* of an encoding (cpu/decoder.hpp), how the executor runs it, fresh or    *)
(* from the instruction cache, and what it rolls back (cpu/executor.hpp,   *)
(* cpu_step_dispatch_decoded), and a host that between two steps changes   *)
(* registers, segment bases and page rights through the API.               *)
(*                                                                         *)
(* The code does not change here; Engine is about code that does.  A       *)
(* program is a record: code (the encoding at each address), start (the    *)
(* context it begins in), changes (what the host may do: <<what, k, v>>),  *)
(* and the kind and arguments x, y, n and k of its computation.            *)
(***************************************************************************)
EXTENDS Control

CONSTANTS
  Programs,     \* a function from names to programs
  MaxChanges    \* bound on the host's changes

-----------------------------------------------------------------------------
(* The handler of an encoding                                              *)

AluName   == <<"add", "or", "adc", "sbb", "and", "sub", "xor", "cmp">>
ShiftName == <<"rol", "ror", "rcl", "rcr", "shl", "shr", "ud", "sar">>
Group3    == <<"test", "ud", "not", "neg", "mul", "imul", "div", "idiv">>
GroupFF   == <<"inc", "dec", "call", "call", "jmp", "jmp", "push", "ud">>

cpu_decoder_resolve_two_byte_misc(e) ==
  CASE e.op \in \h80..\h8F                    -> "jcc"
    [] e.op \in \h90..\h9F                    -> "setcc"
    [] e.op \in {\hA0, \hA8}                  -> "push"
    [] e.op \in {\hA1, \hA9}                  -> "pop"
    [] e.op = \hAF                            -> "imul"
    [] e.op \in {\hA4, \hA5}                  -> "shld"
    [] e.op \in {\hAC, \hAD}                  -> "shrd"
    [] e.op \in {\hBE, \hBF}                  -> "movsx"
    [] e.op \in {\hB6, \hB7}                  -> "movzx"
    [] e.op \in {\hA3, \hAB, \hB3, \hBB, \hBA} -> "bt"
    [] e.op \in {\hBC, \hBD}                  -> "bsf"
    [] e.op = \hB8                            -> "popcnt"
    [] e.op \in \hC8..\hCF                    -> "bswap"
    [] e.op \in {\hC0, \hC1}                  -> "xadd"
    [] OTHER                                  -> "ud"

\* Without the bytes of ModRM a group has no number and falls through to #UD.
GroupHandler(e) ==
  CASE e.cut                      -> "ud"
    [] e.op \in Group             -> AluName[e.reg + 1]
    [] e.op \in {\hC0, \hC1} \cup \hD0..\hD3 -> ShiftName[e.reg + 1]
    [] e.op \in {\hF6, \hF7}      -> Group3[e.reg + 1]
    [] e.op = \hFE                -> IF e.reg < 2 THEN GroupFF[e.reg + 1] ELSE "ud"
    [] OTHER                      -> GroupFF[e.reg + 1]

OneByteHandler(c, e) ==
  CASE e.op \in {\hCA, \hCB}             -> "ret"
    [] e.op \in {\hC2, \hC3}             -> "near_ret"
    [] e.op = \hCF                       -> "iret"
    [] e.op = \h99                       -> "cdq"
    [] e.op = \h98                       -> "cbw"
    [] e.op = \hC8                       -> "enter"
    [] e.op = \hC9                       -> "leave"
    [] e.op = \h90 /\ e.rex.b = 0        -> "nop"
    [] e.op \in \h91..\h97 \cup {\h86, \h87} \/ (e.op = \h90 /\ e.rex.b = 1) -> "xchg"
    [] e.op = \h63                       -> "movsxd"
    [] e.op = \h8D                       -> "lea"
    [] e.op \in \h88..\h8C \cup {\h8E, \hC6, \hC7} \cup \hA0..\hA3 \cup \hB0..\hBF -> "mov"
    [] e.op = \hD7                       -> "xlat"
    [] e.op \in {\hF5, \hF8, \hF9, \hFC, \hFD} -> "flags"
    [] e.op \in {\h9C, \h9D}             -> "pushf"
    [] e.op \in \h50..\h57 \cup {\h06, \h0E, \h16, \h1E, \h68, \h6A} -> "push"
    [] e.op \in \h58..\h5F \cup {\h07, \h17, \h1F, \h8F} -> "pop"
    [] e.op < \h40 /\ e.op % 8 < 6       -> AluName[e.op \div 8 + 1]
    [] e.op \in \h70..\h7F \cup \hE0..\hE3 -> "jcc"
    [] e.op \in {\hA8, \hA9, \h84, \h85} -> "test"
    [] e.op \in \h40..\h47 /\ ~c.long    -> "inc"
    [] e.op \in \h48..\h4F /\ ~c.long    -> "dec"
    [] e.op \in {\h69, \h6B}             -> "imul"
    [] e.op \in {\hE8, \h9A}             -> "call"
    [] e.op \in {\hEB, \hE9, \hEA}       -> "jmp"
    [] e.op \in Group \cup {\hC0, \hC1, \hF6, \hF7, \hFE, \hFF} \cup \hD0..\hD3 -> GroupHandler(e)
    [] OTHER                             -> "ud"

Handler(c, e) ==
  CASE e.vex.map # 0                           -> "bmi"
    [] e.vex.map = 0 /\ e.three                -> "movbe"
    [] e.vex.map = 0 /\ ~e.three /\ e.two      ->
         IF e.op \in \h40..\h4F THEN "cmovcc" ELSE cpu_decoder_resolve_two_byte_misc(e)
    [] OTHER                                   -> OneByteHandler(c, e)

decode_nop_instruction(c, e) == Inst(c, e, 4, FALSE, NoModrm, Lock(e))

Decode(h, c, e) ==
  CASE h = "add"    -> decode_add_instruction(c, e)
    [] h = "or"     -> decode_or_instruction(c, e)
    [] h = "adc"    -> decode_adc_instruction(c, e)
    [] h = "sbb"    -> decode_sbb_instruction(c, e)
    [] h = "and"    -> decode_and_instruction(c, e)
    [] h = "sub"    -> decode_sub_instruction(c, e)
    [] h = "xor"    -> decode_xor_instruction(c, e)
    [] h = "cmp"    -> decode_cmp_instruction(c, e)
    [] h = "test"   -> decode_test_instruction(c, e)
    [] h = "inc"    -> decode_inc_instruction(c, e)
    [] h = "dec"    -> decode_dec_instruction(c, e)
    [] h = "neg"    -> decode_neg_instruction(c, e)
    [] h = "not"    -> decode_not_instruction(c, e)
    [] h = "mul"    -> decode_mul_instruction(c, e)
    [] h = "imul"   -> decode_imul_instruction(c, e)
    [] h = "div"    -> decode_div_instruction(c, e)
    [] h = "idiv"   -> decode_idiv_instruction(c, e)
    [] h = "cbw"    -> decode_cbw_instruction(c, e)
    [] h = "cdq"    -> decode_cdq_instruction(c, e)
    [] h = "shl"    -> decode_shl_instruction(c, e)
    [] h = "shr"    -> decode_shr_instruction(c, e)
    [] h = "sar"    -> decode_sar_instruction(c, e)
    [] h = "rol"    -> decode_rol_instruction(c, e)
    [] h = "ror"    -> decode_ror_instruction(c, e)
    [] h = "rcl"    -> decode_rcl_instruction(c, e)
    [] h = "rcr"    -> decode_rcr_instruction(c, e)
    [] h \in {"shld", "shrd"} -> decode_shld_shrd_instruction(c, e)
    [] h = "mov"    -> decode_mov_instruction(c, e)
    [] h = "movzx"  -> decode_movzx_instruction(c, e)
    [] h = "movsx"  -> decode_movsx_instruction(c, e)
    [] h = "movsxd" -> decode_movsxd_instruction(c, e)
    [] h = "lea"    -> decode_lea_instruction(c, e)
    [] h = "xchg"   -> decode_xchg_instruction(c, e)
    [] h = "xadd"   -> decode_xadd_instruction(c, e)
    [] h = "xlat"   -> decode_xlat_instruction(c, e)
    [] h = "bswap"  -> decode_bswap_instruction(c, e)
    [] h = "movbe"  -> decode_movbe_instruction(c, e)
    [] h = "cmovcc" -> decode_cmovcc_instruction(c, e)
    [] h = "setcc"  -> decode_setcc_instruction(c, e)
    [] h = "flags"  -> decode_flags_instruction(c, e)
    [] h = "bt"     -> decode_bt_instruction(c, e)
    [] h = "bsf"    -> decode_bsf_instruction(c, e)
    [] h = "popcnt" -> decode_popcnt_instruction(c, e)
    [] h = "bmi"    -> decode_bmi_vex_modrm(c, e)
    [] h = "push"   -> decode_push_instruction(c, e)
    [] h = "pop"    -> decode_pop_instruction(c, e)
    [] h = "pushf"  -> decode_pushf_instruction(c, e)
    [] h = "enter"  -> decode_enter_instruction(c, e)
    [] h = "leave"  -> decode_leave_instruction(c, e)
    [] h = "call"   -> decode_call_instruction(c, e)
    [] h = "ret"    -> decode_ret_instruction(c, e)
    [] h = "iret"   -> decode_iret_instruction(c, e)
    [] h = "jmp"    -> decode_jmp_instruction(c, e)
    [] h = "jcc"    -> decode_jcc(c, e)
    [] OTHER        -> decode_nop_instruction(c, e)

Execute(h, c, i) ==
  CASE h = "add"    -> execute_add(c, i)
    [] h = "or"     -> execute_or(c, i)
    [] h = "adc"    -> execute_adc(c, i)
    [] h = "sbb"    -> execute_sbb(c, i)
    [] h = "and"    -> execute_and(c, i)
    [] h = "sub"    -> execute_sub(c, i)
    [] h = "xor"    -> execute_xor(c, i)
    [] h = "cmp"    -> execute_cmp(c, i)
    [] h = "test"   -> execute_test(c, i)
    [] h = "inc"    -> execute_inc(c, i)
    [] h = "dec"    -> execute_dec(c, i)
    [] h = "neg"    -> execute_neg(c, i)
    [] h = "not"    -> execute_not(c, i)
    [] h = "mul"    -> execute_mul(c, i)
    [] h = "imul"   -> execute_imul(c, i)
    [] h = "div"    -> execute_div(c, i)
    [] h = "idiv"   -> execute_idiv(c, i)
    [] h = "cbw"    -> execute_cbw(c, i)
    [] h = "cdq"    -> execute_cdq(c, i)
    [] h = "shl"    -> execute_shl(c, i)
    [] h = "shr"    -> execute_shr(c, i)
    [] h = "sar"    -> execute_sar(c, i)
    [] h = "rol"    -> execute_rol(c, i)
    [] h = "ror"    -> execute_ror(c, i)
    [] h = "rcl"    -> execute_rcl(c, i)
    [] h = "rcr"    -> execute_rcr(c, i)
    [] h = "shld"   -> execute_shld(c, i)
    [] h = "shrd"   -> execute_shrd(c, i)
    [] h = "mov"    -> execute_mov(c, i)
    [] h = "movzx"  -> execute_movzx(c, i)
    [] h = "movsx"  -> execute_movsx(c, i)
    [] h = "movsxd" -> execute_movsxd(c, i)
    [] h = "lea"    -> execute_lea(c, i)
    [] h = "xchg"   -> execute_xchg(c, i)
    [] h = "xadd"   -> execute_xadd(c, i)
    [] h = "xlat"   -> execute_xlat(c, i)
    [] h = "bswap"  -> execute_bswap(c, i)
    [] h = "movbe"  -> execute_movbe(c, i)
    [] h = "cmovcc" -> execute_cmovcc(c, i)
    [] h = "setcc"  -> execute_setcc(c, i)
    [] h = "flags"  -> execute_flags(c, i)
    [] h = "bt"     -> execute_bt(c, i)
    [] h = "bsf"    -> execute_bsf(c, i)
    [] h = "popcnt" -> execute_popcnt(c, i)
    [] h = "push"   -> execute_push(c, i)
    [] h = "pop"    -> execute_pop(c, i)
    [] h = "pushf"  -> execute_pushf(c, i)
    [] h = "enter"  -> execute_enter(c, i)
    [] h = "leave"  -> execute_leave(c, i)
    [] h = "call"   -> execute_call(c, i)
    [] h = "ret"    -> execute_ret(c, i)
    [] h = "iret"   -> execute_iret(c, i)
    [] h = "jmp"    -> execute_jmp(c, i)
    [] h = "jcc"    -> execute_jcc(c, i)
    [] h = "bmi"    -> try_execute_bmi_vex(c, i)
    [] OTHER        -> c

-----------------------------------------------------------------------------
(* What the decoder stamps on the entry                                    *)

is_branch_opcode(e) ==
  \/ e.two /\ e.op \in \h80..\h8F
  \/ ~e.two /\ e.op \in \h70..\h7F \cup \hE0..\hE3 \cup {\hE8, \hE9, \hEA, \hEB, \h9A}
                       \cup {\hC2, \hC3, \hCA, \hCB, \hCF}
  \/ ~e.two /\ e.op = \hFF /\ e.reg \in 2..5

\* The mod field one byte after the opcode's first: of a 0F opcode that byte is the opcode.
PeekMod(e) == IF e.two THEN e.op \div 64 ELSE e.mod

cpu_decoder_classify_no_fault_Memory(e) ==  \* mutant: 80, 81 and 83 on memory too
  ~Lock(e) /\ ~e.two /\ e.op \in Group

\* Opcodes after which the executor keeps no snapshot.  The tests on the low byte of the
\* opcode meet 0F opcodes too, among them XADD with a memory operand.
cpu_decoder_classify_no_fault(e) ==
  /\ ~Lock(e)
  /\ ~("66" \in e.pfx /\ (IF e.two THEN e.op \in \h80..\h8F ELSE e.op = \hE9))
  /\ ~e.three /\ e.vex.map = 0
  /\ \/ ~e.two /\ e.op \in \h40..\h4F \cup \hB0..\hBF
     \/ ~e.two /\ e.op \in Group /\ e.mod = 3
     \/ e.op < \h40 /\ e.op % 8 \in {4, 5}
     \/ e.op < \h40 /\ e.op % 8 < 4 /\ PeekMod(e) = 3
     \/ e.op \in \h84..\h8B /\ PeekMod(e) = 3
     \/ e.op = \h8D
     \/ e.op \in {\hC0, \hC1} \cup \hD0..\hD3 /\ PeekMod(e) = 3
     \/ e.op \in {\hF6, \hF7} /\ e.reg <= 5 /\ PeekMod(e) = 3
     \/ e.op \in {\hFE, \hFF} /\ e.reg <= 1 /\ PeekMod(e) = 3
     \/ e.two /\ e.op \in \h40..\h4F \cup \h90..\h9F /\ e.mod = 3
     \/ e.two /\ e.op \in {\hB6, \hB7, \hBE, \hBF, \hBC, \hBD, \hB8} /\ e.mod = 3
     \/ e.two /\ e.op \in \hC8..\hCF
     \/ ~e.two /\ e.op \in {\h90, \hF5, \hF8, \hF9, \hFC, \hFD}

\* Families whose fast handler computes the address again, and those whose does not.
Recompute == {"mov", "add", "sub", "cmp", "test", "and", "or", "xor", "shld", "shrd", "xchg",
              "movsx", "movzx", "movsxd", "cmovcc", "xadd"}
Once == {"inc", "dec", "push", "pop", "jmp", "call", "shl", "shr", "sar", "rol", "ror", "rcl",
         "rcr", "adc", "sbb", "neg", "not", "nop", "mul", "imul", "div", "idiv", "setcc", "cdq",
         "cbw", "leave", "flags", "bswap", "pushf", "bt", "bsf", "popcnt", "enter",
         "xlat"}

cpu_decoder_dec_inst_safe_to_replay_Always(i) == TRUE  \* mutant: memory forms too

cpu_decoder_dec_inst_safe_to_replay(i) == ~i.modrm \/ i.e.mod = 3
cpu_decoder_dec_inst_safe_to_replay_recompute_addr(i) == TRUE

\* What the probe raised only keeps the fast handler away.
cpu_decoder_try_attach_fast_handler(h, i) ==
  /\ i.ex = "none"
  /\ \/ h \in Recompute /\ cpu_decoder_dec_inst_safe_to_replay_recompute_addr(i)
     \/ h \in Once /\ cpu_decoder_dec_inst_safe_to_replay(i)

\* Jcc without a prefix in 64-bit code.
InlineJccShape(c, e) == /\ c.long /\ e.pfx = {} /\ ~e.rex.p /\ e.seg = "none" /\ ~e.cut
                        /\ e.vex.map = 0 /\ ~e.three
                        /\ IF e.two THEN e.op \in \h80..\h8F ELSE e.op \in \h70..\h7F

NoEntry == [kind |-> "none"]

\* The probe decodes before cpu_step_dispatch_decoded has put the segment override into the
\* context: an address or a segment fixed at decoding is that of the default segment.
Probe(h, c, e) == Decode(h, c, [e EXCEPT !.seg = "none"])

EntryKind(c, e, h) == CASE h = "near_ret" -> IF e.op = \hC2 /\ e.cut THEN "ud" ELSE "ret"
                        [] h = "ud"       -> "ud"
                        [] InlineJccShape(c, e) -> "inline_jcc"
                        [] OTHER          -> "handler"

Stamped(c, e, h, kind, i) ==
  [kind |-> kind, e |-> e, h |-> h, i |-> i, long |-> c.long, size |-> BranchSize(c, e),
   branch |-> is_branch_opcode(e),
   no_fault |-> kind = "handler" /\ cpu_decoder_classify_no_fault(e),
   fast |-> kind = "handler" /\ cpu_decoder_try_attach_fast_handler(h, i)]

cpu_decode_instruction(c, e) ==
  LET h == Handler(c, e) IN Stamped(c, e, h, EntryKind(c, e, h), Probe(h, c, e))

-----------------------------------------------------------------------------
(* Execution                                                               *)

\* execute_*_fast: the decoded instruction as it was, its address computed again by the
\* families that do so.
FastAddress(c, d) ==
  IF d.h \in Recompute /\ d.i.modrm /\ d.e.mod # 3
  THEN get_effective_address(c, d.e, d.i.as, d.e.len)
  ELSE [addr |-> d.i.addr, ex |-> "none"]
RunAt(c, d, a) == Execute(d.h, Raise(c, a.ex), [d.i EXCEPT !.addr = a.addr])
RunFast(c, d)  == RunAt(c, d, FastAddress(c, d))

\* execute_*: decode, and execute unless that raised.
RunDecoded(c, h, i)  == IF i.ex # "none" THEN Raise(c, i.ex) ELSE Execute(h, c, i)
RunHandler(c, h, e)  == RunDecoded(c, h, Decode(h, c, e))

RunNearRet(c, e, n) == IF e.op = \hC3 THEN cpu_executor_inline_ret_no_imm(c, n)
                       ELSE cpu_executor_inline_ret_imm16(c, n, e.imm)

\* Registers, flags, segments and rip go back to the snapshot; what was stored stays.
Finish(c, c1, branch, len, no_fault) ==
  CASE Ok(c1) -> IF branch THEN c1 ELSE [c1 EXCEPT !.rip = (c.rip + len) % M(8)]
    [] ~Ok(c1) /\ no_fault -> c1
    [] OTHER -> [c EXCEPT !.mem = c1.mem, !.ex = c1.ex]

cpu_step_dispatch_decoded(c, d) ==
  Finish(c, CASE d.kind = "ud"         -> Raise(c, "UD")
              [] d.kind = "ret"        -> RunNearRet(c, d.e, d.size)
              [] d.kind = "inline_jcc" -> IF d.e.two
                                          THEN cpu_executor_inline_jcc_near_longmode(c, d.e)
                                          ELSE cpu_executor_inline_jcc_short_longmode(c, d.e)
              [] OTHER -> IF d.fast THEN RunFast(c, d) ELSE RunHandler(c, d.h, d.e),
         d.branch, d.e.len, d.no_fault)

-----------------------------------------------------------------------------
(* The state machine                                                       *)

VARIABLES
  prog,      \* name of the program that runs
  c,         \* the context
  icache,    \* the entry of each code address
  changes    \* changes the host has made

vars == <<prog, c, icache, changes>>

P    == Programs[prog]
code == P.code

Init ==
  /\ prog \in DOMAIN Programs
  /\ c = P.start
  /\ icache = [a \in DOMAIN code |-> NoEntry]
  /\ changes = 0

\* The entry must be of the mode bits of CS; the width of SS is not among them.
Lookup ==
  LET hit == icache[c.rip]
  IN IF hit.kind # "none" /\ hit.long = c.long THEN hit
     ELSE cpu_decode_instruction(c, code[c.rip])

Step ==
  /\ Ok(c) /\ c.rip \in DOMAIN icache
  /\ \E d \in {Lookup} : /\ c' = cpu_step_dispatch_decoded(c, d)
                         /\ icache' = [icache EXCEPT ![c.rip] = d]
  /\ UNCHANGED <<prog, changes>>

\* cpueaxh_reg_write of a register or a segment base, then cpueaxh_emu_start, which clears
\* the exception.
RegWrite(ch) ==
  /\ ch[1] \in {"reg", "base"}
  /\ c' = IF ch[1] = "reg" THEN [c EXCEPT !.r[ch[2]] = ch[3], !.ex = "none"]
          ELSE [c EXCEPT !.seg[ch[2]].d.base = ch[3], !.ex = "none"]
  /\ UNCHANGED icache

\* cpueaxh_mem_protect: the code version moves, so no entry is current any more.
MemProtect(ch) ==
  /\ ch[1] = "perm"
  /\ c' = [c EXCEPT !.perm = [a \in DOMAIN c.perm |-> IF a \in ch[2] THEN ch[3] ELSE c.perm[a]],
                    !.ex = "none"]
  /\ icache' = [a \in DOMAIN icache |-> NoEntry]

Host ==
  /\ changes < MaxChanges /\ changes' = changes + 1
  /\ c.rip \in DOMAIN icache
  /\ \E ch \in P.changes : RegWrite(ch) \/ MemProtect(ch)
  /\ UNCHANGED prog

Next == Step \/ Host

Spec == Init /\ [][Next]_vars

-----------------------------------------------------------------------------
(* Properties.  A program has finished when it has run off its code, or has *)
(* an exception that the host has no change left for.                       *)

Finished(p) == \/ c.rip \notin DOMAIN icache
               \/ ~Ok(c) /\ (changes = MaxChanges \/ p.changes = {})
Of(p, kind) == Finished(p) /\ p.kind = kind
Reg(k, n)   == c.r[k] % M(n)
Abs(v)   == IF v < 0 THEN -v ELSE v

\* add.hpp, adc.hpp, sub.hpp, sbb.hpp, inc.hpp, calc.hpp: a sum or a difference of two
\* two-word numbers, low words first, is exact, with the carry and the overflow of the
\* whole, though an INC or DEC comes between the words.  mul.hpp, imul.hpp: CF says
\* whether the product needs the high half, and the forms with two and three operands
\* agree with its low half.  div.hpp, idiv.hpp: quotient and remainder
\* satisfy q * d + r = x with r of the dividend's sign, and #DE is raised exactly if the
\* quotient does not fit; then nothing has changed.
ArithmeticExact == \A p \in {P} :
  LET n  == p.n
      xl == p.x[1]  xh == p.x[2]  yl == p.y[1]  yh == p.y[2]
      carry  == Num(xl + yl >= M(n))
      borrow == Num(xl < yl)
      Pair == IF n = 1 THEN c.r[RAX] % M(2) ELSE Reg(RAX, n) + M(n) * Reg(RDX, n)
      Quotient(x, d, q, r) == /\ q * d + r = x
                              /\ Abs(r) < Abs(d)
                              /\ r # 0 => (r < 0) = (x < 0)
      q == IF n = 1 THEN c.r[RAX] % M(1) ELSE Reg(RAX, n)
      r == IF n = 1 THEN ByteOf(c.r[RAX], 1) ELSE Reg(RDX, n)
      NoQuotient == c = [p.start EXCEPT !.ex = "DE", !.rip = c.rip]
  IN /\ Of(p, "add") => /\ Ok(c) /\ Reg(RAX, n) = (xl + yl) % M(n)
                        /\ Reg(RDX, n) = (xh + yh + carry) % M(n)
                        /\ c.f["CF"] = (xh + yh + carry >= M(n))
                        /\ c.f["OF"] = ~Fits(Signed(xh, n) + Signed(yh, n) + carry, n)
     /\ Of(p, "sub") => /\ Ok(c) /\ Reg(RAX, n) = (xl - yl) % M(n)
                        /\ Reg(RDX, n) = (xh - yh - borrow) % M(n)
                        /\ c.f["CF"] = (xh < yh + borrow)
                        /\ c.f["OF"] = ~Fits(Signed(xh, n) - Signed(yh, n) - borrow, n)
     /\ Of(p, "mul") => /\ Ok(c) /\ Pair = p.x * p.y
                        /\ c.f["CF"] = (p.x * p.y >= M(n)) /\ c.f["OF"] = c.f["CF"]
     /\ Of(p, "imul") => /\ Ok(c) /\ Pair = (Signed(p.x, n) * Signed(p.y, n)) % (M(n) * M(n))
                         /\ c.f["CF"] = ~Fits(Signed(p.x, n) * Signed(p.y, n), n)
                         /\ c.f["OF"] = c.f["CF"]
                         /\ n > 1 => Reg(RBX, n) = Reg(RAX, n) /\ Reg(RSI, n) = Reg(RAX, n)
     /\ Of(p, "div") => IF Ok(c) THEN Quotient(p.x, p.y, q, r)
                     ELSE NoQuotient /\ (p.y = 0 \/ p.x >= p.y * M(n))
     /\ Of(p, "idiv") =>
          LET x == IF p.x >= M(n) * Sign(n) THEN p.x - M(n) * M(n) ELSE p.x
              d == Signed(p.y, n)
          IN IF Ok(c) THEN Quotient(x, d, Signed(q, n), Signed(r, n))
             ELSE NoQuotient /\ (d = 0 \/ ~\E v \in -Sign(n)..Sign(n)-1 :
                                               Quotient(x, d, v, x - v * d))

\* cmp.hpp, setcc.hpp, cmovcc.hpp, jcc.hpp, executor.hpp: after CMP x, y the condition k
\* of SETcc, of CMOVcc and of Jcc, inlined or not, all say what its name says of x and y.
\* SETcc leaves its answer in BL, CMOVcc in SI, and a branch not taken passes INC DI.
ConditionsAgree == \A p \in {P} :
  Of(p, "cmp") => LET t == Compares(p.k, p.x, p.y, p.n)
               IN /\ Ok(c)
                  /\ c.r[RBX] % M(1) = Num(t)
                  /\ c.r[RSI] = IF t THEN p.y ELSE 0
                  /\ c.r[RDI] = p.y + Num(~t)

\* rol.hpp to rcr.hpp: a rotate moves the bits of the operand, with CF as one more for
\* RCL and RCR, k places round, for every count above the width too, and CF is the bit
\* that came round last.  shld.hpp, shl.hpp, shr.hpp, sar.hpp: SHLD and SHL, or SHRD and
\* SHR or SAR, shift a two-word number.  bmi.hpp: the flagless shifts agree with those.
ShiftsExact == \A p \in {P} :
  LET n  == p.n
      k  == p.k % (IF n = 8 THEN 8 * B ELSE 4 * B)
      top == B * n
      wide == p.x[1] + M(n) * p.x[2]
      Pair == Reg(RAX, n) + M(n) * Reg(RDX, n)
  IN /\ Of(p, "rotate") =>
          LET w == top + Num(p.y.through)
              Src(j) == IF j = top THEN p.start.f["CF"] ELSE Bit(p.x, j)
              Dst(j) == IF j = top THEN c.f["CF"] ELSE Bit(Reg(RAX, n), j)
          IN /\ Ok(c)
             /\ \A j \in 0..w-1 : Dst((IF p.y.left THEN j + k ELSE j - k) % w) = Src(j)
             /\ ~p.y.through /\ k % w # 0 =>
                  c.f["CF"] = Bit(Reg(RAX, n), IF p.y.left THEN 0 ELSE top - 1)
     /\ Of(p, "shift") =>
          Ok(c) /\ Pair = CASE p.y = "shl" -> (wide * 2^k) % (M(n) * M(n))
                            [] p.y = "shr" -> wide \div 2^k
                            [] OTHER -> ((IF wide >= M(n) * Sign(n) THEN wide - M(n) * M(n)
                                          ELSE wide) \div 2^k) % (M(n) * M(n))
     /\ Of(p, "flagless") => Ok(c) /\ Reg(RBX, n) = Reg(RAX, n)

\* bt.hpp: BT and its relatives see memory as one string of bits around the operand, below
\* it too, change at most the bit addressed, and CF is what it was.  bsf.hpp, popcnt.hpp,
\* bmi.hpp: the scans, the counts and BLSI and BLSR agree about the same word, 0 included;
\* PDEP puts back what PEXT took.  bswap.hpp, movbe.hpp: MOVBE stores what BSWAP undoes.
\* movsx.hpp, cbw.hpp, movsxd.hpp: the sign extensions agree.  lea.hpp: LEA computes the
\* address its operand accesses.
BitsExact == \A p \in {P} :
  LET top == B * p.n  x == p.x  at == c.r[RBX]  hi == c.r[RCX]
  IN /\ Of(p, "bt") =>
          /\ Ok(c)
          /\ \A a \in DOMAIN c.mem, b \in 0..B-1 :
               LET old  == Bit(p.start.mem[a], b)
                   here == B * a + b = B * x + p.k
               IN /\ here => c.f["CF"] = old
                  /\ Bit(c.mem[a], b) = IF ~here \/ p.y = "BT" THEN old
                                        ELSE p.y = "BTS" \/ (p.y = "BTC" /\ ~old)
     /\ Of(p, "scan") =>
          /\ Ok(c) /\ c.r[RDI] = Ones(x)
          /\ x = 0 => /\ at = p.start.r[RBX] /\ hi = p.start.r[RCX]
                      /\ c.r[RDX] = top /\ c.r[RSI] = top /\ c.r[RBP] = 0 /\ c.r[8] = 0
          /\ x # 0 => /\ Bit(x, at) /\ x % 2^at = 0 /\ c.r[RDX] = at
                      /\ Bit(x, hi) /\ x < 2^(hi + 1) /\ c.r[RSI] = top - 1 - hi
                      /\ c.r[RBP] = 2^at /\ c.r[8] = x - 2^at
     /\ Of(p, "gather") => Ok(c) /\ at < 2^Ones(p.y) /\ c.r[RDX] = x & p.y
     /\ Of(p, "swap")   => Ok(c) /\ at = x
     /\ Of(p, "extend") => /\ Ok(c) /\ Signed(at, 8) = Signed(x, 1) /\ hi = x
                           /\ c.r[RAX] = at /\ c.r[RDX] = at
     /\ Of(p, "lea")    => Ok(c) /\ hi % M(1) = x

\* push.hpp, pop.hpp, call.hpp, ret.hpp, enter.hpp, leave.hpp, pushf.hpp, helper.hpp: what
\* a balanced sequence of pushes and pops, calls and returns, frames and flags leaves is
\* the stack pointer, the frame pointer, the code segment, the registers and flags it
\* saved and every byte at or above the stack pointer of the start, also when an access of
\* it faulted, the host repaired the page and the instruction was executed again.
StackDiscipline == \A p \in {P} :
  Of(p, "stack") =>
    /\ Ok(c) /\ c.rip = p.y
    /\ \A k \in p.x \cup {RSP, RBP} : c.r[k] = p.start.r[k]
    /\ c.long = p.start.long /\ c.seg["cs"] = p.start.seg["cs"]
    /\ c.f = p.start.f
    /\ \A a \in DOMAIN c.mem : a >= p.start.r[RSP] => c.mem[a] = p.start.mem[a]

\* executor.hpp, cpu_step_dispatch_decoded; decoder.hpp, cpu_decoder_classify_no_fault: an
\* instruction that raises an exception has changed no register, no flag, no segment, not
\* rip, and no byte of memory, which no snapshot covers.
FaultsLeaveNothing == [][Ok(c) /\ ~Ok(c') => c' = [c EXCEPT !.ex = c'.ex]]_vars

\* The instruction decoded anew and run by its full handler, under a snapshot.
Fresh(x, e) ==
  LET h == Handler(x, e)
  IN Finish(x, CASE h = "ud"       -> Raise(x, "UD")
                 [] h = "near_ret" -> RunNearRet(x, e, BranchSize(x, e))
                 [] OTHER          -> RunHandler(x, h, e), is_branch_opcode(e), e.len, FALSE)

\* decoder.hpp, cpu_decoder_try_attach_fast_handler; executor.hpp: an entry of the
\* instruction cache, with its fast handler, its inlined branch and its missing snapshot,
\* does exactly what decoding the bytes again would do, whatever registers, segment bases,
\* page rights and modes have become since.
ReplayMatchesFresh == [][changes' = changes => c' = Fresh(c, code[c.rip])]_vars

=============================================================================
