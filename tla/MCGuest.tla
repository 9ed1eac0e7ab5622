------------------------------ MODULE MCGuest -------------------------------
(***************************************************************************)
(* Programs for Guest: small computations over all operands of a byte and  *)
(* the edges of the wider words, stack disciplines, and loops whose        *)
(* operands the host moves.  The form of an instruction (register, memory, *)
(* immediate, accumulator, LOCK, inlined or not) varies with the operands. *)
(***************************************************************************)
EXTENDS Guest, TLC

-----------------------------------------------------------------------------
(* An assembler.  The length of an encoding is 2 unless it matters.         *)

Enc == [pfx |-> {}, rex |-> [p |-> FALSE, w |-> 0, r |-> 0, x |-> 0, b |-> 0], seg |-> "none",
        two |-> FALSE, three |-> FALSE, op |-> 0, mod |-> 3, reg |-> 0, rm |-> 0,
        scale |-> 0, index |-> 4, base |-> 0, disp |-> 0, imm |-> 0, len |-> 2, cut |-> FALSE,
        vex |-> [map |-> 0, pp |-> 0, l |-> 0, v |-> 0], rel |-> 0, sel |-> 0, level |-> 0]

Op(op)     == [Enc EXCEPT !.op = op]
Op2(op)    == [Op(op) EXCEPT !.two = TRUE]
Pfx(e, p)  == [e EXCEPT !.pfx = @ \cup {p}]
Size(e, n) == CASE n = 8 -> [e EXCEPT !.rex.w = 1, !.rex.p = TRUE]
                [] n = 2 -> Pfx(e, "66")
                [] OTHER -> e
Sized(op, n)  == IF n = 1 THEN Op(op) ELSE Size(Op(op + 1), n)
Imm8(e, v) == [e EXCEPT !.imm = v]
\* reg and rm as registers; rm as memory at base + disp.
RR(e, reg, rm) == [e EXCEPT !.reg = reg % 8, !.rex.r = reg \div 8, !.rm = rm % 8,
                            !.rex.b = rm \div 8, !.rex.p = @ \/ reg > 7 \/ rm > 7]
RM(e, reg, base, disp) == [RR(e, reg, base) EXCEPT !.mod = 1, !.base = base % 8, !.disp = disp]
Rel(e, d)  == [e EXCEPT !.rel = d]
Vex(map, pp, op, reg, v, rm, n) ==
  [Size(RR(Op(op), reg, rm), n) EXCEPT !.vex = [map |-> map, pp |-> pp, l |-> 0, v |-> v]]

Inc(k)  == Size(RR(Op(\hFF), 0, k), 8)
Mov(to, from) == Size(RR(Op(\h89), from, to), 8)
Push(k) == [Op(\h50 + (k % 8)) EXCEPT !.rex.b = k \div 8]
Pop(k)  == [Op(\h58 + (k % 8)) EXCEPT !.rex.b = k \div 8]

Entry == 100
Asm(s) ==
  LET At[k \in 1..Len(s)+1] == IF k = 1 THEN Entry ELSE At[k - 1] + s[k - 1].len
  IN [a \in {At[k] : k \in DOMAIN s} |-> s[CHOOSE k \in DOMAIN s : At[k] = a]]

-----------------------------------------------------------------------------
(* Contexts: data at 16 to 31, which may be written, and 32 to 39, which    *)
(* may only be read                                                         *)

Code64 == [base |-> 0, type |-> "code", dpl |-> 3, present |-> TRUE, long |-> TRUE, db |-> FALSE]
Code32 == [Code64 EXCEPT !.long = FALSE, !.db = TRUE]
Data   == [Code64 EXCEPT !.type = "data", !.long = FALSE, !.db = TRUE]
MCDescriptors == <<Code64, Code32, Data>>
Sel(k) == 4 * k + 3

Seg(k) == [sel |-> Sel(k), d |-> MCDescriptors[k]]
Cells  == 16..39
Memory == [a \in Cells |-> (a + a \div 4) % 4]
Put(m, a, n, v) == [x \in DOMAIN m |-> IF x \in a..a+n-1 THEN ByteOf(v, x - a) ELSE m[x]]
NoFlags == [f \in Flags |-> FALSE]

\* RSP is at the top of the writable cells and R9 points at cell 20.
Start(regs) ==
  [r |-> [k \in 0..15 |-> IF k \in DOMAIN regs THEN regs[k]
                          ELSE IF k = RSP THEN 32 ELSE IF k = 9 THEN 20 ELSE 0],
   f |-> NoFlags, mem |-> Memory, perm |-> [a \in Cells |-> IF a < 32 THEN "rw" ELSE "r"],
   seg |-> [s \in Segments |-> IF s = "cs" THEN Seg(1) ELSE Seg(3)],
   ex |-> "none", rip |-> Entry, long |-> TRUE, cpl |-> 3]

Prog(s, start, kind, x, y, n, k) ==
  [code |-> Asm(s), start |-> start, changes |-> {}, kind |-> kind,
   x |-> x, y |-> y, n |-> n, k |-> k]

-----------------------------------------------------------------------------
(* Arithmetic                                                              *)

\* Two-word sums and differences: the low word in the accumulator, in memory or immediate.
TwoWord(kind, x, y, n) ==
  LET b    == IF kind = "add" THEN \h00 ELSE \h28
      bc   == IF kind = "add" THEN \h10 ELSE \h18
      ext  == b \div 8
      form == (x[1] + y[1]) % 5
      imm  == y[1] < Sign(4) \/ n # 8
      low  == CASE form = 0 -> <<RR(Sized(b, n), RCX, RAX)>>
                [] form = 1 -> <<RR(Sized(b + 2, n), RAX, RCX)>>
                [] form = 2 /\ imm -> <<Imm8(Sized(b + 4, n), y[1])>>
                [] form = 3 /\ imm -> <<Imm8(RR(Sized(\h80, n), ext, RAX), y[1])>>
                [] OTHER -> <<Pfx(RM(Sized(b, n), RCX, 9, 0), "F0"),
                              RM(Sized(\h8A, n), RAX, 9, 0)>>
      high == IF form % 2 = 0 THEN RR(Sized(bc, n), RBX, RDX) ELSE RR(Sized(bc + 2, n), RDX, RBX)
      start == Start(RAX :> x[1] @@ RDX :> x[2] @@ RCX :> y[1] @@ RBX :> y[2])
  IN Prog(low \o <<Inc(RDI), high>>, [start EXCEPT !.mem = Put(@, 20, n, x[1])],
          kind, x, y, n, 0)

Product1(kind, x, y, n) ==
  LET f  == RR(Sized(\hF6, n), IF kind = "mul" THEN 4 ELSE 5, RCX)
      by == IF n = 1 \/ kind = "mul" THEN <<>>
            ELSE <<Size(RR(Op2(\hAF), RBX, RCX), n), Imm8(Size(RR(Op(\h69), RSI, RCX), n), x)>>
  IN Prog(Append(by, f), Start(RAX :> x @@ RBX :> x @@ RCX :> y), kind, x, y, n, 0)

\* The divisor in RCX or in memory.
Quotient1(kind, x, y, n) ==
  LET ext == IF kind = "div" THEN 6 ELSE 7
      f   == IF x % 2 = 0 THEN RR(Sized(\hF6, n), ext, RCX) ELSE RM(Sized(\hF6, n), ext, 9, 0)
      st  == Start(RAX :> (IF n = 1 THEN x ELSE x % M(n)) @@ RCX :> y
                   @@ RDX :> (IF n = 1 THEN 0 ELSE x \div M(n)))
  IN Prog(<<f>>, [st EXCEPT !.mem = Put(@, 20, n, y)], kind, x, y, n, 0)

Arithmetic ==
  [k \in {"add", "sub"} \X {1, 2, 8} \X (0..3) \X (0..3) \X (0..3) \X (0..3) |->
     LET V(j) == CASE j = 0 -> 0 [] j = 1 -> Sign(k[2]) - 1 [] j = 2 -> Sign(k[2])
                   [] OTHER -> M(k[2]) - 1
     IN TwoWord(k[1], <<V(k[3]), V(k[4])>>, <<V(k[5]), V(k[6])>>, k[2])]
  @@ [k \in {"mul", "imul"} \X {1} \X (0..3) \X (0..3) |-> Product1(k[1], k[3], k[4], 1)]
  @@ [k \in {"mul", "imul"} \X {2} \X (0..15) \X (0..15) |-> Product1(k[1], k[3], k[4], 2)]
  @@ [k \in {"div", "idiv"} \X {1} \X (0..15) \X (0..3) |-> Quotient1(k[1], k[3], k[4], 1)]
  @@ [k \in {"div", "idiv"} \X {2} \X (0..255) \X {0, 1, 2, 7, 8, 9, 15} |-> Quotient1(k[1], k[3], k[4], 2)]
  @@ [k \in {"div", "idiv"} \X {4} \X {0, 255, 256, 16384, 32767, 32768, 32769, 49152, 65535}
            \X {0, 1, 127, 128, 129, 255} |-> Quotient1(k[1], k[3], k[4], 4)]

-----------------------------------------------------------------------------
(* Conditions: Jcc inlined short, inlined near, or by its handler           *)

Condition(x, y, n, k) ==
  LET form == (x + y + k) % 4
      cmp == CASE form = 0 -> RR(Sized(\h38, n), RCX, RAX)
               [] form = 1 -> RR(Sized(\h3A, n), RAX, RCX)
               [] form = 2 -> Imm8(Sized(\h3C, n), y)
               [] OTHER    -> Imm8(RR(Sized(\h80, n), 7, RAX), y)
      jcc == CASE (x + k) % 3 = 0 -> Rel(Op(\h70 + k), 2)
               [] (x + k) % 3 = 1 -> [Rel(Op2(\h80 + k), 2) EXCEPT !.len = 6]
               [] OTHER           -> Pfx(Rel(Op(\h70 + k), 2), "F2")
  IN Prog(<<cmp, RR(Op2(\h90 + k), 0, RBX), Size(RR(Op2(\h40 + k), RSI, RDI), 8), jcc, Inc(RDI)>>,
          Start(RAX :> x @@ RCX :> y @@ RDI :> y), "cmp", x, y, n, k)

Conditions ==
  [k \in {"cmp"} \X {1} \X (0..3) \X (0..3) \X (0..15) |-> Condition(k[3], k[4], k[2], k[5])]
  @@ [k \in {"cmp"} \X {2} \X {0, 7, 8, 15} \X {0, 7, 8, 15} \X (0..15) |->
        Condition(k[3], k[4], k[2], k[5])]

-----------------------------------------------------------------------------
(* Shifts and rotates: by 1, by CL or by an immediate                       *)

By(e, k) == CASE k = 1 -> [e EXCEPT !.op = @ + 16]
              [] k % 2 = 0 -> [e EXCEPT !.op = @ + 18]
              [] OTHER -> Imm8(e, k)

Rotate(x, n, k, through, left, cf) ==
  LET ext == (IF through THEN 2 ELSE 0) + (IF left THEN 0 ELSE 1)
      s   == Start(RAX :> x @@ RCX :> k)
  IN Prog(<<By(RR(Sized(\hC0, n), ext, RAX), k)>>, [s EXCEPT !.f["CF"] = cf],
          "rotate", x, [through |-> through, left |-> left], n, k)

DoubleShift(x, n, k, y) ==
  LET left == y = "shl"
      to   == IF left THEN RDX ELSE RAX
      from == IF left THEN RAX ELSE RDX
      op   == IF left THEN \hA4 ELSE \hAC
      d    == IF k % 2 = 0 THEN Op2(op + 1) ELSE Imm8(Op2(op), k)
      ext  == CASE y = "shl" -> 4 [] y = "shr" -> 5 [] OTHER -> 7
  IN Prog(<<Size(RR(d, from, to), n), By(RR(Sized(\hC0, n), ext, from), k)>>,
          Start(RAX :> x[1] @@ RDX :> x[2] @@ RCX :> k), "shift", x, y, n, k)

Flagless(x, n, k, y) ==
  LET v   == CASE y = "shl" -> Vex(2, 1, \hF7, RBX, RCX, RAX, n)
               [] y = "sar" -> Vex(2, 2, \hF7, RBX, RCX, RAX, n)
               [] y = "shr" -> Vex(2, 3, \hF7, RBX, RCX, RAX, n)
               [] OTHER     -> Imm8(Vex(3, 3, \hF0, RBX, 0, RAX, n), k)
      ext == CASE y = "shl" -> 4 [] y = "sar" -> 7 [] y = "shr" -> 5 [] OTHER -> 1
  IN Prog(<<v, By(RR(Sized(\hC0, n), ext, RAX), k)>>, Start(RAX :> x @@ RCX :> k),
          "flagless", x, y, n, k)

Shifts ==
  [k \in {"rotate"} \X {1, 2, 4} \X {1, 2} \X (0..9) \X BOOLEAN \X BOOLEAN \X BOOLEAN |->
     Rotate(k[3] * (M(k[2]) \div 4) + 1, k[2], k[4], k[5], k[6], k[7])]
  @@ [k \in {"rotate"} \X {8} \X {0, 1, 15, 16, 17, 31} \X BOOLEAN \X BOOLEAN \X BOOLEAN |->
        Rotate(32769, 8, k[3], k[4], k[5], k[6])]
  @@ [k \in {"shift"} \X {2, 4} \X {1, 10} \X {6, 9} \X (0..4) \X {"shl", "shr", "sar"} |->
        DoubleShift(<<k[3], k[4] * (M(k[2]) \div 16)>>, k[2], IF k[2] = 2 THEN k[5] ELSE k[5] + 3,
                    k[6])]
  @@ [k \in {"flagless"} \X {4, 8} \X {3, 6} \X {0, 1, 7, 8, 9, 15, 16, 31}
            \X {"shl", "shr", "sar", "ror"} |->
        Flagless(k[3] * (M(k[2]) \div 8) + 5, k[2], k[4], k[5])]

-----------------------------------------------------------------------------
(* Bits                                                                    *)

BitTest(y, n, k) ==
  LET j   == CASE y = "BT" -> 0 [] y = "BTS" -> 1 [] y = "BTR" -> 2 [] OTHER -> 3
      e   == IF k \in 0..B*n-1 /\ k % 2 = 1 THEN Imm8(RM(Op2(\hBA), 4 + j, RSI, 0), k)
             ELSE RM(Op2(\hA3 + 8 * j), RCX, RSI, 0)
      lk  == IF j # 0 /\ k % 3 = 0 THEN Pfx(e, "F0") ELSE e
  IN Prog(<<Size(lk, n)>>,
          [Start(RSI :> 28 @@ RCX :> k % M(n)) EXCEPT !.perm = [a \in Cells |-> "rw"]],
          "bt", 28, y, n, k)

\* The word in RAX, or in memory if it is odd.
Scan(x, n) ==
  LET From(e, reg) == Size(IF x % 2 = 0 THEN RR(e, reg, RAX) ELSE RM(e, reg, 9, 0), n)
      Bls(reg, to) == Vex(2, 0, \hF3, reg, to, RAX, n)
  IN Prog(<<From(Op2(\hBC), RBX), From(Op2(\hBD), RCX), From(Pfx(Op2(\hBC), "F3"), RDX),
            From(Pfx(Op2(\hBD), "F3"), RSI), From(Pfx(Op2(\hB8), "F3"), RDI), Bls(3, RBP), Bls(1, 8)>>,
          [Start(RAX :> x @@ RBX :> 77 @@ RCX :> 78) EXCEPT !.mem = Put(@, 20, n, x)],
          "scan", x, 0, n, 0)

Gather(x, y) ==
  Prog(<<Vex(2, 2, \hF5, RBX, RAX, RCX, 4), Vex(2, 3, \hF5, RDX, RBX, RCX, 4)>>,
       Start(RAX :> x @@ RCX :> y), "gather", x, y, 4, 0)

Swap(x, n) ==
  LET store == [RM(Op2(\hF1), RAX, 9, 0) EXCEPT !.three = TRUE]
  IN Prog(<<Size(store, n), Size(RM(Op(\h8B), RBX, 9, 0), n), Size(Op2(\hC8 + RBX), n)>>,
          Start(RAX :> x), "swap", x, 0, n, 0)

Extension(x, junk) ==
  Prog(<<Size(RR(Op2(\hBE), RBX, RAX), 8), Size(RR(Op2(\hB6), RCX, RAX), 8), Size(Op(\h98), 2),
         Op(\h98), Size(RR(Op(\h63), RDX, RAX), 8), Size(Op(\h98), 8)>>,
       Start(RAX :> x + 4 * junk), "extend", x, 0, 1, 0)

\* Operands at cell 20: by base and displacement, scaled index, index alone, and RIP.
Shape(e, k, next) ==
  CASE k = 0 -> RM(e, e.reg, 9, 0)
    [] k = 1 -> RM(e, e.reg, RBP, -4)
    [] k = 2 -> [RM(e, e.reg, RSP, -18) EXCEPT !.index = RDX, !.scale = 1]
    [] k = 3 -> [RM(e, e.reg, RSP, 14) EXCEPT !.mod = 0, !.base = 5, !.index = RDX, !.scale = 1]
    [] k = 4 -> [e EXCEPT !.mod = 0, !.rm = 5, !.disp = 20 - next]
    [] k = 5 -> Pfx(RM(e, e.reg, 9, 0), "67")
    [] OTHER -> Pfx([RM(e, e.reg, RSP, 0) EXCEPT !.mod = 0, !.base = 5, !.disp = 20], "67")

Address(x, k) ==
  Prog(<<Shape(Size(RR(Op(\h8D), RSI, 0), 8), k, Entry + 2),
         Shape(RR(Op(\h88), RBX, 0), k, Entry + 4), RM(Op(\h8A), RCX, RSI, 0)>>,
       Start(RBX :> x @@ RDX :> 3 @@ RBP :> 24), "lea", x, 0, 1, k)

Bitwork ==
  [k \in {"bt"} \X {"BT", "BTS", "BTR", "BTC"} \X (-8..7) |-> BitTest(k[2], 2, k[3])]
  @@ [k \in {"bt"} \X {"BT", "BTS", "BTR", "BTC"} \X (-24..15) \X {4} |-> BitTest(k[2], 4, k[3])]
  @@ [k \in {"scan"} \X {4} \X (0..255) |-> Scan(k[3], 4)]
  @@ [k \in {"scan"} \X {8} \X {0, 1, 24, 4095, 32768, 65535} |-> Scan(k[3], 8)]
  @@ [k \in {"gather"} \X {0, 90, 165, 255} \X {0, 1, 15, 170, 204, 255} |-> Gather(k[2], k[3])]
  @@ [k \in {"swap"} \X {1, 27, 228} \X {4, 8} |-> Swap(k[2] * (k[3] \div 4), k[3])]
  @@ [k \in {"extend"} \X (0..3) \X {0, 9999} |-> Extension(k[2], k[3])]
  @@ [k \in {"lea"} \X (0..3) \X (0..6) |-> Address(k[2], k[3])]

-----------------------------------------------------------------------------
(* Stack disciplines on cells 16 to 79.  The host may give back the rights  *)
(* the lower cells lack.                                                    *)

MovImm(k, v) == Imm8(Op(\hB8 + k), v)
Call(d)  == Rel(Op(\hE8), d)
Ret      == Op(\hC3)
Jmp(d)   == Rel(Op(\hEB), d)
Frame(size, level) == [Op(\hC8) EXCEPT !.imm = size, !.level = level]
Leave    == Op(\hC9)
Pushf    == Op(\h9C)
Popf     == Op(\h9D)
\* Through the far pointer in memory at R9; with the far pointer in the instruction.
FarMem(reg)        == RM(Op(\hFF), reg, 9, 0)
FarPtr(m, at, k)   == Put(Put(m, 20, 4, Entry + 2 * at), 24, 2, Sel(k))
FarImm(op, at, k)  == [Op(op) EXCEPT !.imm = Entry + 2 * at, !.sel = Sel(k)]
\* A call of the instructions that follow it, and the jump over them.
Sub(body) == <<Call(2), Jmp(2 * Len(body))>> \o body

StackStart == [Start(RSP :> 72 @@ RAX :> 200 @@ RBX :> 43210 @@ RBP :> 72)
                 EXCEPT !.mem  = [a \in 16..79 |-> (a + a \div 4) % 4],
                        !.perm = [a \in 16..79 |-> "rw"],
                        !.f["CF"] = TRUE, !.f["ZF"] = TRUE]
Held(x)   == [x EXCEPT !.perm = [a \in DOMAIN x.perm |-> IF a \in 28..55 THEN "r" ELSE "rw"]]
\* 32-bit code on a 16-bit stack, whose pointer wraps at 16.
Narrow == [StackStart EXCEPT !.mem = [a \in 0..15 |-> a % 4], !.perm = [a \in 0..15 |-> "rw"],
                             !.long = FALSE, !.seg["cs"] = Seg(2), !.seg["ss"].d.db = FALSE,
                             !.r[RSP] = 74]

Balanced ==
  <<<<Push(RAX), Push(RBX), Pushf, Op(\hF9), Op(\hFD), Size(RR(Op(\h31), RAX, RAX), 8),
      Popf, Pop(RBX), Pop(RAX)>>,
    \* POP [RSP] writes the slot above the one it pops
    <<Push(RCX), Push(RAX), MovImm(RAX, 5), RM(Op(\h8F), 0, RSP, 0), Pop(RAX)>>,
    \* PUSH [RSP+8] reads it before the pointer moves
    <<Push(RBX), Push(RCX), RM(Op(\hFF), 6, RSP, 8), MovImm(RBX, 1), Pop(RBX), Pop(RCX), Pop(RCX)>>,
    \* POP RSP takes the value, not the pointer after it
    <<Push(RSP), MovImm(RCX, 9), Pop(RSP)>>,
    <<Push(RAX), Imm8(Op(\h6A), 3), Imm8(Op(\h68), 200), Size(Imm8(Op(\h6A), 2), 2),
      Size(Pop(RCX), 2), Pop(RDX), Pop(RDX), Pop(RAX)>>,
    <<Op2(\hA0), Op2(\hA8), Op2(\hA9), Op2(\hA1)>>,
    <<MovImm(RCX, 3), Push(RCX), Rel(Op(\hE2), -4), MovImm(RCX, 3), Pop(RDX), Rel(Op(\hE2), -4),
      Rel(Op(\hE3), 2), Op(\hCC)>>,
    Sub(<<Frame(0, 0), Push(RBX), MovImm(RBX, 1), Pop(RBX), Leave, Ret>>),
    Sub(<<Frame(4, 1), Push(RBX), MovImm(RBX, 1), Leave, RM(Size(Op(\h8B), 8), RBX, RSP, -28), Ret>>),
    Sub(<<Frame(0, 1), Frame(0, 2), RM(Size(Op(\h8B), 8), RCX, RBP, -8), Leave, Leave, Ret>>),
    <<Push(RDX)>> \o Sub(<<Imm8(Op(\hC2), 8)>>),
    <<Size(MovImm(RCX, Entry + 6), 8), RR(Op(\hFF), 2, RCX), Jmp(2), Ret>>,
    \* far within 64-bit code, the return releasing an argument
    <<Push(RDX), FarMem(3), Jmp(2), Imm8(Op(\hCA), 8)>>,
    <<RR(Op(\h8C), 2, RCX), Mov(RDX, RSP), Push(RCX), Push(RDX), Pushf, RR(Op(\h8C), 1, RCX),
      Push(RCX), Imm8(Op(\h68), Entry + 22), Op(\hFD), Op(\hF8), Op(\hCF)>>,
    \* to 32-bit code, a far call there, and back
    <<FarMem(5), Pushf, Op(\h41), Push(RAX), Pop(RAX), Popf, Op(\h06), Op(\h07),
      FarImm(\h9A, 10, 2), FarImm(\hEA, 11, 1), Op(\hCB)>>>>

\* The far pointers of the programs that have one.
FarTo(k, x) == CASE k = 13 -> [x EXCEPT !.mem = FarPtr(@, 3, 1)]
                 [] k = 15 -> [x EXCEPT !.mem = FarPtr(@, 1, 2)]
                 [] OTHER  -> x

Stacked(s, start) ==
  [Prog(s, start, "stack", {RAX, RBX}, Entry + 2 * Len(s), 8, 0) EXCEPT
     !.changes = {<<"perm", 28..55, "rw">>}]

Disciplines ==
  [k \in {"stack"} \X (1..Len(Balanced)) \X {"rw", "r"} |->
     Stacked(Balanced[k[2]], FarTo(k[2], IF k[3] = "r" THEN Held(StackStart) ELSE StackStart))]
  @@ [k \in {"stack"} \X {0} \X {"16"} |->
        Stacked(<<Push(RAX), Size(Push(RBX), 2), Frame(0, 1), Leave, Size(Pop(RBX), 2), Pop(RAX)>>,
                Narrow)]

-----------------------------------------------------------------------------
(* Loops: one instruction again and again, from the cache, while the host   *)
(* moves its operand (R9, the base of FS, RSP) or takes rights away         *)

Each(ks, e(_)) == [k \in DOMAIN ks |-> e(ks[k])]
At9(e, reg) == RM(e, reg, 9, 0)
W(e)        == Size(e, 2)
Alu8    == <<0, 8, 16, 24, 32, 40, 48, 56>>
Exts    == <<0, 1, 2, 3, 4, 5, 6, 7>>
Shift7  == <<0, 1, 2, 3, 4, 5, 7>>

MemoryForms ==
  LET AluRm(b)  == W(At9(Op(b + 1), RCX))
      AluR(b)   == W(At9(Op(b + 3), RDX))
      AluImm(x) == Imm8(At9(Op(\h80), x), 3)
      AluLk(b)  == Pfx(At9(Op(b), RCX), "F0")
      Unary(x)  == At9(Op(\hF6), x)
      Sh(x)     == Imm8(At9(Op(\hC0), x), 3)
      Two(op)   == W(At9(Op2(op), RCX))
      Bt(x)     == Imm8(W(At9(Op2(\hBA), x)), 2)
      Mem(op)   == W(At9(Op(op), RCX))
  IN Each(Alu8, AluRm) \o Each(Alu8, AluR) \o Each(Exts, AluImm) \o Each(Alu8, AluLk)
     \o Each(Exts, Unary) \o Each(Shift7, Sh) \o Each(<<4, 5, 6, 7>>, Bt)
     \o Each(<<\hA3, \hAB, \hAF, \hBC, \hBD, \hB6, \hBE, \h44, \h9B, \hA5, \hAD>>, Two)
     \o Each(<<\h69, \h85, \h86, \h87, \h88, \h89, \h8A, \h8B, \hFE>>, Mem)
     \o <<Pfx(Two(\hB8), "F3"), Pfx(Two(\hC1), "F0"), At9(Op(\hC6), 0), At9(Op(\h8C), 3),
          At9(Op(\h8E), 0), Size(At9(Op(\h63), RBX), 8), At9(Op(\h8D), RBX), At9(Op(\hFE), 0),
          Pfx(At9(Op(\hFE), 1), "F0"), At9(Op(\hFF), 2), At9(Op(\hFF), 3), At9(Op(\hFF), 4),
          At9(Op(\hFF), 5), W(At9(Op(\hFF), 6)), W(At9(Op(\h8F), 0)),
          [Two(\hF0) EXCEPT !.three = TRUE], [Two(\hF1) EXCEPT !.three = TRUE],
          [Vex(2, 0, \hF5, RBX, RDX, 9, 4) EXCEPT !.mod = 1],
          [Vex(2, 3, \hF6, RBX, RSI, 9, 4) EXCEPT !.mod = 1],
          [AluRm(0) EXCEPT !.mod = 0, !.rm = 5, !.rex.b = 0, !.disp = 18 - Entry]>>

\* Sequences that use registers and the stack only.
RegisterForms ==
  LET Un(x)  == RR(Op(\hF6), x, RCX)
      Sh(x)  == RR(Op(\hD2), x, RDX)
      Two(op) == W(RR(Op2(op), RDX, RCX))
  IN Each(Each(Exts, Un), LAMBDA e : <<e>>) \o Each(Each(Shift7, Sh), LAMBDA e : <<e>>)
     \o Each(Each(<<\hA3, \hAB, \hAF, \hBC, \hBD, \hC1, \h94, \h4C>>, Two), LAMBDA e : <<e>>)
     \o <<<<Op(\h98), Op(\h99), Op(\h90), Op(\hF5), Op(\hFC)>>,
          <<W(Op(\h92)), [Op2(\hC8 + RBX) EXCEPT !.pfx = {"66"}], Imm8(Op(\hB4), 2)>>,
          <<Pushf, Popf>>, <<Push(RCX), Pop(RDX)>>, <<Frame(2, 1), Leave>>, <<Pop(RCX)>>,
          <<Imm8(Op(\h6A), 1)>>, <<Pfx(Rel(Op(\hE1), -2), "67")>>, <<Pfx(Rel(Op(\hE0), -2), "67")>>,
          <<Op(\hCB)>>,
          <<Op(\hCF)>>, <<Op(\hC3)>>, <<Imm8(Op(\hC2), 2)>>, <<Op(\hD6)>>, <<W(Rel(Op2(\h84), 2))>>,
          <<[Op(\h80) EXCEPT !.cut = TRUE]>>, <<[Op(\h8B) EXCEPT !.cut = TRUE]>>>>

LoopStart == [Start(RAX :> 2 @@ RCX :> 3 @@ RDX :> 1 @@ RBX :> 5 @@ RSP :> 28 @@ RBP :> 28)
                EXCEPT !.mem = FarPtr(@, 0, 1)]
To(k, v)  == <<"reg", k, v>>
Rights(v) == <<"perm", 16..31, v>>
Base(v)   == <<"base", "fs", v>>

Loop(s, seg, moves) ==
  [Prog([s EXCEPT ![1].seg = seg] \o <<Jmp(-2 * (Len(s) + 1))>>, LoopStart, "replay", 0, 0, 1, 0)
     EXCEPT !.changes = moves]

Loops ==
  [k \in {"replay"} \X (1..Len(MemoryForms)) \X {"none", "fs"} |->
     Loop(<<MemoryForms[k[2]]>>, k[3],
          {To(9, 24), To(9, 31), To(9, 39), To(9, 2048), Rights("r"), Rights("none"), Base(2)})]
  @@ [k \in {"registers"} \X (1..Len(RegisterForms)) |->
        Loop(RegisterForms[k[2]], "none",
             {To(RCX, 0), To(RDX, 33), To(RAX, 130), To(RSP, 20), To(RSP, 39), To(RSP, 2048),
              Rights("r"), Rights("none")})]

\* XLAT, and MOV between the accumulator and cell 20.
Xlat  == Op(\hD7)
Moffs == Imm8(W(Op(\hA1)), 20)
TableLoop(e) ==
  Loop(<<e>>, "none", {To(RBX, 20), To(RBX, 41), To(RBX, 2048), Rights("none"), Base(2)})

\* XADD on memory that can be read but not written is apart.
XaddLoop == Loop(<<At9(Op2(\hC0), RCX)>>, "fs", {To(9, 24), To(9, 40), To(9, 2048), Base(2)})

AllPrograms == Arithmetic @@ Conditions @@ Shifts @@ Bitwork @@ Disciplines @@ Loops
               @@ [k \in {<<"xadd">>} |-> XaddLoop] @@ [k \in {<<"xlat">>} |-> TableLoop(Xlat)]
               @@ [k \in {<<"moffs">>} |-> TableLoop(Moffs)]
\* Named apart, so that TLC computes the table once.
MCPrograms == AllPrograms

\* The same under a segment override.
SegmentPrograms == [k \in {"moffs", "xlat"} |->
                      Loop(<<IF k = "moffs" THEN Moffs ELSE Xlat>>, "fs", {Base(2)})]

=============================================================================
