-------------------------------- MODULE Calc --------------------------------
(***************************************************************************)
(* Words, flags (cpu/calc.hpp) and the conditions computed from them       *)
(* (instructions/jcc.hpp, cpu/executor.hpp).  Widths are scaled: a byte has *)
(* B bits, so that operands of 1, 2, 4 and 8 bytes have B, 2B, 4B and 8B,  *)
(* and B = 8 is the processor.                                             *)
(***************************************************************************)
EXTENDS Integers, FiniteSets

CONSTANT B      \* bits of a byte, even

\* What is said of powers of two is arithmetic, for provers that know none of it.
ASSUME CalcAssumption ==
  /\ B \in Nat \ {0} /\ B % 2 = 0
  /\ \A j, k \in 0..8*B : j + k <= 8*B => 2^j \in Nat \ {0} /\ 2^(j + k) = 2^j * 2^k

Flags == {"CF", "PF", "AF", "ZF", "SF", "OF", "DF"}
Sizes == {1, 2, 4, 8}   \* bytes of an operand

-----------------------------------------------------------------------------
(* Words: an operand of n bytes is a number below M(n)                      *)

M(n)       == 2^(B * n)
Word(n)    == 0..M(n)-1
Sign(n)    == M(n) \div 2
Neg(v, n)  == v >= Sign(n)
Signed(v, n)  == IF Neg(v, n) THEN v - M(n) ELSE v
Sext(v, n, w) == Signed(v, n) % M(w)
Fits(v, n) == v \in -Sign(n)..Sign(n)-1
Bit(v, k)  == (v \div 2^k) % 2 = 1
Ones(v)    == Cardinality({k \in 0..8*B-1 : Bit(v, k)})
ByteOf(v, k) == (v \div M(k)) % M(1)
Num(b)     == IF b THEN 1 ELSE 0

-----------------------------------------------------------------------------
(* Flags                                                                   *)

calc_parity(v) == Ones(v % M(1)) % 2 = 0

Szp(r, n) == [SF |-> Neg(r, n), ZF |-> r = 0, PF |-> calc_parity(r)]
With(f, cf, of, af) == [n \in {"SF", "ZF", "PF", "CF", "OF", "AF"} |->
                          CASE n = "CF" -> cf [] n = "OF" -> of [] n = "AF" -> af [] OTHER -> f[n]]
Half(v)   == v % 2^(B \div 2)
HalfBit(v) == (v \div 2^(B \div 2)) % 2

\* CF from the wide sum; at 64 bits, where there is none, from the wrapped result.  The
\* signs of both operands differ from the result's.
update_flags_add(d, s, n) ==
  LET r == (d + s) % M(n)
  IN With(Szp(r, n), IF n = 8 THEN r < d ELSE d + s >= M(n),
          Neg(d, n) # Neg(r, n) /\ Neg(s, n) # Neg(r, n),
          (HalfBit(d) + HalfBit(s) + HalfBit(r)) % 2 = 1)

update_flags_sub(d, s, n) ==
  LET r == (d - s) % M(n)
  IN With(Szp(r, n), d < s, Neg(d, n) # Neg(s, n) /\ Neg(d, n) # Neg(r, n),
          (HalfBit(d) + HalfBit(s) + HalfBit(r)) % 2 = 1)

update_flags_adc(d, s, cin, n) ==
  LET r == (d + s + cin) % M(n)
  IN With(Szp(r, n), IF n = 8 THEN r < d \/ (cin = 1 /\ r = d) ELSE d + s + cin >= M(n),
          Neg(d, n) # Neg(r, n) /\ Neg(s, n) # Neg(r, n),
          Half(d) + Half(s) + cin >= 2^(B \div 2))

update_flags_sbb(d, s, bin, n) ==
  LET r == (d - s - bin) % M(n)
  IN With(Szp(r, n), d < s \/ (bin = 1 /\ d = s),
          Neg(d, n) # Neg(s, n) /\ Neg(d, n) # Neg(r, n), Half(d) < Half(s) + bin)

\* AND, OR, XOR and TEST clear CF and OF and leave AF.
Logic(r, n) == [m \in {"SF", "ZF", "PF", "CF", "OF"} |->
                  IF m \in {"CF", "OF"} THEN FALSE ELSE Szp(r, n)[m]]
update_flags_test(r, n) == Logic(r, n)
update_flags_and(r, n)  == Logic(r, n)
update_flags_or(r, n)   == update_flags_and(r, n)
update_flags_xor(r, n)  == update_flags_and(r, n)

NoCarry(f) == [n \in DOMAIN f \ {"CF"} |-> f[n]]
update_flags_inc(d, n) == NoCarry(update_flags_add(d, 1, n))
update_flags_dec(d, n) == NoCarry(update_flags_sub(d, 1, n))

-----------------------------------------------------------------------------
(* Conditions                                                              *)

\* The even conditions; the odd ones are their negations.
eval_condition(c, cc) ==
  LET f == c.f
      base == CASE cc \div 2 = 0 -> f["OF"]
                [] cc \div 2 = 1 -> f["CF"]
                [] cc \div 2 = 2 -> f["ZF"]
                [] cc \div 2 = 3 -> f["CF"] \/ f["ZF"]
                [] cc \div 2 = 4 -> f["SF"]
                [] cc \div 2 = 5 -> f["PF"]
                [] cc \div 2 = 6 -> f["SF"] # f["OF"]
                [] OTHER         -> f["ZF"] \/ f["SF"] # f["OF"]
  IN base # (cc % 2 = 1)

cpu_executor_eval_jcc_condition_Swapped(f, cc) ==  \* mutant: JL and JB exchanged
  CASE cc = 2 -> f["SF"] # f["OF"] [] cc = 12 -> f["CF"] [] OTHER -> eval_condition([f |-> f], cc)

\* A second table of the conditions, for the inlined Jcc.
cpu_executor_eval_jcc_condition(f, cc) ==
  CASE cc \in {0, 1}   -> f["OF"] = (cc = 0)
    [] cc \in {2, 3}   -> f["CF"] = (cc = 2)
    [] cc \in {4, 5}   -> f["ZF"] = (cc = 4)
    [] cc = 6          -> f["CF"] \/ f["ZF"]
    [] cc = 7          -> ~f["CF"] /\ ~f["ZF"]
    [] cc \in {8, 9}   -> f["SF"] = (cc = 8)
    [] cc \in {10, 11} -> f["PF"] = (cc = 10)
    [] cc = 12         -> f["SF"] # f["OF"]
    [] cc = 13         -> f["SF"] = f["OF"]
    [] cc = 14         -> f["ZF"] \/ f["SF"] # f["OF"]
    [] OTHER           -> ~f["ZF"] /\ f["SF"] = f["OF"]

\* The reference: what a condition says of the operands of CMP.
Compares(cc, x, y, n) ==
  LET sx == Signed(x, n)  sy == Signed(y, n)
      t  == CASE cc \div 2 = 0 -> ~Fits(sx - sy, n)
              [] cc \div 2 = 1 -> x < y
              [] cc \div 2 = 2 -> x = y
              [] cc \div 2 = 3 -> x <= y
              [] cc \div 2 = 4 -> Neg((x - y) % M(n), n)
              [] cc \div 2 = 5 -> Ones((x - y) % M(1)) % 2 = 0
              [] cc \div 2 = 6 -> sx < sy
              [] OTHER         -> sx <= sy
  IN t # (cc % 2 = 1)

=============================================================================
