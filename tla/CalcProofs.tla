----------------------------- MODULE CalcProofs -----------------------------
(***************************************************************************)
(* Proofs about Calc: what the flags of additions, subtractions and        *)
(* comparisons say of their operands, for every width of a byte, that of   *)
(* the processor included, where the runs exhaust bytes of two bits.       *)
(***************************************************************************)
EXTENDS Calc, TLAPS

-----------------------------------------------------------------------------
(* Arithmetic                                                              *)

\* Quotient and remainder are unique.
LEMMA DivUnique ==
  ASSUME NEW H \in Nat \ {0}, NEW q \in Int, NEW l \in 0..H-1
  PROVE  (H * q + l) \div H = q /\ (H * q + l) % H = l
<1> DEFINE v == H * q + l
           p == v \div H
           m == v % H
<1>1. v \in Int
  OBVIOUS
<1>2. p \in Int /\ m \in 0..H-1 /\ v = H * p + m
  BY <1>1
<1> HIDE DEF p, m
<1>3. H * q - H * p = m - l /\ H * q - H * p = H * (q - p)
  BY <1>2
<1>4. CASE q - p >= 1
  <2>1. H * (q - p) >= H
    BY <1>2, <1>4
  <2> QED
    BY <1>2, <1>3, <2>1
<1>5. CASE q - p <= -1
  <2>1. H * (q - p) <= -H
    BY <1>2, <1>5
  <2> QED
    BY <1>2, <1>3, <2>1
<1>6. CASE q = p
  BY <1>2, <1>6 DEF p, m
<1> QED
  BY <1>2, <1>4, <1>5, <1>6

\* A sum of two words and a carry wraps at most once, and so does a difference.
LEMMA Wraps ==
  ASSUME NEW W \in Nat \ {0}, NEW v \in Int, -W <= v, v < 2 * W
  PROVE  v % W = CASE v < 0 -> v + W [] v >= W -> v - W [] OTHER -> v
<1>1. CASE v < 0
  <2> DEFINE m == -1
             l == v + W
  <2>1. v = W * m + l /\ m \in Int /\ l \in 0..W-1
    BY <1>1
  <2> HIDE DEF m, l
  <2>2. v % W = l
    BY <2>1, DivUnique
  <2> QED
    BY <1>1, <2>2 DEF l
<1>2. CASE v >= W
  <2> DEFINE m == 1
             l == v - W
  <2>1. v = W * m + l /\ m \in Int /\ l \in 0..W-1
    BY <1>2
  <2> HIDE DEF m, l
  <2>2. v % W = l
    BY <2>1, DivUnique
  <2> QED
    BY <1>2, <2>2 DEF l
<1>3. CASE 0 <= v /\ v < W
  BY <1>3
<1> QED
  BY <1>1, <1>2, <1>3

LEMMA PowerSum ==
  ASSUME NEW j \in 0..8*B, NEW k \in 0..8*B, j + k <= 8*B
  PROVE  2^j \in Nat \ {0} /\ 2^k \in Nat \ {0} /\ 2^(j + k) = 2^j * 2^k
<1>1. k + j = j + k
  BY CalcAssumption
<1>2. 2^j \in Nat \ {0} /\ 2^(j + k) = 2^j * 2^k
  BY Zenon, CalcAssumption
<1>3. k + j <= 8*B
  BY <1>1, Zenon
<1>4. 2^k \in Nat \ {0}
  BY <1>3, Zenon, CalcAssumption
<1> QED
  BY <1>2, <1>4

\* The word sizes: every word has a sign bit, and is made of half bytes in pairs.
LEMMA Powers ==
  ASSUME NEW n \in Sizes
  PROVE  /\ M(n) \in Nat \ {0} /\ Sign(n) \in Nat \ {0} /\ M(n) = 2 * Sign(n)
         /\ 2^(B \div 2) \in Nat \ {0}
         /\ \E q \in Nat : Sign(n) = 2^(B \div 2) * q
<1> DEFINE a == B \div 2
           b == B * n - (a + 1)
<1>1. /\ a \in 0..8*B /\ b \in 0..8*B /\ a + b \in 0..8*B /\ 1 \in 0..8*B
      /\ 1 + (a + b) = B * n /\ B * n <= 8 * B
  BY CalcAssumption DEF Sizes
<1> HIDE DEF a, b
<1>2. 2^1 = 2
  OBVIOUS
<1> DEFINE e == a + b
<1>3. /\ 1 + e <= 8 * B /\ e <= 8 * B /\ e \in 0..8*B
  BY <1>1, CalcAssumption
<1>4. /\ 2^(a + b) = 2^a * 2^b
      /\ 2^a \in Nat \ {0} /\ 2^b \in Nat \ {0}
  BY <1>1, <1>3, PowerSum
<1> HIDE DEF e
<1>A. 2^(1 + e) = 2^1 * 2^e /\ 2^e \in Nat \ {0}
  BY <1>1, <1>3, PowerSum
<1>5. 1 + e = B * n /\ 2^e = 2^a * 2^b
  BY <1>1, <1>4 DEF e
<1>6. M(n) = 2 * 2^e
  BY <1>2, <1>5, <1>A DEF M
<1>7. Sign(n) = 2^e
  BY <1>A, <1>6 DEF Sign
<1>8. 2^(B \div 2) = 2^a
  BY DEF a
<1>9. \E q \in Nat : Sign(n) = 2^(B \div 2) * q
  BY <1>4, <1>5, <1>7, <1>8
<1> QED
  BY <1>4, <1>6, <1>7, <1>8, <1>9, <1>A

LEMMA BytesDivide ==
  ASSUME NEW n \in Sizes
  PROVE  \E q \in Nat : M(n) = M(1) * q
<1> DEFINE b == B * n - B
<1>1. b \in 0..8*B /\ B \in 0..8*B /\ B + b = B * n /\ B * n <= 8 * B /\ B * 1 = B
  BY CalcAssumption DEF Sizes
<1> HIDE DEF b
<1>2. 2^(B + b) = 2^B * 2^b /\ 2^b \in Nat
  BY <1>1, PowerSum
<1>3. M(1) = 2^B /\ M(n) = 2^(B + b)
  BY <1>1 DEF M
<1> QED
  BY <1>2, <1>3

\* Reducing to a word and then to its low byte is reducing to the byte.
LEMMA LowByte ==
  ASSUME NEW n \in Sizes, NEW v \in Int
  PROVE  (v % M(n)) % M(1) = v % M(1)
<1>1. M(1) \in Nat \ {0} /\ M(n) \in Nat \ {0}
  BY Powers DEF Sizes
<1>2. PICK q \in Nat : M(n) = M(1) * q
  BY BytesDivide
<1> DEFINE S == M(1)
           W == M(n)
           t == v \div W
           r == v % W
           p == r \div S
           l == r % S
<1>3. t \in Int /\ r \in Int /\ v = W * t + r
  BY <1>1
<1>4. p \in Int /\ l \in 0..S-1 /\ r = S * p + l
  BY <1>1, <1>3
<1>8. S \in Nat \ {0} /\ W = S * q
  BY <1>1, <1>2
<1> HIDE DEF t, r, p, l, S, W
<1>5. v = S * (q * t + p) + l
  <2>1. W * t = (S * q) * t /\ (S * q) * t = S * (q * t) /\ S * (q * t + p) = S * (q * t) + S * p
    BY <1>3, <1>4, <1>8
  <2> QED
    BY <1>3, <1>4, <1>8, <2>1
<1>6. q * t + p \in Int
  BY <1>3, <1>4
<1>7. v % S = l
  BY <1>4, <1>5, <1>6, <1>8, DivUnique
<1> QED
  BY <1>7 DEF l, r, S, W

-----------------------------------------------------------------------------
(* Half bytes: AF as the parity of three bits, and as a carry or a borrow    *)

\* The bit above the half byte in x, y and z, and whether the halves carry.
Odd(H, x, y, z) == (((x \div H) % 2) + ((y \div H) % 2) + ((z \div H) % 2)) % 2 = 1
Carries(H, x, y) == (x % H) + (y % H) >= H

LEMMA HalfSum ==
  ASSUME NEW H \in Nat \ {0}, NEW q \in Int, NEW d \in Int, NEW s \in Int, NEW t \in Int,
         NEW r \in Int, r = d + s - (2 * (H * q)) * t
  PROVE  Odd(H, d, s, r) <=> Carries(H, d, s)
<1> DEFINE a == d \div H
           b == s \div H
           l == d % H
           m == s % H
           k == IF l + m >= H THEN 1 ELSE 0
           c == a + b + k - 2 * (q * t)
           e == l + m - H * k
<1>1. /\ a \in Int /\ b \in Int /\ l \in 0..H-1 /\ m \in 0..H-1
      /\ d = H * a + l /\ s = H * b + m
  OBVIOUS
<1> HIDE DEF a, b, l, m
<1>2. k \in {0, 1} /\ e \in 0..H-1 /\ (k = 1 <=> l + m >= H)
  BY <1>1
<1> HIDE DEF k
<1>3. c \in Int
  BY <1>1, <1>2
<1>4. r = H * c + e
  <2> DEFINE u == q * t
  <2>1. u \in Int /\ (2 * (H * q)) * t = 2 * (H * u)
    OBVIOUS
  <2>2. c = a + b + k - 2 * u
    OBVIOUS
  <2> HIDE DEF u
  <2>3. H * (a + b + k - 2 * u) = H * a + H * b + H * k - 2 * (H * u)
    BY <1>1, <1>2, <2>1
  <2> QED
    BY <1>1, <1>2, <2>1, <2>2, <2>3
<1>5. r \div H = c
  <2> HIDE DEF c, e
  <2> QED
    BY <1>2, <1>3, <1>4, DivUnique
<1>6. ((a % 2) + (b % 2) + (c % 2)) % 2 = k
  <2> DEFINE u == q * t
  <2>1. u \in Int /\ c = a + b + k - 2 * u
    OBVIOUS
  <2> HIDE DEF u, c
  <2> QED
    BY <1>1, <1>2, <2>1
<1>7. (((a % 2) + (b % 2) + ((r \div H) % 2)) % 2 = 1) <=> l + m >= H
  <2> HIDE DEF c, e
  <2> QED
    BY ONLY <1>2, <1>5, <1>6
<1> QED
  BY <1>7 DEF a, b, l, m, Odd, Carries

LEMMA HalfDifference ==
  ASSUME NEW H \in Nat \ {0}, NEW q \in Int, NEW d \in Int, NEW s \in Int, NEW t \in Int,
         NEW r \in Int, r = d - s - (2 * (H * q)) * t
  PROVE  Odd(H, d, s, r) <=> d % H < s % H
<1> DEFINE z == -t
<1>1. d = s + r - (2 * (H * q)) * z /\ z \in Int
  <2>1. (2 * (H * q)) * (-t) = -((2 * (H * q)) * t)
    OBVIOUS
  <2> QED
    BY <2>1
<1> HIDE DEF z
<1>2. Odd(H, s, r, d) <=> Carries(H, s, r)
  BY <1>1, HalfSum
<1>3. Carries(H, s, r) <=> d % H < s % H
  <2> DEFINE a == s \div H
             b == r \div H
             c == d \div H
             l == s % H
             m == r % H
             e == d % H
             u == q * t
             y == a + b + 2 * u - c
  <2>0. H \in Nat \ {0}
    OBVIOUS
  <2>1. /\ a \in Int /\ b \in Int /\ c \in Int /\ l \in 0..H-1 /\ m \in 0..H-1 /\ e \in 0..H-1
        /\ s = H * a + l /\ r = H * b + m /\ d = H * c + e
    OBVIOUS
  <2>2. u \in Int /\ (2 * (H * q)) * t = 2 * (H * u)
    OBVIOUS
  <2> HIDE DEF a, b, c, l, m, e, u
  <2>3. H * y = H * a + H * b + 2 * (H * u) - H * c /\ y \in Int
    BY <2>1, <2>2
  <2>4. e = l + m + H * y
    BY <2>1, <2>2, <2>3
  <2> HIDE DEF y
  <2>5. y >= 1 => H * y >= H
    BY <2>3
  <2>6. y <= -2 => H * y <= -2 * H
    BY <2>3
  <2>7. y \in {0, -1}
    BY <2>1, <2>3, <2>4, <2>5, <2>6
  <2>8. y = 0 \/ H * y = -H
    BY <2>7
  <2>9. CASE y = 0
    <3>1. e = l + m
      BY <2>1, <2>3, <2>4, <2>9
    <3>2. l + m >= H <=> e < l
      BY ONLY <2>0, <2>1, <3>1
    <3> QED
      BY <3>2 DEF l, m, e, Carries
  <2>10. CASE H * y = -H
    <3>1. e = l + m - H
      BY <2>1, <2>3, <2>4, <2>10
    <3>2. l + m >= H <=> e < l
      BY ONLY <2>0, <2>1, <3>1
    <3> QED
      BY <3>2 DEF l, m, e, Carries
  <2> QED
    BY <2>8, <2>9, <2>10
<1>4. Odd(H, s, r, d) <=> Odd(H, d, s, r)
  BY DEF Odd
<1> QED
  BY <1>2, <1>3, <1>4

-----------------------------------------------------------------------------
(* Additions and subtractions                                              *)

LEMMA WithFields ==
  ASSUME NEW f, NEW cf, NEW of, NEW af
  PROVE  /\ With(f, cf, of, af)["CF"] = cf
         /\ With(f, cf, of, af)["OF"] = of
         /\ With(f, cf, of, af)["AF"] = af
         /\ With(f, cf, of, af)["SF"] = f["SF"]
         /\ With(f, cf, of, af)["ZF"] = f["ZF"]
         /\ With(f, cf, of, af)["PF"] = f["PF"]
  BY DEF With

\* Where the wrapped sum lies, and what its sign says.
SumIs(n, d, s, cin, r, k) ==
  /\ r \in Word(n) /\ k \in {0, 1} /\ r = d + s + cin - M(n) * k
  /\ (Neg(d, n) # Neg(r, n) /\ Neg(s, n) # Neg(r, n))
       <=> ~Fits(Signed(d, n) + Signed(s, n) + cin, n)

LEMMA SumFacts ==
  ASSUME NEW n \in Sizes, NEW d \in Word(n), NEW s \in Word(n), NEW cin \in {0, 1}
  PROVE  SumIs(n, d, s, cin, (d + s + cin) % M(n), Num(d + s + cin >= M(n)))
<1> DEFINE W == M(n)
           S == Sign(n)
           r == (d + s + cin) % W
           k == Num(d + s + cin >= W)
<1>1. W \in Nat \ {0} /\ S \in Nat \ {0} /\ W = 2 * S
  BY Powers
<1>2. d \in 0..W-1 /\ s \in 0..W-1
  BY DEF Word
<1> HIDE DEF W, S
<1>3. r = IF d + s + cin >= W THEN d + s + cin - W ELSE d + s + cin
  <2> DEFINE v == d + s + cin
  <2>1. v \in Int /\ 0 <= v /\ -W <= v /\ v < 2 * W
    BY <1>1, <1>2
  <2> HIDE DEF v
  <2>2. (v >= W => v % W = v - W) /\ (~(v >= W) => v % W = v)
    BY <1>1, <2>1, Wraps
  <2>3. r = v % W
    BY DEF v
  <2>4. r = IF v >= W THEN v - W ELSE v
    BY <2>2, <2>3
  <2> QED
    BY <1>1, <1>2, <2>4 DEF v
<1>4. k = IF d + s + cin >= W THEN 1 ELSE 0
  BY DEF Num
<1> HIDE DEF r, k
<1>5. k \in {0, 1} /\ r \in 0..W-1 /\ r = d + s + cin - W * k
  BY <1>1, <1>2, <1>3, <1>4
<1>6. (Neg(d, n) # Neg(r, n) /\ Neg(s, n) # Neg(r, n))
        <=> ~Fits(Signed(d, n) + Signed(s, n) + cin, n)
  <2>1. /\ Neg(d, n) <=> d >= S
        /\ Neg(s, n) <=> s >= S
        /\ Neg(r, n) <=> r >= S
        /\ Signed(d, n) = IF d >= S THEN d - W ELSE d
        /\ Signed(s, n) = IF s >= S THEN s - W ELSE s
    BY DEF Neg, Signed, S, W
  <2> DEFINE x == Signed(d, n)
             y == Signed(s, n)
  <2>2. Fits(x + y + cin, n) <=> x + y + cin \in -S..S-1
    BY DEF Fits, S
  <2> HIDE DEF x, y
  <2>3. Fits(x + y + cin, n) <=> -S <= x + y + cin /\ x + y + cin <= S - 1
    BY <1>1, <1>2, <2>1, <2>2 DEF x, y
  <2>4. /\ x = IF d >= S THEN d - W ELSE d
        /\ y = IF s >= S THEN s - W ELSE s
    BY <2>1 DEF x, y
  <2>5. ((d >= S) # (r >= S) /\ (s >= S) # (r >= S))
          <=> ~(-S <= x + y + cin /\ x + y + cin <= S - 1)
    BY <1>1, <1>2, <1>3, <2>4
  <2>6. (Neg(d, n) # Neg(r, n) /\ Neg(s, n) # Neg(r, n))
          <=> ((d >= S) # (r >= S) /\ (s >= S) # (r >= S))
    BY DEF Neg, S
  <2> QED
    BY <2>3, <2>5, <2>6 DEF x, y
<1> QED
  BY <1>5, <1>6 DEF r, k, W, Word, SumIs

\* calc.hpp, update_flags_adc and update_flags_add: CF is the carry out of the word, also at
\* 64 bits, where it is computed from the wrapped result, and OF says that the signed sum
\* does not fit; an ADD is an ADC without carry, though one computes AF from bits and the
\* other from half bytes.
THEOREM SumFlags ==
  \A n \in Sizes : \A d, s \in Word(n) : \A cin \in {0, 1} :
    LET f == update_flags_adc(d, s, cin, n)
    IN /\ f["CF"] <=> d + s + cin >= M(n)
       /\ f["OF"] <=> ~Fits(Signed(d, n) + Signed(s, n) + cin, n)
       /\ f["ZF"] <=> (d + s + cin) % M(n) = 0
       /\ f["SF"] <=> Neg((d + s + cin) % M(n), n)
       /\ cin = 0 => update_flags_add(d, s, n) = f
<1> SUFFICES ASSUME NEW n \in Sizes, NEW d \in Word(n), NEW s \in Word(n), NEW cin \in {0, 1}
             PROVE  LET f == update_flags_adc(d, s, cin, n)
                    IN /\ f["CF"] <=> d + s + cin >= M(n)
                       /\ f["OF"] <=> ~Fits(Signed(d, n) + Signed(s, n) + cin, n)
                       /\ f["ZF"] <=> (d + s + cin) % M(n) = 0
                       /\ f["SF"] <=> Neg((d + s + cin) % M(n), n)
                       /\ cin = 0 => update_flags_add(d, s, n) = f
  OBVIOUS
<1> DEFINE W == M(n)
           H == 2^(B \div 2)
           r == (d + s + cin) % W
           k == Num(d + s + cin >= W)
           f == update_flags_adc(d, s, cin, n)
           g == update_flags_add(d, s, n)
           cf == IF n = 8 THEN r < d \/ (cin = 1 /\ r = d) ELSE d + s + cin >= W
           cg == IF n = 8 THEN r < d ELSE d + s + cin >= W
           of == Neg(d, n) # Neg(r, n) /\ Neg(s, n) # Neg(r, n)
           af == Half(d) + Half(s) + cin >= H
           ag == (HalfBit(d) + HalfBit(s) + HalfBit(r)) % 2 = 1
<1>1. W \in Nat \ {0} /\ H \in Nat \ {0}
  BY Powers
<1>2. d \in 0..W-1 /\ s \in 0..W-1
  BY DEF Word
<1>3. /\ r \in 0..W-1 /\ k \in {0, 1} /\ r = d + s + cin - W * k
      /\ of <=> ~Fits(Signed(d, n) + Signed(s, n) + cin, n)
  <2>1. SumIs(n, d, s, cin, r, k)
    BY SumFacts
  <2> QED
    BY <2>1 DEF Word, SumIs
<1>4. k = IF d + s + cin >= W THEN 1 ELSE 0
  BY DEF Num
<1>5. f = With(Szp(r, n), cf, of, af)
  BY DEF update_flags_adc
<1>6. cin = 0 => g = With(Szp(r, n), cg, of, ag)
  <2> SUFFICES ASSUME cin = 0
               PROVE  g = With(Szp(r, n), cg, of, ag)
    OBVIOUS
  <2>1. d + s + cin = d + s
    BY <1>2
  <2> QED
    BY <2>1 DEF update_flags_add
<1>7. Szp(r, n)["ZF"] = (r = 0) /\ Szp(r, n)["SF"] = Neg(r, n)
  BY DEF Szp
<1> HIDE DEF r, k
<1>8. cf <=> d + s + cin >= W
  <2> HIDE DEF W
  <2> QED
    BY <1>1, <1>2, <1>3, <1>4
<1>9. cin = 0 => (cg <=> cf)
  <2> HIDE DEF W
  <2> QED
    BY <1>2, <1>3, <1>4
<1>10. cin = 0 => (ag <=> af)
  <2> SUFFICES ASSUME cin = 0
               PROVE  ag <=> af
    OBVIOUS
  <2>1. PICK q \in Nat : Sign(n) = H * q
    BY Powers
  <2>2. W = 2 * (H * q) /\ H * q \in Nat
    BY <1>1, <2>1, Powers
  <2>3. r = d + s - (2 * (H * q)) * k /\ r \in Int /\ d \in Int /\ s \in Int /\ k \in Int
       /\ q \in Int
    BY <1>1, <1>2, <1>3, <2>2
  <2>4. Odd(H, d, s, r) <=> Carries(H, d, s)
    <3> HIDE DEF H
    <3> QED
      BY <1>1, <2>3, HalfSum
  <2>5. ag <=> Odd(H, d, s, r)
    BY DEF Odd, HalfBit
  <2>6. af <=> Carries(H, d, s)
    <3>1. Half(d) \in Int /\ Half(s) \in Int /\ Half(d) = d % H /\ Half(s) = s % H
      BY <1>1, <1>2 DEF Half
    <3>2. Half(d) + Half(s) + cin = Half(d) + Half(s)
      BY <3>1
    <3> QED
      BY <3>1, <3>2 DEF Carries
  <2> QED
    BY <2>4, <2>5, <2>6
<1> HIDE DEF cf, cg, of, af, ag, f, g
<1>11. f["CF"] = cf /\ f["OF"] = of /\ f["ZF"] = (r = 0) /\ f["SF"] = Neg(r, n)
  BY <1>5, <1>7, WithFields
<1>12. cin = 0 => g = f
  <2>1. cin = 0 => cg = cf /\ ag = af
    BY <1>9, <1>10 DEF cf, cg, af, ag
  <2> QED
    BY <1>5, <1>6, <2>1
<1> QED
  BY <1>3, <1>8, <1>11, <1>12 DEF f, g, r, W

DifferenceIs(n, d, s, bin, r, k) ==
  /\ r \in Word(n) /\ k \in {0, 1} /\ r = d - s - bin + M(n) * k
  /\ (Neg(d, n) # Neg(s, n) /\ Neg(d, n) # Neg(r, n))
       <=> ~Fits(Signed(d, n) - Signed(s, n) - bin, n)

LEMMA DifferenceFacts ==
  ASSUME NEW n \in Sizes, NEW d \in Word(n), NEW s \in Word(n), NEW bin \in {0, 1}
  PROVE  DifferenceIs(n, d, s, bin, (d - s - bin) % M(n), Num(d < s + bin))
<1> DEFINE W == M(n)
           S == Sign(n)
           r == (d - s - bin) % W
           k == Num(d < s + bin)
<1>1. W \in Nat \ {0} /\ S \in Nat \ {0} /\ W = 2 * S
  BY Powers
<1>2. d \in 0..W-1 /\ s \in 0..W-1
  BY DEF Word
<1> HIDE DEF W, S
<1>3. r = IF d < s + bin THEN d - s - bin + W ELSE d - s - bin
  <2> DEFINE v == d - s - bin
  <2>1. v \in Int /\ -W <= v /\ v < W /\ (v < 0 <=> d < s + bin)
    BY <1>1, <1>2
  <2> HIDE DEF v
  <2>2. (v < 0 => v % W = v + W) /\ (~(v < 0) => v % W = v)
    BY <1>1, <2>1, Wraps
  <2>3. r = v % W
    BY DEF v
  <2>4. r = IF v < 0 THEN v + W ELSE v
    BY <2>2, <2>3
  <2> QED
    BY <1>1, <1>2, <2>1, <2>4 DEF v
<1>4. k = IF d < s + bin THEN 1 ELSE 0
  BY DEF Num
<1> HIDE DEF r, k
<1>5. k \in {0, 1} /\ r \in 0..W-1 /\ r = d - s - bin + W * k
  BY <1>1, <1>2, <1>3, <1>4
<1>6. (Neg(d, n) # Neg(s, n) /\ Neg(d, n) # Neg(r, n))
        <=> ~Fits(Signed(d, n) - Signed(s, n) - bin, n)
  <2> DEFINE x == Signed(d, n)
             y == Signed(s, n)
  <2>1. /\ x = IF d >= S THEN d - W ELSE d
        /\ y = IF s >= S THEN s - W ELSE s
    BY DEF Neg, Signed, S, W
  <2>2. Fits(x - y - bin, n) <=> x - y - bin \in -S..S-1
    BY DEF Fits, S
  <2> HIDE DEF x, y
  <2>3. Fits(x - y - bin, n) <=> -S <= x - y - bin /\ x - y - bin <= S - 1
    BY <1>1, <1>2, <2>1, <2>2
  <2>4. ((d >= S) # (s >= S) /\ (d >= S) # (r >= S))
          <=> ~(-S <= x - y - bin /\ x - y - bin <= S - 1)
    BY <1>1, <1>2, <1>3, <2>1
  <2>5. (Neg(d, n) # Neg(s, n) /\ Neg(d, n) # Neg(r, n))
          <=> ((d >= S) # (s >= S) /\ (d >= S) # (r >= S))
    BY DEF Neg, S
  <2> QED
    BY <2>3, <2>4, <2>5 DEF x, y
<1> QED
  BY <1>5, <1>6 DEF r, k, W, Word, DifferenceIs

\* calc.hpp, update_flags_sbb and update_flags_sub: CF is the borrow, OF says that the signed
\* difference does not fit, and a SUB is an SBB without borrow, AF included.
THEOREM DifferenceFlags ==
  \A n \in Sizes : \A d, s \in Word(n) : \A bin \in {0, 1} :
    LET f == update_flags_sbb(d, s, bin, n)
    IN /\ f["CF"] <=> d < s + bin
       /\ f["OF"] <=> ~Fits(Signed(d, n) - Signed(s, n) - bin, n)
       /\ f["ZF"] <=> (d - s - bin) % M(n) = 0
       /\ f["SF"] <=> Neg((d - s - bin) % M(n), n)
       /\ bin = 0 => update_flags_sub(d, s, n) = f
<1> SUFFICES ASSUME NEW n \in Sizes, NEW d \in Word(n), NEW s \in Word(n), NEW bin \in {0, 1}
             PROVE  LET f == update_flags_sbb(d, s, bin, n)
                    IN /\ f["CF"] <=> d < s + bin
                       /\ f["OF"] <=> ~Fits(Signed(d, n) - Signed(s, n) - bin, n)
                       /\ f["ZF"] <=> (d - s - bin) % M(n) = 0
                       /\ f["SF"] <=> Neg((d - s - bin) % M(n), n)
                       /\ bin = 0 => update_flags_sub(d, s, n) = f
  OBVIOUS
<1> DEFINE W == M(n)
           H == 2^(B \div 2)
           r == (d - s - bin) % W
           k == Num(d < s + bin)
           f == update_flags_sbb(d, s, bin, n)
           g == update_flags_sub(d, s, n)
           cf == d < s \/ (bin = 1 /\ d = s)
           cg == d < s
           of == Neg(d, n) # Neg(s, n) /\ Neg(d, n) # Neg(r, n)
           af == Half(d) < Half(s) + bin
           ag == (HalfBit(d) + HalfBit(s) + HalfBit(r)) % 2 = 1
<1>1. W \in Nat \ {0} /\ H \in Nat \ {0}
  BY Powers
<1>2. d \in 0..W-1 /\ s \in 0..W-1
  BY DEF Word
<1>3. /\ r \in 0..W-1 /\ k \in {0, 1} /\ r = d - s - bin + W * k
      /\ of <=> ~Fits(Signed(d, n) - Signed(s, n) - bin, n)
  <2>1. DifferenceIs(n, d, s, bin, r, k)
    BY DifferenceFacts
  <2> QED
    BY <2>1 DEF Word, DifferenceIs
<1>5. f = With(Szp(r, n), cf, of, af)
  BY DEF update_flags_sbb
<1>6. bin = 0 => g = With(Szp(r, n), cg, of, ag)
  <2> SUFFICES ASSUME bin = 0
               PROVE  g = With(Szp(r, n), cg, of, ag)
    OBVIOUS
  <2>1. d - s - bin = d - s
    BY <1>2
  <2> QED
    BY <2>1 DEF update_flags_sub
<1>7. Szp(r, n)["ZF"] = (r = 0) /\ Szp(r, n)["SF"] = Neg(r, n)
  BY DEF Szp
<1> HIDE DEF r, k
<1>8. cf <=> d < s + bin
  BY <1>2
<1>9. bin = 0 => (cg <=> cf)
  BY <1>2
<1>10. bin = 0 => (ag <=> af)
  <2> SUFFICES ASSUME bin = 0
               PROVE  ag <=> af
    OBVIOUS
  <2>1. PICK q \in Nat : Sign(n) = H * q
    BY Powers
  <2>2. W = 2 * (H * q) /\ H * q \in Nat
    BY <1>1, <2>1, Powers
  <2> DEFINE t == -k
  <2>3. r = d - s - (2 * (H * q)) * t /\ r \in Int /\ d \in Int /\ s \in Int /\ t \in Int
       /\ q \in Int
    BY <1>1, <1>2, <1>3, <2>2
  <2> HIDE DEF t
  <2>4. Odd(H, d, s, r) <=> d % H < s % H
    <3> HIDE DEF H
    <3> QED
      BY <1>1, <2>3, HalfDifference
  <2>5. ag <=> Odd(H, d, s, r)
    BY DEF Odd, HalfBit
  <2>6. af <=> d % H < s % H
    <3>1. Half(d) \in Int /\ Half(s) \in Int /\ Half(d) = d % H /\ Half(s) = s % H
      BY <1>1, <1>2 DEF Half
    <3>2. Half(s) + bin = Half(s)
      BY <3>1
    <3> QED
      BY <3>1, <3>2
  <2> QED
    BY <2>4, <2>5, <2>6
<1> HIDE DEF cf, cg, of, af, ag, f, g
<1>11. f["CF"] = cf /\ f["OF"] = of /\ f["ZF"] = (r = 0) /\ f["SF"] = Neg(r, n)
  BY <1>5, <1>7, WithFields
<1>12. bin = 0 => g = f
  <2>1. bin = 0 => cg = cf /\ ag = af
    BY <1>9, <1>10 DEF cf, cg, af, ag
  <2> QED
    BY <1>5, <1>6, <2>1
<1> QED
  BY <1>3, <1>8, <1>11, <1>12 DEF f, g, r, W

-----------------------------------------------------------------------------
(* Comparisons                                                             *)

LEMMA ComparisonFlags ==
  ASSUME NEW n \in Sizes, NEW x \in Word(n), NEW y \in Word(n), NEW f,
         f = update_flags_sub(x, y, n)
  PROVE  /\ f["CF"] = (x < y)
         /\ f["OF"] = ~Fits(Signed(x, n) - Signed(y, n), n)
         /\ f["ZF"] = (x = y)
         /\ f["SF"] = Neg((x - y) % M(n), n)
         /\ f["PF"] = (Ones((x - y) % M(1)) % 2 = 0)
         /\ Neg((x - y) % M(n), n) # ~Fits(Signed(x, n) - Signed(y, n), n)
              <=> Signed(x, n) < Signed(y, n)
         /\ x = y <=> Signed(x, n) = Signed(y, n)
<1> DEFINE W == M(n)
           S == Sign(n)
           r == (x - y) % W
           cf == x < y
           of == Neg(x, n) # Neg(y, n) /\ Neg(x, n) # Neg(r, n)
           af == (HalfBit(x) + HalfBit(y) + HalfBit(r)) % 2 = 1
           k == Num(x < y + 0)
<1>1. W \in Nat \ {0} /\ S \in Nat \ {0} /\ W = 2 * S
  BY Powers
<1>2. x \in 0..W-1 /\ y \in 0..W-1
  BY DEF Word
<1>3. /\ r \in 0..W-1 /\ k \in {0, 1} /\ r = x - y + W * k
      /\ of <=> ~Fits(Signed(x, n) - Signed(y, n), n)
  <2>1. DifferenceIs(n, x, y, 0, (x - y - 0) % M(n), k)
    BY DifferenceFacts
  <2>2. x - y - 0 = x - y /\ Signed(x, n) \in Int /\ Signed(y, n) \in Int
    BY <1>1, <1>2 DEF Signed
  <2>3. Signed(x, n) - Signed(y, n) - 0 = Signed(x, n) - Signed(y, n)
    BY <2>2
  <2> QED
    BY <2>1, <2>2, <2>3 DEF Word, DifferenceIs
<1>4. f = With(Szp(r, n), cf, of, af)
  BY DEF update_flags_sub
<1>5. /\ Szp(r, n)["ZF"] = (r = 0) /\ Szp(r, n)["SF"] = Neg(r, n)
      /\ Szp(r, n)["PF"] = calc_parity(r)
  BY DEF Szp
<1>6. r % M(1) = (x - y) % M(1)
  BY <1>2, LowByte
<1>7. calc_parity(r) = (Ones((x - y) % M(1)) % 2 = 0)
  BY <1>6 DEF calc_parity
<1>8. k = IF x < y THEN 1 ELSE 0
  BY <1>2 DEF Num
<1> HIDE DEF r, k
<1>9. r = 0 <=> x = y
  <2> HIDE DEF W
  <2> QED
    BY <1>1, <1>2, <1>3, <1>8
<1> DEFINE a == Signed(x, n)
           b == Signed(y, n)
<1>10. /\ a = IF x >= S THEN x - W ELSE x
       /\ b = IF y >= S THEN y - W ELSE y
  BY DEF Neg, Signed
<1>11. (Neg(r, n) # ~Fits(a - b, n)) <=> ((r >= S) # ~(a - b \in -S..S-1))
  BY DEF Neg, Fits
<1> HIDE DEF a, b, W, S
<1>13. x = y <=> a = b
  BY <1>1, <1>2, <1>10
<1>14. (r >= S) # ~(a - b \in -S..S-1) <=> a < b
  <2>1. a - b \in -S..S-1 <=> -S <= a - b /\ a - b <= S - 1
    BY <1>1, <1>2, <1>10
  <2>2. CASE a - b < -S
    BY <1>1, <1>2, <1>3, <1>8, <1>10, <2>1, <2>2
  <2>3. CASE a - b > S - 1
    BY <1>1, <1>2, <1>3, <1>8, <1>10, <2>1, <2>3
  <2>4. CASE -S <= a - b /\ a - b <= S - 1
    BY <1>1, <1>2, <1>3, <1>8, <1>10, <2>1, <2>4
  <2>5. a - b < -S \/ a - b > S - 1 \/ (-S <= a - b /\ a - b <= S - 1)
    BY <1>1, <1>2, <1>10
  <2> QED
    BY <2>2, <2>3, <2>4, <2>5
<1>15. Neg(r, n) # ~Fits(a - b, n) <=> a < b
  BY <1>11, <1>14
<1> HIDE DEF cf, of, af
<1>16. /\ f["CF"] = cf /\ f["OF"] = of /\ f["ZF"] = (r = 0) /\ f["SF"] = Neg(r, n)
       /\ f["PF"] = calc_parity(r)
  BY <1>4, <1>5, WithFields
<1>17. of = ~Fits(a - b, n)
  BY <1>3 DEF of, a, b
<1> QED
  BY <1>7, <1>9, <1>13, <1>15, <1>16, <1>17 DEF cf, a, b, r, W

\* jcc.hpp, eval_condition, and executor.hpp, cpu_executor_eval_jcc_condition: the second
\* table of the conditions, for the inlined branches, is the first one.
THEOREM TablesAgree ==
  \A f \in [Flags -> BOOLEAN] : \A cc \in 0..15 :
    cpu_executor_eval_jcc_condition(f, cc) <=> eval_condition([f |-> f], cc)
<1> SUFFICES ASSUME NEW f \in [Flags -> BOOLEAN], NEW cc \in 0..15
             PROVE  cpu_executor_eval_jcc_condition(f, cc) <=> eval_condition([f |-> f], cc)
  OBVIOUS
<1>1. /\ f["CF"] \in BOOLEAN /\ f["OF"] \in BOOLEAN /\ f["ZF"] \in BOOLEAN
      /\ f["SF"] \in BOOLEAN /\ f["PF"] \in BOOLEAN
  BY DEF Flags
<1>2. cc \in {0, 1, 2, 3, 4, 5, 6, 7, 8, 9, 10, 11, 12, 13, 14, 15}
  OBVIOUS
<1> QED
  BY <1>1, <1>2 DEF cpu_executor_eval_jcc_condition, eval_condition

\* cmp.hpp, calc.hpp, jcc.hpp, executor.hpp: after CMP x, y each of the sixteen conditions,
\* in either table, says of x and y, signed or unsigned, what its name says.
THEOREM ConditionsOfCmp ==
  \A n \in Sizes : \A x, y \in Word(n) : \A cc \in 0..15 :
    LET f == update_flags_sub(x, y, n)
    IN /\ eval_condition([f |-> f], cc) <=> Compares(cc, x, y, n)
       /\ cpu_executor_eval_jcc_condition(f, cc) <=> Compares(cc, x, y, n)
<1> SUFFICES ASSUME NEW n \in Sizes, NEW x \in Word(n), NEW y \in Word(n), NEW cc \in 0..15,
                    NEW f, f = update_flags_sub(x, y, n)
             PROVE  /\ eval_condition([f |-> f], cc) <=> Compares(cc, x, y, n)
                    /\ cpu_executor_eval_jcc_condition(f, cc) <=> Compares(cc, x, y, n)
  OBVIOUS
<1> DEFINE a == Signed(x, n)
           b == Signed(y, n)
           of == ~Fits(a - b, n)
           cf == x < y
           zf == x = y
           sf == Neg((x - y) % M(n), n)
           pf == Ones((x - y) % M(1)) % 2 = 0
           less == a < b
           most == a <= b
           below == x <= y
<1>1. /\ f["CF"] = cf /\ f["OF"] = of /\ f["ZF"] = zf /\ f["SF"] = sf /\ f["PF"] = pf
      /\ sf # of <=> less
      /\ zf <=> a = b
  BY ComparisonFlags
<1>2. x \in Int /\ y \in Int /\ a \in Int /\ b \in Int
  BY Powers DEF Word, Signed
<1>3. (most <=> less \/ zf) /\ (below <=> cf \/ zf)
  <2> HIDE DEF a, b
  <2> QED
    BY <1>1, <1>2
<1>4. cc \in {0, 1, 2, 3, 4, 5, 6, 7, 8, 9, 10, 11, 12, 13, 14, 15}
  OBVIOUS
<1>5. Compares(cc, x, y, n) <=>
        (CASE cc \div 2 = 0 -> of
           [] cc \div 2 = 1 -> cf
           [] cc \div 2 = 2 -> zf
           [] cc \div 2 = 3 -> below
           [] cc \div 2 = 4 -> sf
           [] cc \div 2 = 5 -> pf
           [] cc \div 2 = 6 -> less
           [] OTHER         -> most) # (cc % 2 = 1)
  BY DEF Compares
<1>6. /\ of \in BOOLEAN /\ cf \in BOOLEAN /\ zf \in BOOLEAN /\ sf \in BOOLEAN /\ pf \in BOOLEAN
      /\ less \in BOOLEAN /\ most \in BOOLEAN /\ below \in BOOLEAN
  BY DEF Neg, Fits
<1> HIDE DEF of, cf, zf, sf, pf, less, most, below
<1>7. eval_condition([f |-> f], cc) <=> Compares(cc, x, y, n)
  BY <1>1, <1>3, <1>4, <1>5, <1>6 DEF eval_condition
<1>8. cpu_executor_eval_jcc_condition(f, cc) <=> Compares(cc, x, y, n)
  BY <1>1, <1>3, <1>4, <1>5, <1>6 DEF cpu_executor_eval_jcc_condition
<1> QED
  BY <1>7, <1>8

-----------------------------------------------------------------------------
(* Numbers of two words                                                    *)

LEMMA NegProduct ==
  ASSUME NEW W \in Int, NEW a \in Int
  PROVE  -a \in Int /\ W * (-a) = -(W * a)
  OBVIOUS

LEMMA Distribute ==
  ASSUME NEW W \in Int, NEW a \in Int, NEW b \in Int, NEW c \in Int
  PROVE  W * (a + b + c) = W * a + W * b + W * c
  OBVIOUS

\* A low word in range leaves it to the high word whether the whole is in range.
LEMMA HighDecides ==
  ASSUME NEW W \in Nat \ {0}, NEW lo \in 0..W-1, NEW t \in Int, NEW m \in Int
  PROVE  /\ lo + W * t >= W * m <=> t >= m
         /\ lo + W * t < W * m <=> t < m
<1>1. CASE t >= m
  <2>1. W * (t - m) >= 0 /\ W * (t - m) = W * t - W * m
    BY <1>1
  <2> QED
    BY <1>1, <2>1
<1>2. CASE t < m
  <2>1. W * (m - t - 1) >= 0 /\ W * (m - t - 1) = W * m - W * t - W
    BY <1>2
  <2> QED
    BY <1>2, <2>1
<1> QED
  BY <1>1, <1>2

\* add.hpp and adc.hpp: ADD of the low words and ADC of the high ones compute the sum of the
\* two-word numbers, with the carry and the signed overflow of the whole.
THEOREM TwoWordSums ==
  \A n \in Sizes : \A xl, xh, yl, yh \in Word(n) :
    LET W   == M(n)
        cin == Num(update_flags_add(xl, yl, n)["CF"])
        f   == update_flags_adc(xh, yh, cin, n)
        sum == (xl + W * xh) + (yl + W * yh)
        signed == (xl + W * Signed(xh, n)) + (yl + W * Signed(yh, n))
    IN /\ ((xl + yl) % W) + W * ((xh + yh + cin) % W) = sum - W * W * Num(f["CF"])
       /\ f["CF"] <=> sum >= W * W
       /\ f["OF"] <=> signed < -(W * Sign(n)) \/ signed >= W * Sign(n)
<1> SUFFICES ASSUME NEW n \in Sizes, NEW xl \in Word(n), NEW xh \in Word(n),
                    NEW yl \in Word(n), NEW yh \in Word(n),
                    NEW W, W = M(n), NEW cin, cin = Num(update_flags_add(xl, yl, n)["CF"]),
                    NEW f, f = update_flags_adc(xh, yh, cin, n)
             PROVE  LET sum == (xl + W * xh) + (yl + W * yh)
                        signed == (xl + W * Signed(xh, n)) + (yl + W * Signed(yh, n))
                    IN /\ ((xl + yl) % W) + W * ((xh + yh + cin) % W) = sum - W * W * Num(f["CF"])
                       /\ f["CF"] <=> sum >= W * W
                       /\ f["OF"] <=> signed < -(W * Sign(n)) \/ signed >= W * Sign(n)
  OBVIOUS
<1> DEFINE S == Sign(n)
           g == update_flags_add(xl, yl, n)
           lo == (xl + yl) % W
           hi == (xh + yh + cin) % W
           a == Signed(xh, n)
           b == Signed(yh, n)
           k == Num(xh + yh + cin >= M(n))
           sum == (xl + W * xh) + (yl + W * yh)
           signed == (xl + W * a) + (yl + W * b)
<1>1. W \in Nat \ {0} /\ S \in Nat \ {0} /\ W = 2 * S
  BY Powers
<1>2. xl \in 0..W-1 /\ xh \in 0..W-1 /\ yl \in 0..W-1 /\ yh \in 0..W-1
  BY DEF Word
<1>3. a \in Int /\ b \in Int
  BY <1>1, <1>2 DEF Signed
<1>4. cin = Num(xl + yl >= W) /\ cin \in {0, 1} /\ lo \in 0..W-1 /\ lo = xl + yl - W * cin
  <2>1. xl + yl + 0 = xl + yl
    BY <1>1, <1>2
  <2>2. SumIs(n, xl, yl, 0, (xl + yl + 0) % M(n), Num(xl + yl + 0 >= M(n)))
    BY SumFacts
  <2>3. g["CF"] <=> xl + yl + 0 >= M(n)
    <3>1. update_flags_adc(xl, yl, 0, n)["CF"] <=> xl + yl + 0 >= M(n)
      BY SumFlags
    <3>2. g = update_flags_adc(xl, yl, 0, n)
      BY SumFlags
    <3> QED
      BY <3>1, <3>2
  <2>4. cin = Num(xl + yl >= W)
    BY <2>1, <2>3 DEF Num
  <2> QED
    BY <1>1, <1>2, <2>1, <2>2, <2>4 DEF SumIs, Word
<1>5. /\ hi \in 0..W-1 /\ k \in {0, 1} /\ hi = xh + yh + cin - W * k
  <2>1. SumIs(n, xh, yh, cin, hi, k)
    BY <1>4, SumFacts
  <2> QED
    BY <2>1 DEF SumIs, Word
<1>6. /\ f["CF"] <=> xh + yh + cin >= M(n)
      /\ f["OF"] <=> ~Fits(a + b + cin, n)
  BY <1>4, SumFlags
<1>7. Num(f["CF"]) = k /\ (f["CF"] <=> k = 1)
  BY <1>6 DEF Num
<1>8. f["OF"] <=> ~(a + b + cin \in -S..S-1)
  BY <1>6 DEF Fits
<1> HIDE DEF S, lo, hi, a, b, k, g
<1>9. lo + W * hi = sum - W * W * k
  <2>1. W * hi = W * (xh + yh + cin) - W * (W * k)
    BY <1>1, <1>2, <1>4, <1>5
  <2>2. W * (xh + yh + cin) = W * xh + W * yh + W * cin /\ W * W * k = W * (W * k)
    BY <1>1, <1>2, <1>4, <1>5
  <2> QED
    BY <1>1, <1>2, <1>4, <1>5, <2>1, <2>2
<1>10. f["CF"] <=> sum >= W * W
  <2> DEFINE t == xh + yh + cin
  <2>0. xh \in Int /\ yh \in Int /\ cin \in Int /\ W \in Int
    BY <1>1, <1>2, <1>4
  <2>1. t \in Int /\ W * t = W * xh + W * yh + W * cin
    BY <2>0, Distribute
  <2>2. sum = lo + W * t
    BY <1>1, <1>2, <1>4, <2>1
  <2>3. f["CF"] <=> t >= W
    BY <1>6
  <2> HIDE DEF t, sum
  <2>4. lo + W * t >= W * W <=> t >= W
    BY <1>1, <1>4, <2>0, <2>1, HighDecides
  <2> QED
    BY <2>2, <2>3, <2>4
<1>11. f["OF"] <=> signed < -(W * S) \/ signed >= W * S
  <2> DEFINE t == a + b + cin
             m == -S
  <2>1. t \in Int /\ W * t = W * a + W * b + W * cin
    BY <1>1, <1>3, <1>4
  <2>2. signed = lo + W * t
    BY <1>1, <1>2, <1>3, <1>4, <2>1
  <2>3. f["OF"] <=> t < m \/ t >= S
    BY <1>1, <1>8, <2>1
  <2>4. m \in Int /\ W * m = -(W * S) /\ S \in Int
    BY <1>1
  <2> HIDE DEF t, m, signed
  <2>5. lo + W * t >= W * S <=> t >= S
    BY <1>1, <1>4, <2>1, <2>4, HighDecides
  <2>6. lo + W * t < W * m <=> t < m
    BY <1>1, <1>4, <2>1, <2>4, HighDecides
  <2> QED
    BY <2>2, <2>3, <2>4, <2>5, <2>6
<1>12. lo + W * hi = sum - W * W * Num(f["CF"])
  BY <1>7, <1>9
<1> QED
  BY <1>10, <1>11, <1>12 DEF S, a, b, lo, hi

\* sub.hpp and sbb.hpp: SUB of the low words and SBB of the high ones compute the difference
\* of the two-word numbers, with the borrow and the signed overflow of the whole.
THEOREM TwoWordDifferences ==
  \A n \in Sizes : \A xl, xh, yl, yh \in Word(n) :
    LET W   == M(n)
        bin == Num(update_flags_sub(xl, yl, n)["CF"])
        f   == update_flags_sbb(xh, yh, bin, n)
        difference == (xl + W * xh) - (yl + W * yh)
        signed == (xl + W * Signed(xh, n)) - (yl + W * Signed(yh, n))
    IN /\ ((xl - yl) % W) + W * ((xh - yh - bin) % W) = difference + W * W * Num(f["CF"])
       /\ f["CF"] <=> difference < 0
       /\ f["OF"] <=> signed < -(W * Sign(n)) \/ signed >= W * Sign(n)
<1> SUFFICES ASSUME NEW n \in Sizes, NEW xl \in Word(n), NEW xh \in Word(n),
                    NEW yl \in Word(n), NEW yh \in Word(n),
                    NEW W, W = M(n), NEW bin, bin = Num(update_flags_sub(xl, yl, n)["CF"]),
                    NEW f, f = update_flags_sbb(xh, yh, bin, n)
             PROVE  LET difference == (xl + W * xh) - (yl + W * yh)
                        signed == (xl + W * Signed(xh, n)) - (yl + W * Signed(yh, n))
                    IN /\ ((xl - yl) % W) + W * ((xh - yh - bin) % W)
                            = difference + W * W * Num(f["CF"])
                       /\ f["CF"] <=> difference < 0
                       /\ f["OF"] <=> signed < -(W * Sign(n)) \/ signed >= W * Sign(n)
  OBVIOUS
<1> DEFINE S == Sign(n)
           g == update_flags_sub(xl, yl, n)
           lo == (xl - yl) % W
           hi == (xh - yh - bin) % W
           a == Signed(xh, n)
           b == Signed(yh, n)
           k == Num(xh < yh + bin)
           difference == (xl + W * xh) - (yl + W * yh)
           signed == (xl + W * a) - (yl + W * b)
<1>1. W \in Nat \ {0} /\ S \in Nat \ {0} /\ W = 2 * S
  BY Powers
<1>2. xl \in 0..W-1 /\ xh \in 0..W-1 /\ yl \in 0..W-1 /\ yh \in 0..W-1
  BY DEF Word
<1>3. a \in Int /\ b \in Int
  BY <1>1, <1>2 DEF Signed
<1>4. bin = Num(xl < yl) /\ bin \in {0, 1} /\ lo \in 0..W-1 /\ lo = xl - yl + W * bin
  <2>1. xl - yl - 0 = xl - yl /\ yl + 0 = yl
    BY <1>1, <1>2
  <2>2. DifferenceIs(n, xl, yl, 0, (xl - yl - 0) % M(n), Num(xl < yl + 0))
    BY DifferenceFacts
  <2>3. g["CF"] <=> xl < yl + 0
    <3>1. update_flags_sbb(xl, yl, 0, n)["CF"] <=> xl < yl + 0
      BY DifferenceFlags
    <3>2. g = update_flags_sbb(xl, yl, 0, n)
      BY DifferenceFlags
    <3> QED
      BY <3>1, <3>2
  <2>4. bin = Num(xl < yl)
    BY <2>1, <2>3 DEF Num
  <2> QED
    BY <1>1, <1>2, <2>1, <2>2, <2>4 DEF DifferenceIs, Word
<1>5. /\ hi \in 0..W-1 /\ k \in {0, 1} /\ hi = xh - yh - bin + W * k
  <2>1. DifferenceIs(n, xh, yh, bin, hi, k)
    BY <1>4, DifferenceFacts
  <2> QED
    BY <2>1 DEF DifferenceIs, Word
<1>6. /\ f["CF"] <=> xh < yh + bin
      /\ f["OF"] <=> ~Fits(a - b - bin, n)
  BY <1>4, DifferenceFlags
<1>7. Num(f["CF"]) = k /\ (f["CF"] <=> k = 1)
  BY <1>6 DEF Num
<1>8. f["OF"] <=> ~(a - b - bin \in -S..S-1)
  BY <1>6 DEF Fits
<1> HIDE DEF S, lo, hi, a, b, k, g
<1>A. /\ xh \in Int /\ -yh \in Int /\ -bin \in Int /\ W \in Int /\ -b \in Int
      /\ W * (-yh) = -(W * yh) /\ W * (-bin) = -(W * bin) /\ W * (-b) = -(W * b)
  <2>1. xh \in Int /\ yh \in Int /\ bin \in Int /\ W \in Int
    BY <1>1, <1>2, <1>4
  <2> QED
    BY <1>3, <2>1, NegProduct
<1>9. lo + W * hi = difference + W * W * k
  <2>1. W * hi = W * (xh - yh - bin) + W * (W * k)
    BY <1>1, <1>2, <1>4, <1>5
  <2>2. W * W * k = W * (W * k)
    BY <1>1, <1>5
  <2>3. W * (xh + (-yh) + (-bin)) = W * xh + W * (-yh) + W * (-bin)
    BY <1>A, Distribute
  <2>4. xh + (-yh) + (-bin) = xh - yh - bin
    BY <1>1, <1>2, <1>4
  <2> QED
    BY <1>1, <1>2, <1>4, <1>5, <1>A, <2>1, <2>2, <2>3, <2>4
<1>10. f["CF"] <=> difference < 0
  <2> DEFINE t == xh + (-yh) + (-bin)
             z == 0
  <2>1. t \in Int /\ W * t = W * xh + W * (-yh) + W * (-bin)
    BY <1>A, Distribute
  <2>2. difference = lo + W * t
    BY <1>1, <1>2, <1>4, <1>A, <2>1
  <2>3. f["CF"] <=> t < z
    BY <1>1, <1>2, <1>4, <1>6
  <2>4. z \in Int /\ W * z = 0
    BY <1>1
  <2> HIDE DEF t, z, difference
  <2>5. lo + W * t < W * z <=> t < z
    BY <1>1, <1>4, <2>1, <2>4, HighDecides
  <2> QED
    BY <2>2, <2>3, <2>4, <2>5
<1>11. f["OF"] <=> signed < -(W * S) \/ signed >= W * S
  <2> DEFINE t == a + (-b) + (-bin)
             m == -S
  <2>1. t \in Int /\ W * t = W * a + W * (-b) + W * (-bin)
    BY <1>3, <1>A, Distribute
  <2>2. signed = lo + W * t
    BY <1>1, <1>2, <1>3, <1>4, <1>A, <2>1
  <2>3. f["OF"] <=> t < m \/ t >= S
    <3>1. a + (-b) + (-bin) = a - b - bin
      BY <1>3, <1>4
    <3>2. t = a - b - bin /\ (f["OF"] <=> ~(t \in -S..S-1))
      BY <1>8, <3>1
    <3> HIDE DEF t
    <3> QED
      BY <1>1, <2>1, <3>2
  <2>4. m \in Int /\ W * m = -(W * S) /\ S \in Int
    BY <1>1
  <2> HIDE DEF t, m, signed
  <2>5. lo + W * t >= W * S <=> t >= S
    BY <1>1, <1>4, <2>1, <2>4, HighDecides
  <2>6. lo + W * t < W * m <=> t < m
    BY <1>1, <1>4, <2>1, <2>4, HighDecides
  <2> QED
    BY <2>2, <2>3, <2>4, <2>5, <2>6
<1>12. lo + W * hi = difference + W * W * Num(f["CF"])
  BY <1>7, <1>9
<1> QED
  BY <1>10, <1>11, <1>12 DEF S, a, b, lo, hi

-----------------------------------------------------------------------------
(* Sign extension                                                          *)

\* movsx.hpp, cbw.hpp, movsxd.hpp and the immediates of add.hpp: an extended word reads as
\* the same signed number, so that extending in two steps is extending in one.
THEOREM SignExtends ==
  \A n, w \in Sizes : n <= w => \A v \in Word(n) :
    Sext(v, n, w) \in Word(w) /\ Signed(Sext(v, n, w), w) = Signed(v, n)
<1> SUFFICES ASSUME NEW n \in Sizes, NEW w \in Sizes, n <= w, NEW v \in Word(n)
             PROVE  Sext(v, n, w) \in Word(w) /\ Signed(Sext(v, n, w), w) = Signed(v, n)
  OBVIOUS
<1> DEFINE N == M(n)
           S == Sign(n)
           W == M(w)
           T == Sign(w)
           a == Signed(v, n)
           r == Sext(v, n, w)
<1>1. /\ N \in Nat \ {0} /\ S \in Nat \ {0} /\ N = 2 * S
      /\ W \in Nat \ {0} /\ T \in Nat \ {0} /\ W = 2 * T
  BY Powers
<1>2. N <= W
  <2> DEFINE i == B * n
             j == B * w - B * n
  <2>1. i \in 0..8*B /\ j \in 0..8*B /\ i + j <= 8*B /\ i + j = B * w
    BY CalcAssumption DEF Sizes
  <2> HIDE DEF i, j
  <2>2. 2^i \in Nat \ {0} /\ 2^j \in Nat \ {0} /\ 2^(i + j) = 2^i * 2^j
    BY <2>1, PowerSum
  <2>3. W = 2^i * 2^j
    BY <2>1, <2>2 DEF M
  <2>4. N = 2^i
    BY DEF M, i
  <2> DEFINE q == 2^j
  <2>5. N * q = N + N * (q - 1) /\ N * (q - 1) >= 0
    BY <1>1, <2>2
  <2> QED
    BY <1>1, <2>2, <2>3, <2>4, <2>5
<1>3. v \in 0..N-1
  BY DEF Word
<1>4. a = IF v >= S THEN v - N ELSE v
  BY DEF Signed, Neg
<1>5. r = a % W
  BY DEF Sext
<1>6. (r >= T => Signed(r, w) = r - W) /\ (~(r >= T) => Signed(r, w) = r)
  BY DEF Signed, Neg
<1> HIDE DEF N, S, W, T, a, r
<1>7. a \in Int /\ -W <= a /\ a < W /\ -T <= a /\ a < T
  BY <1>1, <1>2, <1>3, <1>4
<1>8. (a < 0 => a % W = a + W) /\ (~(a < 0) => a % W = a)
  BY <1>1, <1>7, Wraps
<1>9. r \in 0..W-1 /\ Signed(r, w) = a
  BY <1>1, <1>5, <1>6, <1>7, <1>8
<1> QED
  BY <1>9 DEF a, r, W, Word

=============================================================================
