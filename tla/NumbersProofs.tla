---------------------------- MODULE NumbersProofs ----------------------------
(***************************************************************************)
(* Theorems about the numbers of fix32.c, for halves of every width.       *)
(***************************************************************************)
EXTENDS Numbers, InductionLemmas

(***************************************************************************)
(* Lemmas                                                                  *)
(***************************************************************************)
LEMMA PowerIs ==
  ASSUME NEW x \in Int
  PROVE  /\ Power(x, 0) = 1
         /\ \A n \in Nat : Power(x, n) \in Int /\ Power(x, n + 1) = x * Power(x, n)
<1> DEFINE step == [y \in Int |-> x * y]
           G == [n \in Nat |-> step]
           Up(f) == [k \in Nat |-> IF k = 0 THEN 1 ELSE x * f[k - 1]]
           f == CHOOSE f : f = Up(f)
<1>1. step \in [Int -> Int] /\ \A y \in Int : step[y] = x * y
  OBVIOUS
<1> HIDE DEF step
<1>2. G \in Recursions(Int) /\ \A n \in Nat : G[n] = step
  BY <1>1 DEF Recursions
<1> HIDE DEF G
<1>3. PICK g \in [Nat -> Int] : g[0] = 1 /\ \A i \in Nat : g[i + 1] = x * g[i]
  <2>1. Solutions(Int, 1, G) # {}
    BY <1>2, RecursionOnNat
  <2>2. PICK g \in [Nat -> Int] : g[0] = 1 /\ \A i \in Nat : g[i + 1] = G[i + 1][g[i]]
    BY <2>1 DEF Solutions
  <2>3. ASSUME NEW i \in Nat PROVE g[i + 1] = x * g[i]
    <3>1. g[i] \in Int /\ g[i + 1] = step[g[i]]
      BY <1>2, <2>2
    <3> QED
      BY <3>1, <1>1
  <2> QED
    BY <2>2, <2>3
<1>4. g = Up(g)
  <2>1. ASSUME NEW n \in Nat PROVE g[n] = Up(g)[n]
    <3>1. CASE n = 0
      BY <3>1, <1>3
    <3>2. CASE n # 0
      <4>1. n - 1 \in Nat /\ (n - 1) + 1 = n
        BY <3>2
      <4>2. g[n] = x * g[n - 1]
        BY <4>1, <1>3
      <4> QED
        BY <4>2, <3>2
    <3> QED
      BY <3>1, <3>2
  <2> QED
    BY <2>1, <1>3
<1>5. f = Up(f)
  BY <1>4
<1>6. \A n \in Nat : Power(x, n) = f[n]
  BY DEF Power
<1> HIDE DEF f
<1>7. f[0] = 1
  BY <1>5
<1>8. ASSUME NEW n \in Nat PROVE f[n + 1] = x * f[n]
  <2>1. (n + 1) - 1 = n /\ n + 1 # 0 /\ n + 1 \in Nat
    OBVIOUS
  <2>2. f[n + 1] = x * f[(n + 1) - 1]
    BY <2>1, <1>5
  <2> QED
    BY <2>1, <2>2
<1> DEFINE T == {n \in Nat : f[n] \in Int}
<1>9. 0 \in T
  BY <1>7
<1>10. ASSUME NEW n \in Nat, n \in T PROVE n + 1 \in T
  BY <1>8, <1>10
<1> HIDE DEF T
<1>11. \A n \in Nat : f[n] \in Int
  BY <1>9, <1>10, NatInd DEF T
<1> QED
  BY <1>6, <1>7, <1>8, <1>11

LEMMA PowerPositive ==
  ASSUME NEW x \in Nat, x > 1
  PROVE  \A n \in Nat : Power(x, n) \in Nat /\ Power(x, n) > n
<1> DEFINE T == {n \in Nat : Power(x, n) \in Nat /\ Power(x, n) > n}
<1>1. 0 \in T
  BY PowerIs
<1>2. ASSUME NEW n \in Nat, n \in T PROVE n + 1 \in T
  <2>1. PICK y \in Nat : y = Power(x, n) /\ y > n
    BY <1>2
  <2>2. Power(x, n + 1) = x * y
    BY <2>1, PowerIs
  <2>3. PICK d \in Nat : x = 2 + d
    <3>1. x - 2 \in Nat /\ x = 2 + (x - 2)
      OBVIOUS
    <3> QED
      BY <3>1
  <2>4. x * y = 2 * y + d * y /\ d * y \in Nat
    BY <2>3
  <2>5. x * y \in Nat /\ x * y > n + 1
    BY <2>1, <2>4
  <2> QED
    BY <2>2, <2>5
<1> HIDE DEF T
<1> QED
  BY <1>1, <1>2, NatInd DEF T

LEMMA PowerSum ==
  ASSUME NEW x \in Int, NEW m \in Nat
  PROVE  \A n \in Nat : Power(x, m + n) = Power(x, m) * Power(x, n)
<1> DEFINE T == {n \in Nat : Power(x, m + n) = Power(x, m) * Power(x, n)}
<1>1. 0 \in T
  BY PowerIs
<1>2. ASSUME NEW n \in Nat, n \in T PROVE n + 1 \in T
  <2>1. Power(x, m + (n + 1)) = x * Power(x, m + n)
    <3>1. m + (n + 1) = (m + n) + 1 /\ m + n \in Nat
      OBVIOUS
    <3> QED
      BY <3>1, PowerIs
  <2>2. PICK y \in Int, z \in Int : y = Power(x, m) /\ z = Power(x, n)
    BY PowerIs
  <2>3. x * (y * z) = y * (x * z)
    OBVIOUS
  <2> QED
    BY <1>2, <2>1, <2>2, <2>3, PowerIs
<1> HIDE DEF T
<1> QED
  BY <1>1, <1>2, NatInd DEF T

LEMMA Widths ==
  /\ Half \in Nat /\ Half > 16 /\ Half > 0 /\ One \in Nat /\ One = 2 * Half /\ One > 0
  /\ Half * One \in Nat /\ Half * One > 0
<1>0. Half \in Nat /\ Half > 16
  <2>1. HalfBits - 6 \in Nat /\ HalfBits - 1 = 5 + (HalfBits - 6)
    BY Fix32Assumption
  <2>2. Power(2, 5) = 32
    <3>1. /\ Power(2, 0 + 1) = 2 * Power(2, 0) /\ Power(2, 1 + 1) = 2 * Power(2, 1)
          /\ Power(2, 2 + 1) = 2 * Power(2, 2) /\ Power(2, 3 + 1) = 2 * Power(2, 3)
          /\ Power(2, 4 + 1) = 2 * Power(2, 4) /\ Power(2, 0) = 1
      BY PowerIs
    <3> QED
      BY <3>1
  <2>3. PICK y \in Nat : y = Power(2, HalfBits - 6) /\ y > 0
    BY <2>1, PowerPositive
  <2>4. Half = 32 * y
    BY <2>1, <2>2, <2>3, PowerSum, Fix32Assumption
  <2> QED
    BY <2>3, <2>4
<1>1. Half \in Nat /\ Half > 0 /\ One \in Nat /\ One = 2 * Half /\ One > 0
  BY <1>0 DEF One
<1>2. ASSUME NEW x \in Nat, NEW y \in Nat, x > 0, y > 0
      PROVE  x * y \in Nat /\ x * y > 0
  BY <1>2, SMT
<1> QED
  BY <1>0, <1>1, <1>2

\* The cast to a signed type of either width stays in its range.
LEMMA SignedRange ==
  ASSUME NEW n \in Int, NEW half \in Nat, half > 0
  PROVE  Signed(n, half) \in -half .. half - 1
<1> DEFINE r == (n + half) % (2 * half)
<1>1. r \in 0 .. 2 * half - 1
  OBVIOUS
<1> HIDE DEF r
<1>2. Signed(n, half) = r - half
  BY DEF Signed, r
<1> QED
  BY <1>1, <1>2

LEMMA Fix32Type ==
  ASSUME NEW i \in Int, NEW f \in Int
  PROVE  fix32(i, f) \in fix32_t
<1>1. i16(i) \in IntMin .. IntMax
  BY SignedRange, Widths DEF i16, IntMin, IntMax
<1>2. f % One \in 0 .. One - 1
  BY Widths
<1> QED
  BY <1>1, <1>2 DEF fix32, fix32_t

LEMMA FromBitsType ==
  ASSUME NEW n \in Int
  PROVE  from_bits(n) \in fix32_t
<1>1. Word \in Nat /\ Word > 0
  BY Widths DEF Word
<1>2. (n % Word) \in Int
  BY <1>1
<1>3. (n % Word) \div One \in Int
  BY <1>2, Widths
<1> QED
  BY <1>3, Fix32Type DEF from_bits

LEMMA BitsType ==
  ASSUME NEW x \in fix32_t
  PROVE  x.i \in IntMin .. IntMax /\ x.f \in 0 .. One - 1
         /\ x.i \in Int /\ x.f \in Int /\ to_bits(x) \in Int
<1>1. x.i \in IntMin .. IntMax /\ x.f \in 0 .. One - 1
  BY DEF fix32_t
<1>2. x.i \in Int /\ x.f \in Int
  BY <1>1, Widths DEF IntMin, IntMax
<1>3. x.i * One \in Int
  BY <1>2, Widths
<1> QED
  BY <1>1, <1>2, <1>3 DEF to_bits

LEMMA i32Type ==
  ASSUME NEW n \in Int
  PROVE  i32(n) \in Int
BY SignedRange, Widths DEF i32

LEMMA CDivType ==
  ASSUME NEW n \in Int, NEW d \in Int, d # 0
  PROVE  CDiv(n, d) \in Int
<1>1. Abs(n) \in Int /\ Abs(d) \in Int /\ Abs(d) > 0
  BY DEF Abs
<1>2. Abs(n) \div Abs(d) \in Int
  BY <1>1
<1> QED
  BY <1>2 DEF CDiv

LEMMA FlrType ==
  ASSUME NEW x \in fix32_t
  PROVE  flr(x) \in fix32_t
<1>1. x.i \in Int /\ 0 \in Int
  BY BitsType
<1>2. fix32(x.i, 0) \in fix32_t
  BY <1>1, Fix32Type
<1> QED
  BY <1>2 DEF flr

LEMMA ArithmeticType ==
  ASSUME NEW x \in fix32_t, NEW y \in fix32_t
  PROVE  add(x, y) \in fix32_t /\ sub(x, y) \in fix32_t /\ mul(x, y) \in fix32_t
<1> DEFINE X == to_bits(x)
           Y == to_bits(y)
<1>1. X \in Int /\ Y \in Int
  BY BitsType
<1> HIDE DEF X, Y
<1>2. X + Y \in Int /\ X - Y \in Int /\ X * Y \in Int
  BY <1>1
<1>3. (X * Y) \div One \in Int
  BY <1>2, Widths
<1>4. i32(X + Y) \in Int /\ i32(X - Y) \in Int /\ i32((X * Y) \div One) \in Int
  BY <1>2, <1>3, i32Type
<1> QED
  BY <1>4, FromBitsType DEF add, sub, mul, X, Y

LEMMA DivType ==
  ASSUME NEW x \in fix32_t, NEW y \in fix32_t
  PROVE  div(x, y) \in fix32_t
<1> DEFINE X == to_bits(x)
           Y == to_bits(y)
<1>1. X \in Int /\ Y \in Int
  BY BitsType
<1> HIDE DEF X, Y
<1>2. ASSUME Y # 0 PROVE from_bits(i32(CDiv(X * One, Y))) \in fix32_t
  <2>1. X * One \in Int
    BY <1>1, Widths
  <2>2. CDiv(X * One, Y) \in Int
    BY <2>1, <1>1, <1>2, CDivType
  <2> QED
    BY <2>2, i32Type, FromBitsType
<1>3. from_bits(Half * One - 1) \in fix32_t /\ from_bits(1 - Half * One) \in fix32_t
  BY Widths, FromBitsType
<1>4. div(x, y) = IF Y = One THEN x
                  ELSE IF Y # 0 THEN from_bits(i32(CDiv(X * One, Y)))
                  ELSE from_bits(IF X >= 0 THEN Half * One - 1 ELSE 1 - Half * One)
  BY DEF div, X, Y
<1> QED
  BY <1>2, <1>3, <1>4

LEMMA ModType ==
  ASSUME NEW x \in fix32_t, NEW y \in fix32_t
  PROVE  mod(x, y) \in fix32_t
BY DivType, FlrType, ArithmeticType DEF mod

LEMMA RoundingType ==
  ASSUME NEW x \in fix32_t
  PROVE  invert_sign(x) \in fix32_t /\ abs(x) \in fix32_t /\ ceil(x) \in fix32_t
<1>1. x.i \in Int /\ x.f \in Int
  BY BitsType
<1>2. -x.i \in Int /\ -x.i - 1 \in Int /\ One - x.f \in Int /\ x.i + 1 \in Int
  BY <1>1, Widths
<1>3. /\ fix32(-x.i, 0) \in fix32_t /\ fix32(-x.i - 1, One - x.f) \in fix32_t
      /\ fix32(x.i + 1, 0) \in fix32_t
  BY <1>2, Fix32Type
<1>4. invert_sign(x) \in fix32_t
  BY <1>3 DEF invert_sign
<1> QED
  BY <1>3, <1>4 DEF abs, ceil

LEMMA WaveType ==
  ASSUME NEW x \in fix32_t
  PROVE  cos(x) \in fix32_t /\ sin(x) \in fix32_t
<1>1. /\ Fraction(1, 4) \in fix32_t /\ Fraction(1, 2) \in fix32_t
      /\ Fraction(225, 1000) \in fix32_t
  <2>1. /\ (1 * One) \div 4 \in Int /\ (1 * One) \div 2 \in Int
        /\ (225 * One) \div 1000 \in Int
    BY Widths
  <2> QED
    BY <2>1, FromBitsType DEF Fraction
<1>2. from_int(16) \in fix32_t /\ from_int(1) \in fix32_t
  BY Fix32Type DEF from_int
<1>3. ASSUME NEW n \in fix32_t PROVE cos(n) \in fix32_t
  <2> DEFINE z == sub(n, add(Fraction(1, 4), flr(add(n, Fraction(1, 4)))))
             y == mul(z, mul(from_int(16), sub(abs(z), Fraction(1, 2))))
  <2>1. z \in fix32_t
    BY <1>1, ArithmeticType, FlrType
  <2> HIDE DEF z
  <2>2. abs(z) \in fix32_t
    BY <2>1, RoundingType
  <2>3. y \in fix32_t
    BY <1>1, <1>2, <2>1, <2>2, ArithmeticType
  <2> HIDE DEF y
  <2>4. abs(y) \in fix32_t
    BY <2>3, RoundingType
  <2>5. add(y, mul(Fraction(225, 1000), mul(y, sub(abs(y), from_int(1))))) \in fix32_t
    BY <1>1, <1>2, <2>3, <2>4, ArithmeticType
  <2> QED
    BY <2>5 DEF cos, y, z
<1>4. sub(invert_sign(x), Fraction(1, 4)) \in fix32_t
  BY <1>1, RoundingType, ArithmeticType
<1> QED
  BY <1>3, <1>4 DEF sin

LEMMA ShiftType ==
  ASSUME NEW x \in fix32_t, NEW n \in 0 .. 2 * HalfBits - 1
  PROVE  shr(x, n) \in fix32_t /\ shl(x, n) \in fix32_t
<1> DEFINE w == to_bits(x) % Word
           p == Power(2, n)
<1>1. w \in Int
  BY BitsType, Widths DEF Word
<1>2. p \in Nat \ {0}
  <2>1. n \in Nat
    BY Fix32Assumption
  <2>2. Power(2, n) \in Nat /\ Power(2, n) > n
    BY <2>1, PowerPositive
  <2> QED
    BY <2>1, <2>2
<1> HIDE DEF w, p
<1>3. w \div p \in Int /\ w * p \in Int
  BY <1>1, <1>2
<1> QED
  BY <1>3, FromBitsType DEF shr, shl, w, p

(***************************************************************************)
(* Every assignment yields a number of the type.                           *)
(***************************************************************************)
LEMMA OperandsType == Operands \subseteq fix32_t
<1> SUFFICES ASSUME NEW n \in OperandBits PROVE from_bits(n) \in fix32_t
  BY DEF Operands
<1>1. n \in Int
  BY NumbersAssumption, Widths DEF Word
<1> QED
  BY <1>1, FromBitsType

\* a and b are always fix32_t: every function cuts its result to the two halves.
THEOREM NumbersTypeCorrect == Spec => []NumTypeOK
<1>1. Init => NumTypeOK
  <2>1. from_int(0) \in fix32_t
    BY Fix32Type DEF from_int
  <2> QED
    BY <2>1, OperandsType DEF Init, NumTypeOK
<1>2. NumTypeOK /\ [Next]_vars => NumTypeOK'
  <2> SUFFICES ASSUME NumTypeOK, [Next]_vars PROVE NumTypeOK'
    OBVIOUS
  <2> USE DEF NumTypeOK
  <2>1. CASE assign
    BY <2>1, OperandsType DEF assign
  <2>2. CASE _pluseq
    BY <2>2, ArithmeticType DEF _pluseq
  <2>3. CASE _minuseq
    BY <2>3, ArithmeticType DEF _minuseq
  <2>4. CASE _muleq
    BY <2>4, ArithmeticType DEF _muleq
  <2>5. CASE _diveq
    BY <2>5, DivType DEF _diveq
  <2>6. CASE _modeq
    BY <2>6, ModType DEF _modeq
  <2>7. CASE _floor_div
    BY <2>7, DivType, FlrType DEF _floor_div
  <2>8. CASE _invert_sign \/ _ceil \/ _flr
    BY <2>8, RoundingType, FlrType DEF _invert_sign, _ceil, _flr
  <2>9. CASE _min
    BY <2>9 DEF _min, min
  <2>10. CASE _cos \/ _sin
    BY <2>10, WaveType DEF _cos, _sin
  <2>11. CASE _shr \/ _shl
    BY <2>11, ShiftType DEF _shr, _shl, Shiftable
  <2>12. CASE UNCHANGED vars
    BY <2>12 DEF vars
  <2> QED
    BY <2>1, <2>2, <2>3, <2>4, <2>5, <2>6, <2>7, <2>8, <2>9, <2>10, <2>11, <2>12 DEF Next
<1> QED
  BY <1>1, <1>2, PTL DEF Spec

(***************************************************************************)
(* The order of the halves is the order of the words.                      *)
(***************************************************************************)
LEMMA TimesMonotone ==
  ASSUME NEW x \in Int, NEW y \in Int, NEW n \in Nat, x < y
  PROVE  x * n + n <= y * n /\ x * n \in Int /\ y * n \in Int
<1>1. y = x + 1 + (y - x - 1) /\ y - x - 1 \in Nat
  OBVIOUS
<1>2. PICK d \in Nat : y = x + 1 + d
  BY <1>1
<1>3. d * n \in Nat /\ x * n \in Int
  OBVIOUS
<1>4. (x + 1 + d) * n = x * n + n + d * n
  OBVIOUS
<1> QED
  BY <1>2, <1>3, <1>4

LEMMA LessIsLess ==
  ASSUME NEW x \in fix32_t, NEW y \in fix32_t,
         x.i < y.i \/ (x.i = y.i /\ x.f < y.f)
  PROVE  to_bits(x) < to_bits(y)
<1>1. x.i \in Int /\ y.i \in Int /\ x.f \in 0 .. One - 1 /\ y.f \in 0 .. One - 1 /\ One \in Nat
  BY BitsType, Widths
<1> DEFINE p == x.i * One
           q == y.i * One
<1>2. to_bits(x) = p + x.f /\ to_bits(y) = q + y.f
  BY DEF to_bits
<1>3. p \in Int /\ q \in Int
  BY <1>1
<1>4. CASE x.i < y.i
  <2>1. p + One <= q
    BY <1>1, <1>4, TimesMonotone
  <2> HIDE DEF p, q
  <2> QED
    BY <2>1, <1>1, <1>2, <1>3
<1>5. CASE x.i = y.i /\ x.f < y.f
  <2>1. p = q
    BY <1>5
  <2> HIDE DEF p, q
  <2> QED
    BY <2>1, <1>1, <1>2, <1>3, <1>5
<1> QED
  BY <1>4, <1>5

LEMMA EqualIsEqual ==
  ASSUME NEW x \in fix32_t, NEW y \in fix32_t, x.i = y.i, x.f = y.f
  PROVE  to_bits(x) = to_bits(y)
BY DEF to_bits

LEMMA ComparisonsExact ==
  ASSUME NEW x \in fix32_t, NEW y \in fix32_t
  PROVE  /\ lt(x, y)  <=> to_bits(x) < to_bits(y)
         /\ gt(x, y)  <=> to_bits(x) > to_bits(y)
         /\ leq(x, y) <=> to_bits(x) <= to_bits(y)
         /\ geq(x, y) <=> to_bits(x) >= to_bits(y)
<1> DEFINE X == to_bits(x)
           Y == to_bits(y)
<1>1. X \in Int /\ Y \in Int
  BY BitsType
<1>2. x.i \in Int /\ y.i \in Int /\ x.f \in Int /\ y.f \in Int
  BY BitsType
<1>3. x.i < y.i \/ (x.i = y.i /\ x.f < y.f) => X < Y
  BY LessIsLess
<1>4. y.i < x.i \/ (y.i = x.i /\ y.f < x.f) => Y < X
  BY LessIsLess
<1>5. x.i = y.i /\ x.f = y.f => X = Y
  BY EqualIsEqual
<1> HIDE DEF X, Y
<1>6. /\ lt(x, y)  <=> X < Y
      /\ gt(x, y)  <=> X > Y
      /\ leq(x, y) <=> X <= Y
      /\ geq(x, y) <=> X >= Y
  BY <1>1, <1>2, <1>3, <1>4, <1>5 DEF lt, gt, leq, geq
<1> QED
  BY <1>6 DEF X, Y

\* lt, gt, leq, geq and min order all numbers as their words.
THEOREM OrderAlwaysExact == Spec => []OrderIsExact
<1>1. NumTypeOK => OrderIsExact
  <2> SUFFICES ASSUME NumTypeOK PROVE OrderIsExact
    OBVIOUS
  <2>1. a \in fix32_t /\ b \in fix32_t /\ A \in Int /\ B \in Int
    BY BitsType DEF NumTypeOK, A, B
  <2>2. min(a, b) \in {a, b} /\ (min(a, b) = a <=> lt(a, b) \/ a = b)
    BY <2>1 DEF min
  <2>3. /\ lt(a, b) <=> A < B
        /\ gt(a, b) <=> A > B
        /\ leq(a, b) <=> A <= B
        /\ geq(a, b) <=> A >= B
    BY <2>1, ComparisonsExact DEF A, B
  <2>4. leq(a, a) /\ leq(b, b) /\ (leq(b, a) <=> B <= A)
    BY <2>1, ComparisonsExact DEF A, B
  <2>5. to_bits(min(a, b)) \in {A, B}
    BY <2>2 DEF A, B
  <2>6. leq(min(a, b), a) /\ leq(min(a, b), b)
    BY <2>1, <2>3, <2>4 DEF min
  <2> QED
    BY <2>3, <2>5, <2>6 DEF OrderIsExact
<1> QED
  BY <1>1, NumbersTypeCorrect, PTL

(***************************************************************************)
(* Inverting the sign through the halves is inverting the word.            *)
(***************************************************************************)
LEMMA SignedIsIdentity ==
  ASSUME NEW n \in Int, NEW half \in Nat, -half <= n, n < half
  PROVE  Signed(n, half) = n
<1>1. n + half \in 0 .. 2 * half - 1 /\ 2 * half > 0
  OBVIOUS
<1>2. ASSUME NEW m \in Int, NEW d \in Int, m \in 0 .. d - 1, d > 0 PROVE m % d = m
  BY <1>2
<1>3. (n + half) % (2 * half) = n + half
  BY <1>1, <1>2
<1> QED
  BY <1>3 DEF Signed

LEMMA SignedOverflows ==
  ASSUME NEW half \in Nat, half > 0
  PROVE  Signed(half, half) = -half
<1>1. half + half = 2 * half /\ 2 * half \in Nat /\ 2 * half > 0
  OBVIOUS
<1>2. ASSUME NEW d \in Nat, d > 0 PROVE d % d = 0
  BY <1>2
<1>3. (half + half) % (2 * half) = 0
  BY <1>1, <1>2
<1> QED
  BY <1>3 DEF Signed

\* A number is a word of its width.
LEMMA BitsRange ==
  ASSUME NEW x \in fix32_t
  PROVE  /\ to_bits(x) \in Int /\ -(Half * One) <= to_bits(x) /\ to_bits(x) < Half * One
         /\ x.i >= 0 => to_bits(x) >= 0
         /\ x.i < 0 => to_bits(x) < 0
         /\ to_bits(x) = -(Half * One) <=> x.i = -Half /\ x.f = 0
<1>1. /\ x.i \in -Half .. Half - 1 /\ x.f \in 0 .. One - 1
      /\ x.i \in Int /\ x.f \in Int /\ to_bits(x) \in Int
  BY BitsType DEF IntMin, IntMax
<1> DEFINE p == x.i * One
           H == Half * One
<1>2. to_bits(x) = p + x.f
  BY DEF to_bits
<1>3. p \in Int /\ H \in Nat /\ (-Half) * One = -H /\ One \in Nat /\ Half \in Nat /\ One > 0
  BY <1>1, Widths
<1>4. p + One <= H
  BY <1>1, <1>3, TimesMonotone
<1>5. x.i = -Half => p = -H
  BY <1>3
<1>6. x.i # -Half => p >= -H + One
  <2> SUFFICES ASSUME x.i # -Half PROVE p >= -H + One
    OBVIOUS
  <2>1. -Half < x.i /\ -Half \in Int
    BY <1>1, <1>3
  <2>2. (-Half) * One + One <= x.i * One
    BY <2>1, <1>1, <1>3, TimesMonotone
  <2> HIDE DEF H
  <2> QED
    BY <2>2, <1>1, <1>3
<1>7. x.i >= 0 => p >= 0
  BY <1>1, <1>3
<1>8. x.i < 0 => p + One <= 0
  <2> SUFFICES ASSUME x.i < 0 PROVE p + One <= 0
    OBVIOUS
  <2>1. x.i * One + One <= 0 * One
    BY <1>1, <1>3, TimesMonotone
  <2> QED
    BY <2>1, <1>3
<1> HIDE DEF p, H
<1>9. /\ -H <= p + x.f /\ p + x.f < H
      /\ x.i >= 0 => p + x.f >= 0
      /\ x.i < 0 => p + x.f < 0
      /\ p + x.f = -H <=> x.i = -Half /\ x.f = 0
  BY <1>1, <1>3, <1>4, <1>5, <1>6, <1>7, <1>8
<1> QED
  BY <1>1, <1>2, <1>9 DEF H

LEMMA InvertExact ==
  ASSUME NEW x \in fix32_t
  PROVE  to_bits(invert_sign(x)) = i32(-to_bits(x))
<1> DEFINE X == to_bits(x)
           H == Half * One
<1>1. /\ x.i \in -Half .. Half - 1 /\ x.f \in 0 .. One - 1
      /\ x.i \in Int /\ x.f \in Int /\ X \in Int
  BY BitsType DEF IntMin, IntMax
<1>2. /\ -H <= X /\ X < H /\ H \in Nat /\ H > 0
      /\ X = -H <=> x.i = -Half /\ x.f = 0
  BY BitsRange, Widths
<1>3. X # -H => i32(-X) = -X
  <2> SUFFICES ASSUME X # -H PROVE i32(-X) = -X
    OBVIOUS
  <2> HIDE DEF X, H
  <2>1. -X \in Int /\ -H <= -X /\ -X < H
    BY <1>1, <1>2
  <2>2. Signed(-X, H) = -X
    BY <2>1, <1>2, SignedIsIdentity
  <2> QED
    BY <2>2 DEF i32, H
<1>4. CASE x.f = 0 /\ x.i = -Half
  <2>1. i16(-x.i) = -Half
    BY <1>4, SignedOverflows, Widths DEF i16
  <2>2. invert_sign(x) = [i |-> -Half, f |-> 0 % One]
    BY <1>4, <2>1 DEF invert_sign, fix32
  <2>3. 0 % One = 0
    BY Widths
  <2>4. to_bits(invert_sign(x)) = -H
    <3>1. (-Half) * One + 0 = -H
      BY Widths
    <3> QED
      BY <2>2, <2>3, <3>1 DEF to_bits
  <2>5. i32(-X) = -H
    <3>1. -X = H
      <4> HIDE DEF X, H
      <4> QED
        BY <1>1, <1>2, <1>4
    <3> HIDE DEF X, H
    <3>2. Signed(H, H) = -H
      BY <1>2, SignedOverflows
    <3> QED
      BY <3>1, <3>2 DEF i32, H
  <2> QED
    BY <2>4, <2>5
<1>5. CASE x.f = 0 /\ x.i # -Half
  <2>1. -x.i \in Int /\ -Half <= -x.i /\ -x.i < Half
    BY <1>1, <1>5, Widths
  <2>2. i16(-x.i) = -x.i
    BY <2>1, SignedIsIdentity, Widths DEF i16
  <2>3. 0 % One = 0
    BY Widths
  <2>4. invert_sign(x) = [i |-> -x.i, f |-> 0]
    BY <1>5, <2>2, <2>3 DEF invert_sign, fix32
  <2>5. (-x.i) * One + 0 = -(x.i * One + x.f)
    BY <1>1, <1>5, Widths
  <2>6. to_bits(invert_sign(x)) = -X
    BY <2>4, <2>5 DEF to_bits
  <2> QED
    BY <2>6, <1>2, <1>3, <1>5
<1>6. CASE x.f # 0
  <2>1. -x.i - 1 \in Int /\ -Half <= -x.i - 1 /\ -x.i - 1 < Half
    BY <1>1, Widths
  <2>2. i16(-x.i - 1) = -x.i - 1
    BY <2>1, SignedIsIdentity, Widths DEF i16
  <2>3. (One - x.f) % One = One - x.f
    <3>1. One - x.f \in 0 .. One - 1 /\ One > 0 /\ One \in Int
      BY <1>1, <1>6, Widths
    <3> QED
      BY <3>1
  <2>4. invert_sign(x) = [i |-> -x.i - 1, f |-> One - x.f]
    BY <1>6, <2>2, <2>3 DEF invert_sign, fix32
  <2>5. (-x.i - 1) * One + (One - x.f) = -(x.i * One + x.f)
    BY <1>1, Widths
  <2>6. to_bits(invert_sign(x)) = -X
    BY <2>4, <2>5 DEF to_bits
  <2> QED
    BY <2>6, <1>2, <1>3, <1>6
<1> QED
  BY <1>4, <1>5, <1>6

LEMMA AbsExact ==
  ASSUME NEW x \in fix32_t
  PROVE  to_bits(abs(x)) = i32(Abs(to_bits(x)))
<1> DEFINE X == to_bits(x)
           H == Half * One
<1>1. x.i \in Int /\ X \in Int /\ H \in Nat /\ -H <= X /\ X < H
  BY BitsType, BitsRange, Widths
<1>2. CASE x.i >= 0
  <2>1. X >= 0
    BY <1>2, BitsRange
  <2>2. Abs(X) = X
    <3> HIDE DEF X
    <3> QED
      BY <1>1, <2>1 DEF Abs
  <2>3. Signed(X, H) = X
    <3> HIDE DEF X, H
    <3> QED
      BY <1>1, SignedIsIdentity
  <2> QED
    BY <1>2, <2>2, <2>3 DEF abs, i32
<1>3. CASE ~(x.i >= 0)
  <2>1. X < 0
    BY <1>1, <1>3, BitsRange
  <2>2. Abs(X) = -X
    <3> HIDE DEF X
    <3> QED
      BY <1>1, <2>1 DEF Abs
  <2> QED
    BY <1>3, <2>2, InvertExact DEF abs
<1> QED
  BY <1>2, <1>3

LEMMA FloorExact ==
  ASSUME NEW x \in fix32_t
  PROVE  /\ to_bits(x) - to_bits(flr(x)) \in 0 .. One - 1
         /\ x.i < IntMax => to_bits(ceil(x)) - to_bits(x) \in 0 .. One - 1
<1>1. /\ x.i \in -Half .. Half - 1 /\ x.f \in 0 .. One - 1
      /\ x.i \in Int /\ x.f \in Int /\ Half \in Nat /\ One \in Nat /\ One > 0
  BY BitsType, Widths DEF IntMin, IntMax
<1>2. 0 % One = 0
  BY Widths
<1>3. x.i * One \in Int /\ (x.i + 1) * One = x.i * One + One
  BY <1>1
<1>4. to_bits(flr(x)) = x.i * One
  <2>1. i16(x.i) = x.i
    BY <1>1, SignedIsIdentity DEF i16
  <2>2. flr(x) = [i |-> x.i, f |-> 0]
    BY <2>1, <1>2 DEF flr, fix32
  <2>3. to_bits(flr(x)) = x.i * One + 0
    BY <2>2 DEF to_bits
  <2> QED
    BY <2>3, <1>3
<1>5. to_bits(x) = x.i * One + x.f
  BY DEF to_bits
<1>6. ASSUME x.i < IntMax, x.f # 0 PROVE to_bits(ceil(x)) = x.i * One + One
  <2>1. x.i + 1 \in Int /\ -Half <= x.i + 1 /\ x.i + 1 < Half
    BY <1>1, <1>6 DEF IntMax
  <2>2. i16(x.i + 1) = x.i + 1
    BY <2>1, <1>1, SignedIsIdentity DEF i16
  <2>3. ceil(x) = [i |-> x.i + 1, f |-> 0]
    BY <2>2, <1>2, <1>6 DEF ceil, fix32
  <2>4. to_bits(ceil(x)) = (x.i + 1) * One + 0
    BY <2>3 DEF to_bits
  <2> QED
    BY <2>4, <1>3, <1>1
<1>7. x.f = 0 => ceil(x) = x
  BY DEF ceil
<1> QED
  BY <1>1, <1>3, <1>4, <1>5, <1>6, <1>7

\* The carry between the halves is right for every number, the lowest included.
THEOREM SignAlwaysExact == Spec => []SignIsExact
<1>1. NumTypeOK => SignIsExact
  BY InvertExact, AbsExact, FloorExact DEF NumTypeOK, SignIsExact, A
<1> QED
  BY <1>1, NumbersTypeCorrect, PTL
=============================================================================
