------------------------ MODULE NumberFunctionProofs ------------------------
(***************************************************************************)
(* What the functions of fix32.c compute, for halves of every width.       *)
(***************************************************************************)
EXTENDS NumbersProofs

(***************************************************************************)
(* Division                                                                *)
(***************************************************************************)
LEMMA DivMod ==
  ASSUME NEW n \in Int, NEW d \in Nat, d > 0
  PROVE  n \div d \in Int /\ n % d \in 0 .. d - 1 /\ n = (n \div d) * d + (n % d)
<1>1. n \div d \in Int /\ n % d \in 0 .. d - 1
  OBVIOUS
<1>2. n = d * (n \div d) + (n % d)
  OBVIOUS
<1>3. d * (n \div d) = (n \div d) * d
  BY <1>1
<1> QED
  BY <1>1, <1>2, <1>3

LEMMA DivUnique ==
  ASSUME NEW q \in Int, NEW d \in Nat, NEW r \in 0 .. d - 1
  PROVE  (q * d + r) \div d = q /\ (q * d + r) % d = r
<1> DEFINE n == q * d + r
<1>1. q * d \in Int /\ n \in Int /\ d > 0
  OBVIOUS
<1> HIDE DEF n
<1>2. PICK p \in Int, s \in 0 .. d - 1 : p = n \div d /\ s = n % d /\ n = p * d + s
  BY <1>1, DivMod
<1>3. p * d + s = q * d + r /\ p * d \in Int
  BY <1>2 DEF n
<1>4. ~ (p < q)
  <2> SUFFICES ASSUME p < q PROVE FALSE
    OBVIOUS
  <2>1. p * d + d <= q * d
    BY TimesMonotone
  <2> QED
    BY <2>1, <1>1, <1>3
<1>5. ~ (q < p)
  <2> SUFFICES ASSUME q < p PROVE FALSE
    OBVIOUS
  <2>1. q * d + d <= p * d
    BY TimesMonotone
  <2> QED
    BY <2>1, <1>1, <1>3
<1>6. p = q
  BY <1>4, <1>5
<1>7. s = r
  BY <1>1, <1>3, <1>6
<1> QED
  BY <1>2, <1>6, <1>7 DEF n

LEMMA ModSmall ==
  ASSUME NEW d \in Nat, NEW r \in 0 .. d - 1
  PROVE  r \div d = 0 /\ r % d = r
<1>1. 0 * d + r = r
  OBVIOUS
<1> QED
  BY <1>1, DivUnique

\* What a multiple of the modulus changes
LEMMA ModShift ==
  ASSUME NEW n \in Int, NEW k \in Int, NEW d \in Nat, d > 0
  PROVE  (k * d + n) % d = n % d /\ (k * d + n) \div d = k + (n \div d)
<1>1. PICK q \in Int, r \in 0 .. d - 1 : n = q * d + r /\ n \div d = q /\ n % d = r
  BY DivMod
<1>2. k * d + n = (k + q) * d + r
  BY <1>1
<1>3. ((k + q) * d + r) \div d = k + q /\ ((k + q) * d + r) % d = r
  BY DivUnique
<1> QED
  BY <1>1, <1>2, <1>3

LEMMA ModTimes ==
  ASSUME NEW x \in Int, NEW y \in Int, NEW d \in Nat, d > 0
  PROVE  (x % d) * (y % d) \in Int /\ ((x % d) * (y % d)) % d = (x * y) % d
<1>1. PICK p \in Int, r \in Int : x = p * d + r /\ r = x % d
  BY DivMod
<1>2. PICK q \in Int, s \in Int : y = q * d + s /\ s = y % d
  BY DivMod
<1>3. x * y = (p * q * d + p * s + r * q) * d + r * s
  <2>1. x * y = p * d * (q * d + s) + r * (q * d + s)
    BY <1>1, <1>2
  <2> QED
    BY <2>1
<1>4. p * q * d + p * s + r * q \in Int /\ r * s \in Int
  OBVIOUS
<1>5. PICK k \in Int, m \in Int : k = p * q * d + p * s + r * q /\ m = r * s
  BY <1>4
<1>6. (k * d + m) % d = m % d
  BY <1>5, ModShift
<1> QED
  BY <1>1, <1>2, <1>3, <1>5, <1>6

LEMMA ModTimesLeft ==
  ASSUME NEW x \in Int, NEW y \in Int, NEW d \in Nat, d > 0
  PROVE  ((x % d) * y) % d = (x * y) % d
<1>1. PICK r \in 0 .. d - 1 : r = x % d
  BY DivMod
<1>2. r % d = r /\ r \in Int
  BY ModSmall
<1>3. ((r % d) * (y % d)) % d = (r * y) % d
  BY <1>2, ModTimes
<1>4. ((x % d) * (y % d)) % d = (x * y) % d
  BY ModTimes
<1>5. (r * (y % d)) % d = (r * y) % d
  BY <1>2, <1>3
<1> QED
  BY <1>1, <1>4, <1>5

(***************************************************************************)
(* uint_pow                                                                *)
(***************************************************************************)
\* One is the width of a half, which the powers of two below it divide.
LEMMA OneIsPower == One = Power(2, HalfBits) /\ HalfBits \in Nat /\ HalfBits > 5
<1>1. HalfBits - 1 \in Nat /\ (HalfBits - 1) + 1 = HalfBits
  BY Fix32Assumption
<1>2. Power(2, HalfBits) = 2 * Power(2, HalfBits - 1)
  BY <1>1, PowerIs
<1> QED
  BY <1>2, Fix32Assumption DEF One

\* A function defined by recursion on 0 .. N satisfies its equation.
LEMMA SquaredIs ==
  ASSUME NEW base \in Int
  PROVE  \A n \in 0 .. HalfBits : squared(base, n) = Power(base, Power(2, n)) % One
<1> DEFINE S == 0 .. One - 1
           step == [y \in S |-> (y * y) % One]
           G == [n \in Nat |-> step]
           Up(f) == [k \in 0 .. HalfBits |->
                      IF k = 0 THEN base % One ELSE (f[k - 1] * f[k - 1]) % One]
           f == CHOOSE f : f = Up(f)
<1>0. /\ One \in Nat /\ One > 0 /\ HalfBits \in Nat /\ base % One \in S
      /\ \A y \in S : y \in Int /\ (y * y) % One \in S
  <2>1. One \in Nat /\ One > 0 /\ HalfBits \in Nat
    BY Widths, OneIsPower
  <2>2. ASSUME NEW y \in S PROVE (y * y) % One \in S
    <3>1. y * y \in Int
      BY <2>1
    <3> QED
      BY <2>1, <3>1, DivMod
  <2> QED
    BY <2>1, <2>2, DivMod
<1>1. step \in [S -> S] /\ \A y \in S : step[y] = (y * y) % One
  BY <1>0
<1> HIDE DEF step
<1>2. G \in Recursions(S) /\ \A n \in Nat : G[n] = step
  BY <1>1 DEF Recursions
<1> HIDE DEF G, S
<1>3. Runs(HalfBits, S, base % One, G) # {}
  BY <1>0, <1>2, RunsExist
<1>4. PICK g \in [0 .. HalfBits -> S] :
        g[0] = base % One /\ \A i \in 1 .. HalfBits : g[i] = G[i][g[i - 1]]
  BY <1>3 DEF Runs
<1>5. g = Up(g)
  <2>1. ASSUME NEW n \in 0 .. HalfBits PROVE g[n] = Up(g)[n]
    <3>1. CASE n = 0
      BY <3>1, <1>4
    <3>2. CASE n # 0
      <4>1. n \in 1 .. HalfBits /\ n \in Nat /\ n - 1 \in 0 .. HalfBits
        BY <3>2, <1>0
      <4>2. g[n - 1] \in S /\ g[n] = step[g[n - 1]]
        BY <4>1, <1>2, <1>4
      <4>3. g[n] = (g[n - 1] * g[n - 1]) % One
        BY <4>2, <1>1
      <4> QED
        BY <4>3, <3>2
    <3> QED
      BY <3>1, <3>2
  <2> QED
    BY <2>1, <1>4
<1>6. f = Up(f)
  BY <1>5
<1>7. \A n \in 0 .. HalfBits : squared(base, n) = f[n]
  BY DEF squared
<1> HIDE DEF f
<1> DEFINE T == {n \in Nat : n <= HalfBits => f[n] = Power(base, Power(2, n)) % One}
<1>8. 0 \in T
  <2>1. Power(2, 0) = 1 /\ Power(base, 0) = 1
    BY PowerIs
  <2>3. Power(base, 0 + 1) = base * Power(base, 0)
    BY PowerIs
  <2>2. Power(base, Power(2, 0)) = base
    BY <2>1, <2>3
  <2> QED
    BY <2>2, <1>0, <1>6
<1>9. ASSUME NEW n \in Nat, n \in T PROVE n + 1 \in T
  <2> SUFFICES ASSUME n + 1 <= HalfBits
               PROVE  f[n + 1] = Power(base, Power(2, n + 1)) % One
    OBVIOUS
  <2>1. n + 1 \in 0 .. HalfBits /\ n + 1 # 0 /\ (n + 1) - 1 = n /\ n <= HalfBits
    BY <1>0
  <2>2. f[n + 1] = (f[n] * f[n]) % One
    BY <2>1, <1>6
  <2>3. PICK m \in Nat : m = Power(2, n)
    BY PowerPositive
  <2>4. Power(2, n + 1) = m + m
    BY <2>3, PowerIs
  <2>5. PICK z \in Int : z = Power(base, m)
    BY PowerIs
  <2>6. Power(base, m + m) = z * z
    BY <2>5, PowerSum
  <2>7. ((z % One) * (z % One)) % One = (z * z) % One
    BY <1>0, ModTimes
  <2>8. f[n] = z % One
    BY <1>9, <2>1, <2>3, <2>5
  <2> QED
    BY <2>2, <2>4, <2>6, <2>7, <2>8
<1> HIDE DEF T
<1>10. Nat \subseteq T
  BY <1>8, <1>9, NatInd
<1>11. \A n \in 0 .. HalfBits : n \in Nat /\ n <= HalfBits
  BY <1>0
<1> QED
  BY <1>7, <1>10, <1>11 DEF T

\* The exponent, up to its n lowest bits and up to one more
LEMMA OneMoreBit ==
  ASSUME NEW exp \in Nat, NEW n \in Nat
  PROVE  exp % Power(2, n + 1) =
           (exp % Power(2, n)) + Power(2, n) * ((exp \div Power(2, n)) % 2)
<1>1. PICK m \in Nat : m = Power(2, n) /\ m > 0
  BY PowerPositive
<1>2. Power(2, n + 1) = 2 * m
  BY <1>1, PowerIs
<1>3. PICK q \in Int, r \in 0 .. m - 1 : exp = q * m + r /\ q = exp \div m /\ r = exp % m
  <2>1. exp \in Int
    OBVIOUS
  <2> QED
    BY <2>1, <1>1, DivMod
<1>4. PICK p \in Int, s \in 0 .. 1 : q = p * 2 + s /\ s = q % 2
  BY DivMod
<1>5. m * s \in Nat /\ r + m * s \in 0 .. 2 * m - 1
  <2>1. s = 0 \/ s = 1
    OBVIOUS
  <2> QED
    BY <2>1, <1>1
<1>6. exp = p * (2 * m) + (r + m * s)
  <2>1. (p * 2 + s) * m = p * (2 * m) + m * s
    BY <1>1, <1>4
  <2>2. p * (2 * m) \in Int /\ m * s \in Int /\ r \in Int
    BY <1>1
  <2>3. q * m = p * (2 * m) + m * s
    BY <2>1, <1>4
  <2> QED
    BY <2>2, <2>3, <1>3
<1>7. 2 * m \in Nat
  BY <1>1
<1>8. exp % (2 * m) = r + m * s
  BY <1>5, <1>6, <1>7, DivUnique
<1> QED
  BY <1>1, <1>2, <1>3, <1>4, <1>8

\* uint_pow computes the power, cut to the width of a half.
LEMMA UintPowIsPower ==
  ASSUME NEW base \in Int, NEW exp \in 0 .. One - 1
  PROVE  uint_pow(base, exp) = Power(base, exp) % One
<1> DEFINE S == 0 .. One - 1
           Sq(n) == squared(base, n)
           Bit(n) == (exp \div Power(2, n - 1)) % 2
           step(n) == [y \in S |-> IF Bit(n) = 0 THEN y ELSE (y * Sq(n - 1)) % One]
           G == [n \in Nat |-> IF n \in 1 .. HalfBits THEN step(n) ELSE [y \in S |-> y]]
           Up(f) == [n \in 0 .. HalfBits |->
                      IF n = 0 THEN 1
                      ELSE IF Bit(n) = 0 THEN f[n - 1]
                      ELSE (f[n - 1] * Sq(n - 1)) % One]
           f == CHOOSE f : f = Up(f)
<1>0. /\ One \in Nat /\ One > 1 /\ HalfBits \in Nat /\ 1 \in S
      /\ \A y \in S : y \in Int
      /\ \A n \in 1 .. HalfBits : n \in Nat /\ n # 0 /\ n - 1 \in 0 .. HalfBits /\ Sq(n - 1) \in Int
  <2>1. One \in Nat /\ One > 1 /\ HalfBits \in Nat
    BY Widths, OneIsPower
  <2>2. ASSUME NEW n \in 0 .. HalfBits PROVE Sq(n) \in Int
    <3>1. n \in Nat
      BY <2>1
    <3>2. PICK m \in Nat : m = Power(2, n)
      BY <3>1, PowerPositive
    <3>3. Power(base, m) \in Int
      BY PowerIs
    <3>4. Power(base, m) % One \in Int
      BY <2>1, <3>3
    <3> QED
      BY <3>2, <3>4, SquaredIs
  <2> HIDE DEF Sq
  <2> QED
    BY <2>1, <2>2
<1>1. ASSUME NEW n \in 1 .. HalfBits
      PROVE  /\ step(n) \in [S -> S]
             /\ \A y \in S : step(n)[y] = IF Bit(n) = 0 THEN y ELSE (y * Sq(n - 1)) % One
  <2> HIDE DEF Bit, Sq
  <2>1. ASSUME NEW y \in S PROVE (y * Sq(n - 1)) % One \in S
    <3>1. y * Sq(n - 1) \in Int
      BY <1>0
    <3> HIDE DEF S
    <3>2. (y * Sq(n - 1)) % One \in 0 .. One - 1
      BY <3>1, <1>0, DivMod
    <3> QED
      BY <3>2 DEF S
  <2> HIDE DEF S
  <2> QED
    BY <2>1
<1>2. G \in Recursions(S) /\ \A n \in 1 .. HalfBits : G[n] = step(n)
  <2>1. [y \in S |-> y] \in [S -> S]
    OBVIOUS
  <2> HIDE DEF step, S
  <2>2. \A n \in Nat : G[n] \in [S -> S]
    BY <1>1, <2>1
  <2> QED
    BY <2>2, <1>0 DEF Recursions
<1> HIDE DEF G, S, step, Bit, Sq
<1>3. Runs(HalfBits, S, 1, G) # {}
  BY <1>0, <1>2, RunsExist
<1>4. PICK g \in [0 .. HalfBits -> S] :
        g[0] = 1 /\ \A i \in 1 .. HalfBits : g[i] = G[i][g[i - 1]]
  BY <1>3 DEF Runs
<1>5. g = Up(g)
  <2>1. ASSUME NEW n \in 0 .. HalfBits PROVE g[n] = Up(g)[n]
    <3>1. CASE n = 0
      BY <3>1, <1>4
    <3>2. CASE n # 0
      <4>1. n \in 1 .. HalfBits /\ n \in Nat /\ n - 1 \in 0 .. HalfBits
        BY <3>2, <1>0
      <4>2. g[n - 1] \in S /\ g[n] = step(n)[g[n - 1]]
        BY <4>1, <1>2, <1>4
      <4>3. g[n] = IF Bit(n) = 0 THEN g[n - 1] ELSE (g[n - 1] * Sq(n - 1)) % One
        BY <4>1, <4>2, <1>1
      <4> QED
        BY <4>3, <3>2
    <3> QED
      BY <3>1, <3>2
  <2> QED
    BY <2>1, <1>4
<1>6. f = Up(f)
  BY <1>5
<1>7. uint_pow(base, exp) = f[HalfBits]
  BY DEF uint_pow, Bit, Sq
<1> HIDE DEF f
<1> DEFINE T == {n \in Nat : n <= HalfBits => f[n] = Power(base, exp % Power(2, n)) % One}
<1>8. 0 \in T
  <2>1. Power(2, 0) = 1 /\ Power(base, 0) = 1 /\ exp % 1 = 0 /\ 1 % One = 1
    <3>1. 1 \in 0 .. One - 1
      BY <1>0
    <3>2. 1 % One = 1
      BY <3>1, <1>0, ModSmall
    <3>3. exp % 1 = 0
      OBVIOUS
    <3> QED
      BY <3>2, <3>3, PowerIs
  <2>2. f[0] = 1
    BY <1>0, <1>6
  <2>3. Power(base, exp % Power(2, 0)) % One = 1
    BY <2>1
  <2> QED
    BY <2>2, <2>3
<1>9. ASSUME NEW n \in Nat, n \in T PROVE n + 1 \in T
  <2> SUFFICES ASSUME n + 1 <= HalfBits
               PROVE  f[n + 1] = Power(base, exp % Power(2, n + 1)) % One
    OBVIOUS
  <2>1. n + 1 \in 0 .. HalfBits /\ n + 1 # 0 /\ (n + 1) - 1 = n /\ n \in 0 .. HalfBits
    BY <1>0
  <2>2. f[n + 1] = IF Bit(n + 1) = 0 THEN f[n] ELSE (f[n] * Sq(n)) % One
    BY <2>1, <1>6
  <2>3. PICK m \in Nat : m = Power(2, n) /\ m > 0
    BY PowerPositive
  <2>4. PICK r \in Nat, s \in 0 .. 1 : r = exp % m /\ s = (exp \div m) % 2
    <3>1. exp \in Int
      BY <1>0
    <3>2. exp % m \in 0 .. m - 1 /\ exp \div m \in Int
      BY <2>3, <3>1, DivMod
    <3>3. (exp \div m) % 2 \in 0 .. 1
      BY <3>2
    <3> QED
      BY <3>2, <3>3
  <2>5. Bit(n + 1) = s
    BY <2>1, <2>3, <2>4 DEF Bit
  <2>6. exp % Power(2, n + 1) = r + m * s
    <3>1. exp \in Nat
      BY <1>0
    <3> QED
      BY <3>1, <2>3, <2>4, OneMoreBit
  <2>7. f[n] = Power(base, r) % One
    BY <1>9, <2>1, <2>3, <2>4
  <2>8. CASE s = 0
    <3>1. r + m * s = r
      BY <2>8
    <3> QED
      BY <3>1, <2>2, <2>5, <2>6, <2>7, <2>8
  <2>9. CASE s = 1
    <3>1. r + m * s = r + m
      BY <2>9
    <3>2. PICK y \in Int, z \in Int : y = Power(base, r) /\ z = Power(base, m)
      BY PowerIs
    <3>3. Power(base, r + m) = y * z
      BY <3>2, PowerSum
    <3>4. Sq(n) = z % One
      BY <2>1, <2>3, <3>2, SquaredIs DEF Sq
    <3>5. ((y % One) * (z % One)) % One = (y * z) % One
      BY <1>0, ModTimes
    <3> QED
      BY <3>1, <3>2, <3>3, <3>4, <3>5, <2>2, <2>5, <2>6, <2>7, <2>9
  <2>10. s = 0 \/ s = 1
    BY <2>4
  <2> QED
    BY <2>8, <2>9, <2>10
<1> HIDE DEF T
<1>10. HalfBits \in T
  BY <1>0, <1>8, <1>9, NatInd
<1>11. f[HalfBits] = Power(base, exp % One) % One
  BY <1>0, <1>10, OneIsPower DEF T
<1>12. exp % One = exp
  BY <1>0, ModSmall
<1> QED
  BY <1>7, <1>11, <1>12

\* What fix32_pow does for every exponent that is not negative: the loop computes the
\* power modulo the width of a half, and the assertion stops the upper half of the
\* results.
EveryPowIsExact ==
  a.f = 0 /\ b.f = 0 /\ b.i >= 0 =>
    LET p == Power(a.i, b.i) IN
    /\ pow_defined(a, b) <=> p % One <= IntMax
    /\ pow_defined(a, b) => pow(a, b) = from_int(p % One)
    /\ p \in IntMin .. IntMax =>
         /\ pow_defined(a, b) <=> p >= 0
         /\ pow_defined(a, b) => pow(a, b) = from_int(p)

LEMMA PowHere == NumTypeOK => EveryPowIsExact
<1> SUFFICES ASSUME NumTypeOK, a.f = 0, b.f = 0, b.i >= 0
             PROVE  LET p == Power(a.i, b.i) IN
                    /\ pow_defined(a, b) <=> p % One <= IntMax
                    /\ pow_defined(a, b) => pow(a, b) = from_int(p % One)
                    /\ p \in IntMin .. IntMax =>
                         /\ pow_defined(a, b) <=> p >= 0
                         /\ pow_defined(a, b) => pow(a, b) = from_int(p)
  BY DEF EveryPowIsExact
<1>1. /\ a.i \in Int /\ b.i \in -Half .. Half - 1
      /\ Half \in Nat /\ Half > 16 /\ One = 2 * Half /\ One \in Nat
  BY BitsType, Widths DEF NumTypeOK, IntMin, IntMax
<1>2. b.i \in 0 .. One - 1
  BY <1>1
<1>3. b.i % One = b.i
  BY <1>1, <1>2, ModSmall
<1>4. uint_pow(a.i, b.i % One) = Power(a.i, b.i) % One
  BY <1>1, <1>2, <1>3, UintPowIsPower
<1> DEFINE p == Power(a.i, b.i)
<1> HIDE DEF p
<1>5. /\ pow_defined(a, b) <=> p % One <= IntMax
      /\ pow(a, b) = from_int(p % One)
  BY <1>4 DEF pow_defined, pow, p
<1>6. ASSUME p \in 0 .. IntMax PROVE p % One = p /\ p % One <= IntMax
  <2>1. p \in 0 .. One - 1
    BY <1>1, <1>6 DEF IntMax
  <2>2. p % One = p
    BY <1>1, <2>1, ModSmall
  <2> QED
    BY <1>1, <1>6, <2>2 DEF IntMax
<1>7. ASSUME p \in IntMin .. -1 PROVE p % One > IntMax
  <2>1. p + One \in 0 .. One - 1 /\ p + One > IntMax /\ p = (-1) * One + (p + One)
    BY <1>1, <1>7 DEF IntMin, IntMax
  <2>2. p \in Int /\ p + One \in Int /\ -1 \in Int
    BY <1>1, <1>7 DEF IntMin
  <2>3. p % One = p + One
    <3>1. ((-1) * One + (p + One)) % One = p + One
      BY <1>1, <2>1, <2>2, DivUnique
    <3> QED
      BY <2>1, <3>1
  <2> QED
    BY <2>1, <2>3
<1>8. ASSUME p \in IntMin .. IntMax PROVE p \in 0 .. IntMax \/ p \in IntMin .. -1
  BY <1>1, <1>8 DEF IntMin, IntMax
<1>9. \A q \in 0 .. IntMax : q >= 0
  BY <1>1 DEF IntMax
<1>10. \A q \in IntMin .. -1 : ~(q >= 0)
  BY <1>1 DEF IntMin
<1>11. ASSUME p \in IntMin .. -1 PROVE ~(p % One <= IntMax)
  <2>1. p % One \in Int /\ IntMax \in Int
    BY <1>1, <1>11 DEF IntMin, IntMax
  <2> QED
    BY <1>7, <1>11, <2>1
<1>12. ASSUME p \in IntMin .. IntMax
       PROVE  /\ pow_defined(a, b) <=> p >= 0
              /\ pow_defined(a, b) => pow(a, b) = from_int(p)
  <2>1. CASE p \in 0 .. IntMax
    BY <2>1, <1>5, <1>6, <1>9
  <2>2. CASE p \in IntMin .. -1
    BY <2>2, <1>5, <1>10, <1>11
  <2> QED
    BY <1>8, <1>12, <2>1, <2>2
<1> QED
  BY <1>5, <1>12 DEF p

\* Where a power of integers fits, it is exact if it is not negative, and stopped by
\* the assertion of fix32_from_uint16 if it is: for the exponents that a run checks.
THEOREM PowAlwaysExact == Spec => []PowIsExact
<1>1. NumTypeOK /\ EveryPowIsExact => PowIsExact
  BY DEF EveryPowIsExact, PowIsExact
<1> QED
  BY <1>1, PowHere, NumbersTypeCorrect, PTL

\* The same for every exponent that is not negative, and what a power that does not
\* fit gives (fix32.c:51-67): the squares of the base wrap as often as they like.
THEOREM EveryPowAlwaysExact == Spec => []EveryPowIsExact
BY PowHere, NumbersTypeCorrect, PTL

(***************************************************************************)
(* A word and its halves                                                   *)
(***************************************************************************)
LEMMA SignedIs ==
  ASSUME NEW n \in Int, NEW half \in Nat, half > 0
  PROVE  Signed(n, half) =
           IF n % (2 * half) < half THEN n % (2 * half) ELSE (n % (2 * half)) - 2 * half
<1> DEFINE d == 2 * half
<1>1. d \in Nat /\ d > 0
  OBVIOUS
<1>2. PICK q \in Int, r \in 0 .. d - 1 : n = q * d + r /\ r = n % d
  BY <1>1, DivMod
<1>3. CASE r < half
  <2>1. n + half = q * d + (r + half) /\ r + half \in 0 .. d - 1
    <3> HIDE DEF d
    <3>1. q * d \in Int
      BY <1>1
    <3>2. d = 2 * half
      BY DEF d
    <3> QED
      BY <3>1, <3>2, <1>1, <1>2, <1>3
  <2>2. (n + half) % d = r + half
    <3> HIDE DEF d
    <3>1. PICK m \in 0 .. d - 1, p \in Int : m = r + half /\ p = q
      BY <2>1
    <3>2. (p * d + m) % d = m
      BY <1>1, DivUnique
    <3> QED
      BY <3>1, <3>2, <2>1
  <2> QED
    BY <2>2, <1>2, <1>3 DEF Signed
<1>4. CASE ~ (r < half)
  <2>1. n + half = (q + 1) * d + (r - half) /\ r - half \in 0 .. d - 1
    <3>1. (q + 1) * d = q * d + d /\ q * d \in Int /\ q + 1 \in Int
      BY <1>1
    <3>2. d = 2 * half
      BY DEF d
    <3> HIDE DEF d
    <3> QED
      BY <3>1, <3>2, <1>1, <1>2, <1>4
  <2>2. (n + half) % d = r - half
    <3> HIDE DEF d
    <3>1. PICK m \in 0 .. d - 1, p \in Int : m = r - half /\ p = (q + 1)
      BY <2>1
    <3>2. (p * d + m) % d = m
      BY <1>1, DivUnique
    <3> QED
      BY <3>1, <3>2, <2>1
  <2> QED
    BY <2>2, <1>2, <1>4 DEF Signed
<1> QED
  BY <1>3, <1>4

LEMMA WordIs ==
  /\ Word \in Nat /\ Word > 0 /\ Word = One * One /\ Word = 2 * (Half * One)
  /\ Word = 4 * (Half * Half)
<1>1. Half \in Nat /\ One = 2 * Half /\ Half * One \in Nat /\ Half * One > 0
  BY Widths
<1>2. Half * (2 * Half) = 2 * (Half * Half) /\ (2 * Half) * (2 * Half) = 4 * (Half * Half)
  BY <1>1
<1> QED
  BY <1>1, <1>2 DEF Word

\* A product is compared as its factors are.
LEMMA Between ==
  ASSUME NEW x \in Int, NEW y \in Int, NEW d \in Nat, x * d < y * d
  PROVE  x < y
<1>1. ~ (y < x)
  <2> SUFFICES ASSUME y < x PROVE FALSE
    OBVIOUS
  <2>1. y * d + d <= x * d /\ y * d \in Int /\ x * d \in Int
    BY TimesMonotone
  <2> QED
    BY <2>1
<1>2. x # y
  OBVIOUS
<1> QED
  BY <1>1, <1>2

\* from_bits and to_bits: a word of any size is cut to its lowest bits.
LEMMA FromBitsExact ==
  ASSUME NEW n \in Int
  PROVE  to_bits(from_bits(n)) = i32(n)
<1> DEFINE H == Half * One
<1>0. /\ Half \in Nat /\ Half > 0 /\ One = 2 * Half /\ One \in Nat /\ One > 0
      /\ H \in Nat /\ H > 0 /\ Word = One * One /\ Word = 2 * H /\ Word \in Nat /\ Word > 0
  BY Widths, WordIs
<1>1. PICK k \in Int, w \in 0 .. Word - 1 : n = k * Word + w /\ w = n % Word
  BY <1>0, DivMod
<1>2. w \in Int
  OBVIOUS
<1>3. PICK q \in Int, s \in 0 .. One - 1 : w = q * One + s /\ q = w \div One /\ s = w % One
  BY <1>0, <1>2, DivMod
<1>4. n % One = s
  <2>1. k * (One * One) = (k * One) * One
    BY <1>0
  <2>2. (k * One) * One + w = n /\ k * One \in Int
    BY <2>1, <1>0, <1>1
  <2>3. PICK m \in Int : m = k * One
    BY <2>2
  <2>4. (m * One + w) % One = w % One
    BY <1>0, <1>2, ModShift
  <2> QED
    BY <2>2, <2>3, <2>4, <1>3
<1>5. q \in 0 .. One - 1
  <2>1. q * One \in Int
    BY <1>0
  <2>2. q * One < One * One /\ (-1) * One < q * One
    <3>1. w < One * One /\ 0 <= w
      BY <1>0, <1>1
    <3>2. (-1) * One = -One /\ One * One \in Int
      BY <1>0
    <3>3. q * One = w - s
      BY <2>1, <1>2, <1>3
    <3>4. w - s < One * One /\ -One < w - s
      BY <3>1, <3>2, <1>0, <1>2
    <3> QED
      BY <3>2, <3>3, <3>4
  <2>3. q < One /\ -1 < q
    BY <2>2, <1>0, Between
  <2> QED
    BY <2>3, <1>0
<1>6. i16(q) = IF q < Half THEN q ELSE q - One
  <2>1. q % One = q /\ q \in Int
    BY <1>0, <1>5, ModSmall
  <2> QED
    BY <2>1, <1>0, SignedIs DEF i16
<1>7. i32(n) = IF w < H THEN w ELSE w - Word
  BY <1>0, <1>1, SignedIs DEF i32
<1>8. w < H <=> q < Half
  <2>1. q < Half => q * One + One <= H
    BY <1>0, TimesMonotone
  <2>2. ~ (q < Half) => H <= q * One
    <3>1. Half < q => Half * One + One <= q * One
      BY <1>0, TimesMonotone
    <3>2. Half = q => H = q * One
      OBVIOUS
    <3>3. q * One \in Int
      BY <1>0
    <3> HIDE DEF H
    <3> QED
      BY <3>1, <3>2, <3>3, <1>0 DEF H
  <2>3. q * One \in Int
    BY <1>0
  <2> HIDE DEF H
  <2> QED
    BY <2>1, <2>2, <2>3, <1>0, <1>3
<1>9. to_bits(from_bits(n)) = (IF q < Half THEN q ELSE q - One) * One + s
  BY <1>1, <1>3, <1>4, <1>6 DEF to_bits, from_bits, fix32
<1>10. (q - One) * One = q * One - Word /\ q * One \in Int
  BY <1>0
<1> HIDE DEF H
<1> QED
  BY <1>0, <1>3, <1>7, <1>8, <1>9, <1>10

\* The cast to 32 bits changes a number by a multiple of the word.
LEMMA i32Shift ==
  ASSUME NEW n \in Int, NEW k \in Int
  PROVE  i32(k * Word + n) = i32(n)
<1> DEFINE H == Half * One
<1>1. H \in Nat /\ H > 0 /\ Word = 2 * H /\ Word \in Nat /\ Word > 0
  BY Widths, WordIs
<1>2. k * Word + (n + H) = (k * Word + n) + H /\ n + H \in Int /\ k * Word \in Int
  <2>1. k * Word \in Int
    BY <1>1
  <2> HIDE DEF H
  <2> QED
    BY <2>1, <1>1
<1>3. ((k * Word + n) + H) % Word = (n + H) % Word
  <2>1. PICK m \in Int : m = n + H
    BY <1>2
  <2>2. (k * Word + m) % Word = m % Word
    BY <1>1, ModShift
  <2> HIDE DEF H
  <2> QED
    BY <2>1, <2>2, <1>2
<1> QED
  BY <1>1, <1>3 DEF i32, Signed

LEMMA i32Is ==
  ASSUME NEW n \in Int
  PROVE  \E k \in Int : i32(n) = k * Word + n
<1> DEFINE H == Half * One
<1>1. H \in Nat /\ H > 0 /\ Word = 2 * H /\ Word \in Nat /\ Word > 0 /\ n + H \in Int
  BY Widths, WordIs
<1>2. PICK q \in Int, r \in 0 .. Word - 1 : n + H = q * Word + r /\ r = (n + H) % Word
  BY <1>1, DivMod
<1>3. i32(n) = r - H
  BY <1>1, <1>2 DEF i32, Signed
<1>4. -q \in Int /\ (-q) * Word = -(q * Word) /\ q * Word \in Int
  BY <1>1
<1>5. r - H = (-q) * Word + n
  <2> HIDE DEF H
  <2> QED
    BY <1>1, <1>2, <1>4
<1> QED
  BY <1>3, <1>4, <1>5

\* Casts inside a sum, a difference or a product of casts are redundant.
LEMMA i32Sub ==
  ASSUME NEW m \in Int, NEW n \in Int
  PROVE  i32(m - i32(n)) = i32(m - n)
<1>1. PICK k \in Int : i32(n) = k * Word + n
  BY i32Is
<1>2. -k \in Int /\ m - n \in Int /\ (-k) * Word = -(k * Word) /\ k * Word \in Int
  BY WordIs
<1>3. m - i32(n) = (-k) * Word + (m - n)
  BY <1>1, <1>2
<1> QED
  BY <1>2, <1>3, i32Shift

LEMMA i32InRange ==
  ASSUME NEW n \in Int, -(Half * One) <= n, n < Half * One
  PROVE  i32(n) = n
BY Widths, SignedIsIdentity DEF i32

LEMMA BitsAreWord ==
  ASSUME NEW x \in fix32_t
  PROVE  to_bits(x) \in Int /\ i32(to_bits(x)) = to_bits(x)
<1>1. to_bits(x) \in Int
  BY BitsType
<1> QED
  BY <1>1, BitsRange, i32InRange

(***************************************************************************)
(* The remainder                                                           *)
(***************************************************************************)
\* The quotient as C truncates it, and what is left of it without the factor W
Truncated(n, W, d) == IF n >= 0 THEN (n * W) \div d ELSE -((-(n * W)) \div d)
FlooredTwice(n, W, d) ==
  IF n < 0 /\ Truncated(n, W, d) % W = 0 /\ Truncated(n, W, d) * d # n * W
  THEN (n \div d) + 1 ELSE n \div d

\* Twice rounded: the quotient of n * W and d, truncated, and then its floor
\* without the factor W, against the floor of the quotient of n and d.
LEMMA QuotientFloor ==
  ASSUME NEW n \in Int, NEW d \in Nat, d > 0, NEW W \in Nat, W > 0, NEW q \in Int,
         q = Truncated(n, W, d)
  PROVE  q \div W = FlooredTwice(n, W, d)
<1> USE DEF FlooredTwice
<1>1. PICK f \in Int, r \in 0 .. d - 1 : n = f * d + r /\ f = n \div d
  BY DivMod
<1>2. /\ n * W \in Int /\ r \in Int /\ r * W \in Int /\ f * W \in Int /\ W * d \in Int
      /\ q * d \in Int /\ f * W * d \in Int
  <2>1. n * W \in Int /\ r \in Int /\ f * W \in Int /\ W * d \in Int /\ q * d \in Int
    OBVIOUS
  <2>2. r * W \in Int
    BY <2>1
  <2> QED
    BY <2>1, <2>2
<1>3. n * W = f * W * d + r * W
  <2>1. (f * d + r) * W = f * W * d + r * W
    OBVIOUS
  <2> QED
    BY <2>1, <1>1
<1>4. 0 <= r * W /\ r * W + W <= W * d
  <2>1. r < d /\ d \in Int /\ r \in Int
    OBVIOUS
  <2>2. r * W + W <= d * W
    BY <2>1, TimesMonotone
  <2>3. 0 <= r * W /\ d * W = W * d
    OBVIOUS
  <2> QED
    BY <2>2, <2>3
\* e is what the truncation moves the product by.
<1>5. \E e \in 0 .. d - 1 : /\ n >= 0 => q * d = n * W - e
                            /\ n < 0 => q * d = n * W + e
  <2>1. CASE n >= 0
    <3>1. PICK p \in Int, e \in 0 .. d - 1 : n * W = p * d + e /\ p = (n * W) \div d
      BY <1>2, DivMod
    <3>2. q = p
      BY <2>1, <3>1 DEF Truncated
    <3>3. q * d = n * W - e
      BY <3>1, <3>2, <1>2
    <3>4. (n >= 0 => q * d = n * W - e) /\ (n < 0 => q * d = n * W + e)
      BY <3>3, <2>1
    <3> QED
      BY <3>4
  <2>2. CASE n < 0
    <3>1. -(n * W) \in Int
      BY <1>2
    <3>2. PICK p \in Int, e \in 0 .. d - 1 : -(n * W) = p * d + e /\ p = (-(n * W)) \div d
      BY <3>1, DivMod
    <3>3. q = -p
      BY <2>2, <3>2 DEF Truncated
    <3>4. q * d = -(p * d) /\ p * d \in Int
      BY <3>3
    <3>5. q * d = n * W + e
      BY <3>2, <3>4, <1>2
    <3>6. (n >= 0 => q * d = n * W - e) /\ (n < 0 => q * d = n * W + e)
      BY <3>5, <2>2
    <3> QED
      BY <3>6
  <2> QED
    BY <2>1, <2>2
<1>6. PICK e \in 0 .. d - 1 : /\ n >= 0 => q * d = n * W - e
                              /\ n < 0 => q * d = n * W + e
  BY <1>5
<1>7. PICK c \in Int : c = q - f * W /\ q = f * W + c
  <2>1. q - f * W \in Int /\ q = f * W + (q - f * W)
    BY <1>2
  <2> QED
    BY <2>1
<1>8. c * d \in Int /\ q * d = f * W * d + c * d
  BY <1>7, <1>2
<1>9. c * d = IF n >= 0 THEN r * W - e ELSE r * W + e
  BY <1>2, <1>3, <1>6, <1>8
<1>10. 0 <= c
  <2>1. (-1) * d = -d
    OBVIOUS
  <2>2. (-1) * d < c * d
    BY <2>1, <1>2, <1>4, <1>9
  <2>3. -1 < c
    BY <2>2, Between
  <2> QED
    BY <2>3
<1>11. ASSUME c < W
       PROVE  q \div W = f /\ q % W = c
  <2>1. c \in 0 .. W - 1
    BY <1>10, <1>11
  <2>2. (f * W + c) \div W = f /\ (f * W + c) % W = c
    BY <2>1, DivUnique
  <2> QED
    BY <2>2, <1>7
<1>12. CASE n >= 0
  <2>1. c * d < W * d
    BY <1>2, <1>4, <1>9, <1>12
  <2>2. c < W
    BY <2>1, Between
  <2> QED
    BY <2>2, <1>1, <1>11, <1>12
<1>13. CASE n < 0 /\ e = 0
  <2>1. c * d < W * d
    BY <1>2, <1>4, <1>9, <1>13
  <2>2. c < W
    BY <2>1, Between
  <2>3. q * d = n * W
    BY <1>2, <1>6, <1>13
  <2> QED
    BY <2>2, <2>3, <1>1, <1>11
<1>14. CASE n < 0 /\ e # 0
  <2>1. q * d # n * W
    BY <1>2, <1>6, <1>14
  <2>2. 0 * d < c * d
    BY <1>2, <1>4, <1>9, <1>14
  <2>3. 0 < c
    BY <2>2, Between
  <2>4. c <= W
    <3>1. (W + 1) * d = W * d + d /\ W + 1 \in Int
      OBVIOUS
    <3>2. c * d < (W + 1) * d
      BY <3>1, <1>2, <1>4, <1>9, <1>14
    <3>3. c < W + 1
      BY <3>1, <3>2, Between
    <3> QED
      BY <3>3
  <2>5. CASE c < W
    BY <2>3, <2>5, <1>1, <1>11
  <2>6. CASE c = W
    <3>1. PICK g \in Int : g = f + 1
      OBVIOUS
    <3>2. g * W = f * W + W
      BY <3>1
    <3>3. q = g * W + 0
      BY <2>6, <3>2, <1>2, <1>7
    <3>4. 0 \in 0 .. W - 1
      OBVIOUS
    <3>5. (g * W + 0) \div W = g /\ (g * W + 0) % W = 0
      BY <3>4, DivUnique
    <3>6. q \div W = f + 1 /\ q % W = 0
      BY <3>1, <3>3, <3>5
    <3> QED
      BY <3>6, <2>1, <1>1, <1>14
  <2> QED
    BY <2>4, <2>5, <2>6
<1> QED
  BY <1>12, <1>13, <1>14

\* Where the quotient, truncated towards zero, reaches an integer from below
Rounded == Quotient % One = 0 /\ Quotient * B # A * One /\ (A < 0) # (B < 0)

\* The quotient of the words, and the floor that is subtracted
LEMMA FloorOfQuotient ==
  ASSUME A \in Int, B \in Int, B # 0
  PROVE  Quotient \in Int /\ Quotient \div One = IF Rounded THEN Floor + 1 ELSE Floor
<1>0. One \in Nat /\ One > 0 /\ A * One \in Int
  BY Widths
<1>1. A * One < 0 <=> A < 0
  <2>1. 0 < A * One <=> 0 < A
    <3>1. 0 < A => 0 * One + One <= A * One
      BY <1>0, TimesMonotone
    <3>2. A < 0 => A * One + One <= 0 * One
      BY <1>0, TimesMonotone
    <3>3. 0 * One = 0
      BY <1>0
    <3> QED
      BY <3>1, <3>2, <3>3, <1>0
  <2>2. A = 0 <=> A * One = 0
    <3>1. A < 0 => A * One + One <= 0 * One
      BY <1>0, TimesMonotone
    <3>2. 0 * One = 0
      BY <1>0
    <3> QED
      BY <3>1, <3>2, <2>1, <1>0
  <2> QED
    BY <2>1, <2>2, <1>0
<1>2. PICK n \in Int, d \in Nat : /\ d = Abs(B) /\ d > 0
                                  /\ n = IF B > 0 THEN A ELSE -A
  <2>1. Abs(B) \in Nat /\ Abs(B) > 0
    BY DEF Abs
  <2> QED
    BY <2>1
<1>3. Floor = n \div d
  BY <1>2 DEF Floor, Abs
<1>4. n * One = (IF B > 0 THEN A * One ELSE -(A * One)) /\ n * One \in Int
  BY <1>0, <1>2
<1>5. Abs(A * One) = IF n >= 0 THEN n * One ELSE -(n * One)
  <2>1. n >= 0 <=> (B > 0 /\ A >= 0) \/ (B < 0 /\ A <= 0)
    BY <1>2
  <2>2. A = 0 => A * One = 0
    BY <1>0
  <2> QED
    BY <2>1, <2>2, <1>0, <1>1, <1>4 DEF Abs
<1>6. CASE A = 0
  <2>1. n = 0 /\ A * One = 0 /\ n * One = 0
    <3>1. n = 0
      <4>1. PICK X \in Int : X = A
        OBVIOUS
      <4>2. n = X \/ n = -X
        BY <4>1, <1>2
      <4>3. X = 0
        BY <4>1, <1>6
      <4> QED
        BY <4>2, <4>3
    <3>2. 0 * One = 0
      BY <1>0
    <3> QED
      BY <3>1, <3>2, <1>6
  <2>2. 0 \div d = 0
    BY <1>2, ModSmall
  <2>3. Quotient = 0
    BY <2>1, <2>2, <1>2 DEF Quotient, CDiv, Abs
  <2>4. 0 * B = 0
    OBVIOUS
  <2>5. ~ Rounded
    BY <2>1, <2>3, <2>4 DEF Rounded
  <2>6. 0 \div One = 0
    BY <1>0, ModSmall
  <2> QED
    BY <2>1, <2>2, <2>3, <2>5, <2>6, <1>3
<1>7. CASE A # 0
  <2>1. n < 0 <=> (A < 0) # (B < 0)
    BY <1>2, <1>7
  <2>2. Quotient = IF n >= 0 THEN (n * One) \div d ELSE -((-(n * One)) \div d)
    BY <2>1, <1>1, <1>2, <1>5 DEF Quotient, CDiv
  <2>3. Quotient \in Int
    <3>1. (n * One) \div d \in Int /\ (-(n * One)) \div d \in Int
      BY <1>2, <1>4
    <3> QED
      BY <2>2, <3>1
  <2>4. PICK q \in Int : q = Quotient
    BY <2>3
  <2>5. q \div One = IF n < 0 /\ q % One = 0 /\ q * d # n * One THEN (n \div d) + 1 ELSE n \div d
    <3>1. q = IF n >= 0 THEN (n * One) \div d ELSE -((-(n * One)) \div d)
      BY <2>2, <2>4
    <3>2. PICK W \in Nat : W = One /\ W > 0
      BY <1>0
    <3>3. q = Truncated(n, W, d)
      BY <3>1, <3>2 DEF Truncated
    <3>4. q \div W = FlooredTwice(n, W, d)
      BY <3>2, <3>3, <1>2, QuotientFloor
    <3> QED
      BY <3>2, <3>3, <3>4 DEF FlooredTwice
  <2>6. q * d = n * One <=> q * B = A * One
    <3>1. q * d = IF B > 0 THEN q * B ELSE -(q * B)
      BY <1>2 DEF Abs
    <3>2. q * B \in Int
      OBVIOUS
    <3> QED
      BY <3>1, <3>2, <1>0, <1>4
  <2>7. Rounded <=> n < 0 /\ q % One = 0 /\ q * d # n * One
    BY <2>1, <2>4, <2>6 DEF Rounded
  <2> QED
    BY <2>3, <2>4, <2>5, <2>7, <1>3
<1> QED
  BY <1>6, <1>7

\* flr keeps the integer half of the word.
LEMMA FlrExact ==
  ASSUME NEW x \in fix32_t
  PROVE  to_bits(flr(x)) = (to_bits(x) \div One) * One /\ to_bits(x) \div One = x.i
<1>1. /\ x.i \in -Half .. Half - 1 /\ x.f \in 0 .. One - 1 /\ x.i \in Int
      /\ Half \in Nat /\ One \in Nat /\ One > 0
  BY BitsType, Widths DEF IntMin, IntMax
<1>2. to_bits(x) \div One = x.i
  BY <1>1, DivUnique DEF to_bits
<1>3. i16(x.i) = x.i
  BY <1>1, SignedIsIdentity DEF i16
<1>4. 0 % One = 0 /\ x.i * One + 0 = x.i * One
  BY <1>1, ModSmall
<1> QED
  BY <1>2, <1>3, <1>4 DEF flr, fix32, to_bits

LEMMA i32Twice ==
  ASSUME NEW n \in Int
  PROVE  i32(n) \in Int /\ i32(i32(n)) = i32(n) /\ to_bits(from_bits(i32(n))) = i32(n)
<1>1. i32(n) \in Int
  BY i32Type
<1>2. PICK m \in Int : m = i32(n)
  BY <1>1
<1>3. -(Half * One) <= m /\ m < Half * One
  BY <1>2, SignedRange, Widths DEF i32
<1>4. i32(m) = m
  BY <1>3, i32InRange
<1> QED
  BY <1>2, <1>4, FromBitsExact

LEMMA AddExact ==
  ASSUME NEW x \in fix32_t, NEW y \in fix32_t
  PROVE  to_bits(add(x, y)) = i32(to_bits(x) + to_bits(y))
<1>1. PICK X \in Int, Y \in Int : X = to_bits(x) /\ Y = to_bits(y)
  BY BitsType
<1>2. X + Y \in Int
  OBVIOUS
<1> QED
  BY <1>1, <1>2, i32Twice DEF add

LEMMA SubExact ==
  ASSUME NEW x \in fix32_t, NEW y \in fix32_t
  PROVE  to_bits(sub(x, y)) = i32(to_bits(x) - to_bits(y))
<1>1. PICK X \in Int, Y \in Int : X = to_bits(x) /\ Y = to_bits(y)
  BY BitsType
<1>2. X - Y \in Int
  OBVIOUS
<1> QED
  BY <1>1, <1>2, i32Twice DEF sub

LEMMA MulExact ==
  ASSUME NEW x \in fix32_t, NEW y \in fix32_t
  PROVE  to_bits(mul(x, y)) = i32((to_bits(x) * to_bits(y)) \div One)
<1>1. PICK X \in Int, Y \in Int : X = to_bits(x) /\ Y = to_bits(y)
  BY BitsType
<1>2. X * Y \in Int
  OBVIOUS
<1>3. (X * Y) \div One \in Int
  BY <1>2, Widths
<1> QED
  BY <1>1, <1>3, i32Twice DEF mul

\* The quotient of the words, truncated, wherever it fits
LEMMA DivExact ==
  ASSUME NEW x \in fix32_t, NEW y \in fix32_t, to_bits(y) # 0
  PROVE  to_bits(div(x, y)) = i32(CDiv(to_bits(x) * One, to_bits(y)))
<1>0. One \in Nat /\ One > 0
  BY Widths
<1>1. PICK X \in Int, Y \in Int : X = to_bits(x) /\ Y = to_bits(y)
  BY BitsType
<1>2. X * One \in Int
  BY <1>0
<1>3. CASE Y = One
  <2>1. CDiv(X * One, One) = X
    <3>1. Abs(One) = One /\ ~ (One < 0)
      BY <1>0 DEF Abs
    <3>2. PICK m \in Nat : m = Abs(X) /\ X = IF X < 0 THEN -m ELSE m
      BY DEF Abs
    <3>3. m * One \in Nat /\ X * One = IF X < 0 THEN -(m * One) ELSE m * One
      BY <3>2, <1>0
    <3>4. X < 0 <=> X * One < 0
      <4>1. X < 0 => X * One + One <= 0 * One
        BY <1>0, TimesMonotone
      <4>2. 0 * One = 0
        BY <1>0
      <4> QED
        BY <4>1, <4>2, <3>3, <1>0, <1>2
    <3>5. Abs(X * One) = m * One
      BY <3>3, <3>4, <1>2 DEF Abs
    <3>6. (m * One) \div One = m
      <4>1. m * One + 0 = m * One /\ 0 \in 0 .. One - 1
        BY <1>0, <3>3
      <4> QED
        BY <4>1, <1>0, DivUnique
    <3> QED
      BY <3>1, <3>2, <3>4, <3>5, <3>6 DEF CDiv
  <2>2. to_bits(div(x, y)) = X /\ i32(X) = X
    BY <1>1, <1>3, BitsAreWord DEF div
  <2> QED
    BY <2>1, <2>2, <1>1, <1>3
<1>4. CASE Y # One
  <2>1. CDiv(X * One, Y) \in Int
    BY <1>1, <1>2, CDivType
  <2>2. div(x, y) = from_bits(i32(CDiv(X * One, Y)))
    BY <1>1, <1>4 DEF div
  <2> QED
    BY <2>1, <2>2, <1>1, i32Twice
<1> QED
  BY <1>3, <1>4

\* What fix32_mod subtracts, wherever the quotient fits
LEMMA ModSubtracts ==
  ASSUME NumTypeOK, A # 0, B # 0, Quotient = i32(Quotient)
  PROVE  /\ Quotient \in Int
         /\ to_bits(mod(a, b)) = i32(A - (Quotient \div One) * B)
<1>1. a \in fix32_t /\ b \in fix32_t /\ A \in Int /\ B \in Int /\ One \in Nat /\ One > 0
  BY BitsType, Widths DEF NumTypeOK, A, B
<1>2. Quotient \in Int
  BY <1>1, FloorOfQuotient
<1>3. PICK k \in Int : k = Quotient \div One
  BY <1>1, <1>2
<1>4. PICK D \in fix32_t : D = div(a, b)
  BY <1>1, DivType
<1>5. to_bits(D) = Quotient
  BY <1>1, <1>4, DivExact DEF A, B, Quotient
<1>6. PICK F \in fix32_t : F = flr(D)
  BY FlrType
<1>7. to_bits(F) = k * One
  BY <1>3, <1>5, <1>6, FlrExact
<1>8. PICK M \in fix32_t : M = mul(F, b)
  BY <1>1, ArithmeticType
<1>9. to_bits(M) = i32(k * B)
  <2>1. (k * One) * B = (k * B) * One + 0 /\ k * B \in Int
    BY <1>1
  <2>2. PICK m \in Int : m = k * B
    BY <2>1
  <2>3. (m * One + 0) \div One = m
    BY <1>1, DivUnique
  <2>4. ((k * One) * B) \div One = k * B
    BY <2>1, <2>2, <2>3
  <2> QED
    BY <2>4, <1>1, <1>7, <1>8, MulExact DEF B
<1>10. mod(a, b) = sub(a, M)
  BY <1>4, <1>6, <1>8 DEF mod, A, B
<1>11. to_bits(sub(a, M)) = i32(A - i32(k * B))
  BY <1>1, <1>8, <1>9, SubExact DEF A
<1>12. i32(A - i32(k * B)) = i32(A - k * B)
  <2>1. k * B \in Int
    BY <1>1
  <2> QED
    BY <2>1, <1>1, i32Sub
<1> QED
  BY <1>2, <1>3, <1>10, <1>11, <1>12

ModIsFlooredOrLower ==
  A # 0 /\ B # 0 /\ Quotient = i32(Quotient) =>
    to_bits(mod(a, b)) = i32(A - (IF Rounded THEN Floor + 1 ELSE Floor) * B)

\* fix32_mod is the floored remainder, but for the quotients that are rounded twice:
\* there it is exactly b lower, which is where it differs from the comment.
THEOREM ModAlwaysFlooredOrLower == Spec => []ModIsFlooredOrLower
<1>1. NumTypeOK => ModIsFlooredOrLower
  <2> SUFFICES ASSUME NumTypeOK, A # 0, B # 0, Quotient = i32(Quotient)
               PROVE  to_bits(mod(a, b)) = i32(A - (IF Rounded THEN Floor + 1 ELSE Floor) * B)
    BY DEF ModIsFlooredOrLower
  <2>1. A \in Int /\ B \in Int /\ One \in Nat /\ One > 0
    BY BitsType, Widths DEF NumTypeOK, A, B
  <2>2. Quotient \div One = IF Rounded THEN Floor + 1 ELSE Floor
    BY <2>1, FloorOfQuotient
  <2> QED
    BY <2>2, ModSubtracts
<1> QED
  BY <1>1, NumbersTypeCorrect, PTL

\* What a division that truncates towards zero leaves is smaller than the divisor.
LEMMA CDivLeaves ==
  ASSUME NEW n \in Int, NEW d \in Int, d # 0
  PROVE  /\ CDiv(n, d) \in Int /\ Abs(d) \in Nat \ {0}
         /\ \E s \in Int : n = CDiv(n, d) * d + s /\ -Abs(d) < s /\ s < Abs(d)
<1> DEFINE D == Abs(d)
           N == Abs(n)
<1>1. D \in Nat \ {0} /\ N \in Nat /\ (d < 0 => d = -D) /\ (~(d < 0) => d = D)
      /\ (n < 0 => n = -N) /\ (~(n < 0) => n = N)
  BY DEF Abs
<1>2. PICK f \in Int, r \in 0 .. D - 1 : N = f * D + r /\ f = N \div D
  <2> HIDE DEF D, N
  <2>1. N \in Int /\ D \in Nat /\ D > 0
    BY <1>1
  <2>2. N \div D \in Int /\ N % D \in 0 .. D - 1 /\ N = (N \div D) * D + (N % D)
    BY <2>1, DivMod
  <2> QED
    BY <2>2
<1>3. CDiv(n, d) = IF (n < 0) = (d < 0) THEN f ELSE -f
  BY <1>2 DEF CDiv
<1> HIDE DEF D, N
<1>4. (-f) * d = -(f * d) /\ f * (-D) = -(f * D) /\ f * d \in Int /\ f * D \in Int
  BY <1>1, <1>2
<1>5. CDiv(n, d) * d = IF n < 0 THEN -(f * D) ELSE f * D
  BY <1>1, <1>3, <1>4
<1>6. CASE n < 0
  <2>1. n = CDiv(n, d) * d + (-r) /\ -r \in Int /\ -D < -r /\ -r < D
    BY <1>1, <1>2, <1>4, <1>5, <1>6
  <2> QED
    BY <1>1, <1>2, <1>3, <2>1 DEF D
<1>7. CASE ~(n < 0)
  <2>1. n = CDiv(n, d) * d + r /\ r \in Int /\ -D < r /\ r < D
    BY <1>1, <1>2, <1>4, <1>5, <1>7
  <2> QED
    BY <1>1, <1>2, <1>3, <2>1 DEF D
<1> QED
  BY <1>6, <1>7

\* fix32_mod returns a remainder of a and b that is closer to 0 than b and has the
\* sign of b, or misses it by less than the last digit of the quotient.
THEOREM ModAlwaysRemainder == Spec => []ModIsRemainder
<1>1. NumTypeOK => ModIsRemainder
  <2> SUFFICES ASSUME NumTypeOK, A # 0, B # 0, Quotient = i32(Quotient)
               PROVE  LET r == to_bits(mod(a, b)) IN
                      /\ (A - r) % Abs(B) = 0
                      /\ Abs(r) < Abs(B)
                      /\ r # 0 => ((r < 0) <=> (B < 0)) \/ Abs(r) * One < Abs(B)
    BY DEF ModIsRemainder
  <2>1. /\ A \in Int /\ B \in Int /\ One \in Nat /\ One > 0 /\ Half * One \in Nat
        /\ -(Half * One) <= B /\ B < Half * One /\ A * One \in Int
    BY BitsType, BitsRange, Widths DEF NumTypeOK, A, B
  <2>2. PICK s \in Int : A * One = Quotient * B + s /\ -Abs(B) < s /\ s < Abs(B)
    BY <2>1, CDivLeaves DEF Quotient
  <2>3. Quotient \in Int /\ Abs(B) \in Nat \ {0}
    BY <2>1, CDivLeaves DEF Quotient
  <2>4. PICK k \in Int, m \in 0 .. One - 1 : Quotient = k * One + m /\ k = Quotient \div One
    BY <2>1, <2>3, DivMod
  <2>5. PICK r \in Int : r = A - k * B
    BY <2>1
  <2>6. r * One = s + m * B
    <3>1. r * One = A * One - (k * B) * One /\ (k * B) * One = (k * One) * B
      BY <2>1, <2>5
    <3>2. Quotient * B = (k * One) * B + m * B
      BY <2>1, <2>4
    <3>3. /\ (k * One) * B \in Int /\ m * B \in Int
      BY <2>1, <2>4
    <3> QED
      BY <2>1, <2>2, <3>1, <3>2, <3>3
  <2> DEFINE D == Abs(B)
  <2>7. D \in Nat \ {0} /\ (B < 0 => B = -D) /\ (~(B < 0) => B = D) /\ D <= Half * One
    BY <2>1, <2>3 DEF Abs
  <2> HIDE DEF D
  <2>8. m * D \in Nat /\ m * D <= (One - 1) * D /\ (One - 1) * D = One * D - D
        /\ m * (-D) = -(m * D) /\ One * D \in Nat
    BY <2>1, <2>4, <2>7
  <2>9. r * One < One * D /\ r * One > -(One * D)
        /\ (B < 0 => r * One < D) /\ (~(B < 0) => r * One > -D)
    BY <2>1, <2>2, <2>6, <2>7, <2>8 DEF D
  <2>10. r < D /\ -D < r
    BY <2>1, <2>7, <2>9
  <2>11. Abs(r) < D /\ (Abs(r) = r \/ Abs(r) = -r) /\ (r < 0 => Abs(r) = -r)
         /\ (~(r < 0) => Abs(r) = r)
    BY <2>7, <2>10 DEF Abs
  <2>12. r # 0 => ((r < 0) <=> (B < 0)) \/ Abs(r) * One < D
    <3>1. CASE B < 0 /\ ~(r < 0)
      BY <2>9, <2>11, <3>1
    <3>2. CASE ~(B < 0) /\ r < 0
      <4>1. (-r) * One = -(r * One)
        BY <2>1
      <4> QED
        BY <2>1, <2>7, <2>9, <2>11, <3>2, <4>1
    <3> QED
      BY <3>1, <3>2
  <2>13. (A - r) % D = 0
    <3>1. A - r = k * B
      BY <2>1, <2>5
    <3>2. PICK j \in Int : A - r = j * D + 0
      <4>1. CASE B < 0
        <5>1. k * (-D) = (-k) * D + 0 /\ -k \in Int
          BY <2>7
        <5> QED
          BY <3>1, <4>1, <5>1, <2>7
      <4>2. CASE ~(B < 0)
        <5>1. k * D = k * D + 0
          BY <2>7
        <5> QED
          BY <3>1, <4>2, <5>1, <2>7
      <4> QED
        BY <4>1, <4>2
    <3>3. 0 \in 0 .. D - 1 /\ D \in Nat
      BY <2>7
    <3>4. (j * D + 0) % D = 0
      BY <3>3, DivUnique
    <3> QED
      BY <3>2, <3>4
  <2>14. to_bits(mod(a, b)) = r
    <3>1. to_bits(mod(a, b)) = i32(r)
      BY <2>4, <2>5, ModSubtracts
    <3>2. -(Half * One) <= r /\ r < Half * One
      BY <2>1, <2>7, <2>10
    <3> QED
      BY <3>1, <3>2, i32InRange
  <2> QED
    BY <2>11, <2>12, <2>13, <2>14 DEF D
<1> QED
  BY <1>1, NumbersTypeCorrect, PTL

(***************************************************************************)
(* Decimal text                                                            *)
(***************************************************************************)
\* A number whose n lowest digits are 0 is a multiple of the n-th power of 10.
LEMMA ZerosDivide ==
  ASSUME NEW dec \in Nat
  PROVE  \A n \in Nat : (\A j \in 0 .. n - 1 : Digit(dec, j) = 0) =>
           (dec \div Power(10, n)) * Power(10, n) = dec
<1> DEFINE Zeros(n) == \A j \in 0 .. n - 1 : Digit(dec, j) = 0
           T == {n \in Nat : Zeros(n) => (dec \div Power(10, n)) * Power(10, n) = dec}
<1>1. 0 \in T
  <2>1. Power(10, 0) = 1
    BY PowerIs
  <2>2. (dec \div 1) * 1 = dec
    OBVIOUS
  <2> QED
    BY <2>1, <2>2
<1>2. ASSUME NEW n \in Nat, n \in T PROVE n + 1 \in T
  <2> SUFFICES ASSUME Zeros(n + 1)
               PROVE  (dec \div Power(10, n + 1)) * Power(10, n + 1) = dec
    OBVIOUS
  <2>1. Zeros(n) /\ n \in 0 .. (n + 1) - 1
    OBVIOUS
  <2>2. Digit(dec, n) = 0
    BY <2>1
  <2>3. PICK p \in Nat : p = Power(10, n) /\ p > 0
    BY PowerPositive
  <2>4. Power(10, n + 1) = 10 * p
    BY <2>3, PowerIs
  <2>5. PICK m \in Int : m = dec \div p
    BY <2>3
  <2>6. m * p = dec
    BY <1>2, <2>1, <2>3, <2>5
  <2>7. PICK q \in Int, r \in 0 .. 9 : m = q * 10 + r /\ r = m % 10
    BY DivMod
  <2>8. r = 0
    BY <2>2, <2>3, <2>5, <2>7 DEF Digit
  <2>9. dec = q * (10 * p) + 0
    BY <2>3, <2>6, <2>7, <2>8
  <2>10. 10 * p \in Nat /\ 0 \in 0 .. 10 * p - 1
    BY <2>3
  <2>11. PICK d \in Nat : d = 10 * p /\ 0 \in 0 .. d - 1
    BY <2>10
  <2>12. (q * d + 0) \div d = q
    BY <2>11, DivUnique
  <2>13. dec \div d = q
    BY <2>9, <2>11, <2>12
  <2>14. q * d = dec
    BY <2>9, <2>11
  <2> QED
    BY <2>4, <2>11, <2>13, <2>14
<1> HIDE DEF T
<1>3. \A n \in Nat : n \in T
  BY <1>1, <1>2, NatInd
<1> QED
  BY <1>3 DEF T

\* The zeros that are stripped are digits of the fraction, and no other digit is.
LEMMA StripExact ==
  ASSUME NEW dec \in Nat, dec > 0, dec < Power(10, Digits)
  PROVE  \E k \in 0 .. Digits :
           /\ Stripped(dec) = Padded(dec \div Power(10, k), Digits - k)
           /\ (dec \div Power(10, k)) * Power(10, k) = dec
<1>0. Digits \in Nat
  BY Fix32Assumption
<1> DEFINE D == {j \in Nat : Digit(dec, j) # 0}
<1>1. \E j \in 0 .. Digits - 1 : Digit(dec, j) # 0
  <2> SUFFICES ASSUME \A j \in 0 .. Digits - 1 : Digit(dec, j) = 0 PROVE FALSE
    OBVIOUS
  <2>1. (dec \div Power(10, Digits)) * Power(10, Digits) = dec
    BY <1>0, ZerosDivide
  <2>2. PICK p \in Nat : p = Power(10, Digits)
    BY <1>0, PowerPositive
  <2>3. dec \in 0 .. p - 1
    BY <2>2
  <2>4. dec \div p = 0
    BY <2>3, ModSmall
  <2>5. 0 * p = 0
    BY <2>2
  <2> QED
    BY <2>1, <2>2, <2>4, <2>5
<1>2. PICK j \in D : j < Digits /\ \A i \in D : j <= i
  <2>1. PICK j \in 0 .. Digits - 1 : Digit(dec, j) # 0
    BY <1>1
  <2>2. j \in D /\ j < Digits
    BY <2>1, <1>0
  <2>3. PICK m \in D : \A i \in D : m <= i
    BY <2>2, LeastElement
  <2>4. m <= j /\ m \in Nat /\ j \in Nat
    BY <2>2, <2>3
  <2>5. m < Digits
    BY <2>2, <2>4, <1>0
  <2> QED
    BY <2>3, <2>5
<1> DEFINE Least(k) == Digit(dec, k) # 0 /\ \A i \in 0 .. k - 1 : Digit(dec, i) = 0
<1>3. j \in 0 .. Digits /\ Least(j)
  <2>1. j \in Nat /\ Digit(dec, j) # 0 /\ j \in 0 .. Digits
    BY <1>0, <1>2
  <2>2. ASSUME NEW i \in 0 .. j - 1 PROVE Digit(dec, i) = 0
    <3>1. i \in Nat /\ i < j
      BY <2>1
    <3>2. ~ (i \in D)
      BY <3>1, <2>1, <1>2
    <3> QED
      BY <3>1, <3>2
  <2> QED
    BY <2>1, <2>2
<1> DEFINE k == CHOOSE k \in 0 .. Digits : Least(k)
<1>4. k \in 0 .. Digits /\ Least(k)
  <2> HIDE DEF Least
  <2> QED
    BY <1>3
<1>5. Stripped(dec) = Padded(dec \div Power(10, k), Digits - k)
  BY DEF Stripped
<1> HIDE DEF k
<1>6. k \in Nat /\ \A i \in 0 .. k - 1 : Digit(dec, i) = 0
  BY <1>0, <1>4
<1>7. (dec \div Power(10, k)) * Power(10, k) = dec
  BY <1>6, ZerosDivide
<1> QED
  BY <1>4, <1>5, <1>7

\* The digits of a fraction are enough of them: no lower fraction has the same.
LEMMA FractionReadsBack ==
  ASSUME NEW f \in 1 .. One - 1
  PROVE  LET T    == Power(10, Digits)
             frac == Stripped((f * T) \div One)
         IN (frac.dec * One * Power(10, Digits - frac.width) + T - 1) \div T = f
<1>0. One \in Nat /\ One > 0 /\ Digits \in Nat /\ f \in Int /\ f > 0 /\ f < One
  BY Widths, Fix32Assumption
<1>1. PICK T \in Nat : T = Power(10, Digits) /\ T > One
  BY <1>0, PowerPositive, Fix32Assumption
<1>2. f * T \in Int
  BY <1>0
<1>3. PICK dec \in Int, e \in 0 .. One - 1 : f * T = dec * One + e /\ dec = (f * T) \div One
  BY <1>0, <1>2, DivMod
<1>4. dec * One \in Int /\ e \in Int /\ 0 <= e /\ e < One
  BY <1>0
<1>5. 0 < dec
  <2>1. 0 * T + T <= f * T
    BY <1>0, TimesMonotone
  <2>2. 0 * T = 0 /\ 0 * One = 0
    BY <1>0
  <2>3. 0 * One < dec * One
    BY <2>1, <2>2, <1>0, <1>1, <1>3, <1>4
  <2> QED
    BY <2>3, <1>0, Between
<1>6. dec < T
  <2>1. f * T + T <= One * T
    BY <1>0, TimesMonotone
  <2>2. One * T = T * One /\ One * T \in Int
    BY <1>0
  <2>3. dec * One < T * One
    BY <2>1, <2>2, <1>0, <1>1, <1>2, <1>3, <1>4
  <2> QED
    BY <2>3, <1>0, Between
<1>7. PICK k \in 0 .. Digits : /\ Stripped(dec) = Padded(dec \div Power(10, k), Digits - k)
                               /\ (dec \div Power(10, k)) * Power(10, k) = dec
  <2>1. dec \in Nat
    BY <1>5
  <2> QED
    BY <2>1, <1>1, <1>5, <1>6, StripExact
<1>8. PICK p \in Nat : p = Power(10, k) /\ p > 0
  <2>1. k \in Nat
    BY <1>0
  <2> QED
    BY <2>1, PowerPositive
<1>9. PICK m \in Int : m = dec \div p /\ m * p = dec
  BY <1>7, <1>8
<1>10. Digits - (Digits - k) = k
  BY <1>0
<1>11. Stripped(dec).dec = m /\ Stripped(dec).width = Digits - k
  BY <1>7, <1>8, <1>9 DEF Padded
<1>12. m * One * p = dec * One
  BY <1>0, <1>9
<1>13. (dec * One + T - 1) \div T = f
  <2>1. PICK s \in 0 .. T - 1 : s = T - 1 - e
    BY <1>1, <1>4, <1>0
  <2>2. dec * One + T - 1 = f * T + s
    BY <2>1, <1>2, <1>3, <1>4
  <2>3. (f * T + s) \div T = f
    BY <1>0, DivUnique
  <2> QED
    BY <2>2, <2>3
<1> QED
  BY <1>1, <1>3, <1>8, <1>10, <1>11, <1>12, <1>13

\* The text of a number with its fraction, the one of a negative number included,
\* reads back as this number.
THEOREM PrintAlwaysReadsBack == Spec => []PrintReadsBack
<1>1. NumTypeOK => PrintReadsBack
  <2> SUFFICES ASSUME NumTypeOK PROVE PrintReadsBack
    OBVIOUS
  <2> DEFINE T == Power(10, Digits)
             Text(neg, n) ==
               [neg |-> neg, int |-> Abs(n.i),
                frac |-> IF n.f = 0 THEN Padded(0, 0) ELSE Stripped((n.f * T) \div One)]
             Value(text) ==
               text.int * One
                 + (text.frac.dec * One * Power(10, Digits - text.frac.width) + T - 1) \div T
  <2>1. /\ a \in fix32_t /\ a.i \in Int /\ a.f \in 0 .. One - 1 /\ a.f \in Int
        /\ a.i \in -Half .. Half - 1 /\ One \in Nat /\ One > 0 /\ Half \in Nat
        /\ A = a.i * One + a.f /\ T \in Nat /\ T > 0 /\ Digits \in Nat
    BY BitsType, Widths, PowerPositive, Fix32Assumption
    DEF NumTypeOK, A, to_bits, IntMin, IntMax
  <2>2. PrintReadsBack <=>
          A = IF print_fix32(a).neg THEN -Value(print_fix32(a)) ELSE Value(print_fix32(a))
    BY DEF PrintReadsBack
  <2>3. print_fix32(a) = IF a.f = 0 \/ a.i >= 0 THEN Text(a.i < 0, a)
                         ELSE Text(TRUE, fix32(-a.i - 1, One - a.f))
    BY DEF print_fix32
  <2>4. ASSUME NEW neg, NEW n, n.f = 0
        PROVE  Value(Text(neg, n)) = Abs(n.i) * One + 0
    <3>1. Text(neg, n).frac = [dec |-> 0, width |-> 0] /\ Text(neg, n).int = Abs(n.i)
      BY <2>4 DEF Padded
    <3>2. T - 1 \in 0 .. T - 1
      BY <2>1
    <3>3. (T - 1) \div T = 0
      BY <2>1, <3>2, ModSmall
    <3>4. 0 * One * Power(10, Digits - 0) = 0 /\ 0 + T - 1 = T - 1
      BY <2>1
    <3> HIDE DEF Text, T
    <3> QED
      BY <3>1, <3>3, <3>4
  <2>5. ASSUME NEW neg, NEW n, n.f \in 1 .. One - 1
        PROVE  Value(Text(neg, n)) = Abs(n.i) * One + n.f
    <3>1. n.f # 0
      BY <2>1, <2>5
    <3>2. Text(neg, n).frac = Stripped((n.f * T) \div One) /\ Text(neg, n).int = Abs(n.i)
      BY <3>1
    <3> HIDE DEF Text
    <3> QED
      BY <3>2, <2>5, FractionReadsBack
  <2>6. /\ \A neg, n : Text(neg, n).neg = neg
    OBVIOUS
  <2> HIDE DEF Value, Text, T
  <2>7. CASE a.f = 0
    <3>1. a.i * One + 0 = IF a.i < 0 THEN -(Abs(a.i) * One + 0) ELSE Abs(a.i) * One + 0
      BY <2>1 DEF Abs
    <3>2. print_fix32(a) = Text(a.i < 0, a)
      BY <2>3, <2>7
    <3>3. print_fix32(a).neg = (a.i < 0) /\ Value(print_fix32(a)) = Abs(a.i) * One + 0
      BY <3>2, <2>4, <2>6, <2>7
    <3>4. A = a.i * One + 0
      BY <2>1, <2>7
    <3> QED
      BY <3>1, <3>3, <3>4, <2>2
  <2>8. CASE a.f # 0 /\ a.i >= 0
    <3>1. a.f \in 1 .. One - 1 /\ Abs(a.i) = a.i /\ ~ (a.i < 0)
      BY <2>1, <2>8 DEF Abs
    <3>2. Value(Text(a.i < 0, a)) = Abs(a.i) * One + a.f
      BY <3>1, <2>5
    <3>3. print_fix32(a) = Text(a.i < 0, a)
      BY <2>3, <2>8
    <3>4. print_fix32(a).neg = (a.i < 0) /\ Value(print_fix32(a)) = Abs(a.i) * One + a.f
      BY <3>2, <3>3, <2>6
    <3> QED
      BY <3>1, <3>4, <2>1, <2>2
  <2>9. CASE a.f # 0 /\ ~ (a.i >= 0)
    <3>1. PICK i \in Int, f \in 1 .. One - 1 : i = -a.i - 1 /\ f = One - a.f
      BY <2>1, <2>9
    <3>2. -Half <= i /\ i < Half /\ f \in 0 .. One - 1 /\ i >= 0
      BY <2>1, <2>9, <3>1
    <3>3. i16(i) = i /\ f % One = f
      BY <2>1, <3>2, SignedIsIdentity, ModSmall DEF i16
    <3>4. fix32(-a.i - 1, One - a.f) = [i |-> i, f |-> f]
      BY <3>1, <3>3 DEF fix32
    <3>5. PICK n : n = [i |-> i, f |-> f]
      OBVIOUS
    <3>6. n.i = i /\ n.f = f
      BY <3>5
    <3>7. Value(Text(TRUE, n)) = Abs(i) * One + f
      BY <3>6, <2>5
    <3>8. Abs(i) = i
      BY <3>2 DEF Abs
    <3>9. i * One + f = -(a.i * One + a.f)
      <4>1. (-a.i - 1) * One = -(a.i * One) - One /\ a.i * One \in Int
        BY <2>1
      <4> QED
        BY <4>1, <2>1, <3>1
    <3>10. a.i * One + a.f = -(-(a.i * One + a.f))
      <4>1. a.i * One \in Int
        BY <2>1
      <4> QED
        BY <4>1, <2>1
    <3> QED
      BY <3>4, <3>5, <3>7, <3>8, <3>9, <3>10, <2>1, <2>2, <2>3, <2>6, <2>9
  <2> QED
    BY <2>7, <2>8, <2>9
<1> QED
  BY <1>1, NumbersTypeCorrect, PTL

(***************************************************************************)
(* The square root                                                         *)
(***************************************************************************)
\* A round of fix32_sqrt tries the bit of the root that it is given.
Round(x, bit) ==
  LET t == (x.q + bit) % Word
  IN IF x.r >= t
     THEN [r |-> (2 * (x.r - t)) % Word, q |-> (t + bit) % Word]
     ELSE [r |-> (2 * x.r) % Word, q |-> x.q]

Remainders == [r : 0 .. Word - 1, q : 0 .. Word - 1]

LEMMA RoundType ==
  ASSUME NEW x \in Remainders, NEW bit \in Nat
  PROVE  Round(x, bit) \in Remainders
<1>1. Word \in Nat /\ Word > 0 /\ x.q \in Int /\ x.r \in Int /\ x.q \in 0 .. Word - 1
  BY WordIs DEF Remainders
<1>2. PICK t \in Int : t = (x.q + bit) % Word
  BY <1>1
<1>3. /\ (2 * (x.r - t)) % Word \in 0 .. Word - 1 /\ (t + bit) % Word \in 0 .. Word - 1
      /\ (2 * x.r) % Word \in 0 .. Word - 1
  BY <1>1
<1> QED
  BY <1>1, <1>2, <1>3 DEF Round, Remainders

\* The loop of fix32_sqrt, for the word v
Bit(n) == Power(2, 2 * HalfBits - 1 - n)
IsLoop(loop, v) ==
  /\ loop[0] = [r |-> v % Word, q |-> 0]
  /\ \A n \in 1 .. Rounds : loop[n] = Round(loop[n - 1], Bit(n))

\* The widths, as powers of two of half of HalfBits
LEMMA RoundsIs ==
  \E g \in Nat : /\ g > 2 /\ HalfBits = 2 * g /\ Rounds = 3 * g /\ HalfBits \div 2 = g
                 /\ One = Power(2, g) * Power(2, g) /\ Word = Power(2, 4 * g)
<1>1. HalfBits \in Nat /\ HalfBits % 2 = 0 /\ HalfBits > 5 /\ HalfBits \in Int
  BY Fix32Assumption
<1>2. PICK g \in Int : HalfBits = g * 2 + 0 /\ g = HalfBits \div 2
  <2>1. PICK h \in Int : h = HalfBits /\ h % 2 = 0
    BY <1>1
  <2>2. PICK g \in Int, r \in 0 .. 1 : h = g * 2 + r /\ g = h \div 2 /\ r = h % 2
    BY DivMod
  <2> QED
    BY <2>1, <2>2
<1>3. g \in Nat /\ g > 2 /\ HalfBits = g + g /\ HalfBits + HalfBits = 4 * g
  BY <1>1, <1>2
<1>4. Rounds = 3 * g
  <2>1. 3 * HalfBits = (3 * g) * 2 + 0 /\ 3 * g \in Int
    BY <1>2, <1>3
  <2>2. PICK m \in Int : m = 3 * g
    BY <2>1
  <2>3. (m * 2 + 0) \div 2 = m
    BY DivUnique
  <2> QED
    BY <2>1, <2>2, <2>3 DEF Rounds
<1>5. One = Power(2, g) * Power(2, g)
  BY <1>3, PowerSum, OneIsPower
<1>6. Power(2, HalfBits + HalfBits) = Power(2, HalfBits) * Power(2, HalfBits)
  <2>1. PICK h \in Nat : h = HalfBits
    BY <1>1
  <2>2. Power(2, h + h) = Power(2, h) * Power(2, h)
    BY PowerSum
  <2> QED
    BY <2>1, <2>2
<1> QED
  BY <1>2, <1>3, <1>4, <1>5, <1>6, OneIsPower, WordIs

LEMMA SqrtLoops ==
  ASSUME NEW x \in fix32_t
  PROVE  \E loop \in [0 .. Rounds -> Remainders] :
           /\ IsLoop(loop, to_bits(x))
           /\ sqrt(x) = from_bits(loop[Rounds].q \div Power(2, HalfBits \div 2))
<1> DEFINE v == to_bits(x)
           first == [r |-> v % Word, q |-> 0]
           step(n) == [y \in Remainders |-> Round(y, Bit(n))]
           G == [n \in Nat |-> IF n \in 1 .. Rounds THEN step(n) ELSE [y \in Remainders |-> y]]
           Up(f) == [n \in 0 .. Rounds |->
                      IF n = 0 THEN first
                      ELSE LET y == f[n - 1]
                               bit == Power(2, 2 * HalfBits - 1 - n)
                               t == (y.q + bit) % Word
                           IN IF y.r >= t
                              THEN [r |-> (2 * (y.r - t)) % Word, q |-> (t + bit) % Word]
                              ELSE [r |-> (2 * y.r) % Word, q |-> y.q]]
           f == CHOOSE f : f = Up(f)
<1>0. Rounds \in Nat /\ v \in Int /\ first \in Remainders
      /\ \A n \in 1 .. Rounds : Bit(n) \in Nat /\ n \in Nat /\ n # 0 /\ n - 1 \in 0 .. Rounds
  <2>1. Rounds \in Nat
    BY RoundsIs
  <2>2. v % Word \in 0 .. Word - 1 /\ 0 \in 0 .. Word - 1
    BY BitsType, WordIs
  <2>3. ASSUME NEW n \in 1 .. Rounds PROVE Bit(n) \in Nat
    <3>1. PICK g \in Nat : g > 2 /\ HalfBits = 2 * g /\ Rounds = 3 * g
      BY RoundsIs
    <3>2. 2 * HalfBits - 1 - n \in Nat
      BY <3>1
    <3> QED
      BY <3>2, PowerPositive DEF Bit
  <2> QED
    BY <2>1, <2>2, <2>3, BitsType DEF Remainders
<1> HIDE DEF first
<1>1. ASSUME NEW n \in 1 .. Rounds
      PROVE  step(n) \in [Remainders -> Remainders]
             /\ \A y \in Remainders : step(n)[y] = Round(y, Bit(n))
  BY <1>0, RoundType
<1>2. G \in Recursions(Remainders) /\ \A n \in 1 .. Rounds : G[n] = step(n)
  <2>1. [y \in Remainders |-> y] \in [Remainders -> Remainders]
    OBVIOUS
  <2> HIDE DEF step
  <2>2. \A n \in Nat : G[n] \in [Remainders -> Remainders]
    BY <1>1, <2>1
  <2> QED
    BY <2>2, <1>0 DEF Recursions
<1> HIDE DEF G, step
<1>3. Runs(Rounds, Remainders, first, G) # {}
  BY <1>0, <1>2, RunsExist
<1>4. PICK g \in [0 .. Rounds -> Remainders] :
        g[0] = first /\ \A i \in 1 .. Rounds : g[i] = G[i][g[i - 1]]
  BY <1>3 DEF Runs
<1>5. \A n \in 1 .. Rounds : g[n] = Round(g[n - 1], Bit(n))
  <2> SUFFICES ASSUME NEW n \in 1 .. Rounds PROVE g[n] = Round(g[n - 1], Bit(n))
    OBVIOUS
  <2>1. g[n - 1] \in Remainders /\ g[n] = step(n)[g[n - 1]]
    BY <1>0, <1>2, <1>4
  <2> QED
    BY <2>1, <1>1
<1>6. ASSUME NEW n \in 1 .. Rounds, NEW h
      PROVE  Up(h)[n] = Round(h[n - 1], Bit(n))
  <2>1. n \in 0 .. Rounds /\ n # 0
    BY <1>0
  <2> QED
    BY <2>1 DEF Round, Bit
<1>7. ASSUME NEW h PROVE Up(h)[0] = first
  BY <1>0
<1>8. g = Up(g)
  <2>1. \A n \in 0 .. Rounds : n = 0 \/ n \in 1 .. Rounds
    BY <1>0
  <2>2. \A n \in 0 .. Rounds : g[n] = Up(g)[n]
    BY <2>1, <1>4, <1>5, <1>6, <1>7
  <2>3. Up(g) = [n \in 0 .. Rounds |-> Up(g)[n]]
    OBVIOUS
  <2> HIDE DEF Up
  <2>4. g = [n \in 0 .. Rounds |-> g[n]]
    BY <1>4
  <2> QED
    BY <2>2, <2>3, <2>4
<1>9. f = Up(f)
  BY <1>8
<1>10. sqrt(x) = from_bits(f[Rounds].q \div Power(2, HalfBits \div 2))
  BY DEF sqrt, first
<1> HIDE DEF f
<1>11. f[0] = first /\ \A n \in 1 .. Rounds : f[n] = Round(f[n - 1], Bit(n))
  BY <1>6, <1>7, <1>9
<1>12. f \in [0 .. Rounds -> Remainders]
  <2> DEFINE T == {n \in Nat : n <= Rounds => f[n] \in Remainders}
  <2>1. 0 \in T
    BY <1>0, <1>11
  <2>2. ASSUME NEW n \in Nat, n \in T PROVE n + 1 \in T
    <3> SUFFICES ASSUME n + 1 <= Rounds PROVE f[n + 1] \in Remainders
      OBVIOUS
    <3>1. n + 1 \in 1 .. Rounds /\ (n + 1) - 1 = n /\ n <= Rounds
      BY <1>0
    <3>2. f[n + 1] = Round(f[n], Bit(n + 1))
      BY <3>1, <1>11
    <3>3. f[n] \in Remainders /\ Bit(n + 1) \in Nat
      BY <2>2, <3>1, <1>0
    <3> QED
      BY <3>2, <3>3, RoundType
  <2> HIDE DEF T
  <2>3. \A n \in Nat : n \in T
    BY <2>1, <2>2, NatInd
  <2>4. \A n \in 0 .. Rounds : n \in Nat /\ f[n] \in Remainders
    BY <2>3, <1>0 DEF T
  <2>5. Up(f) = [n \in 0 .. Rounds |-> Up(f)[n]]
    OBVIOUS
  <2> HIDE DEF Up
  <2> QED
    BY <2>4, <2>5, <1>9
<1>13. IsLoop(f, v)
  BY <1>11 DEF IsLoop, first
<1> QED
  BY <1>10, <1>12, <1>13

LEMMA PowerOfTwo ==
  ASSUME NEW m \in Nat
  PROVE  Power(2, m) \in Nat /\ Power(2, m) > 0 /\ Power(2, m + 1) = 2 * Power(2, m)
<1>1. Power(2, m) \in Nat /\ Power(2, m) > m
  BY PowerPositive
<1>2. Power(2, m + 1) = 2 * Power(2, m)
  BY PowerIs
<1> QED
  BY <1>1, <1>2

\* One round, where nothing wraps: K is the weight of the remainder before it,
\* which the root so far is a multiple of.
RootSoFar(x, K, v) ==
  /\ x.q * x.q + K * x.r = Word * v
  /\ x.r < 2 * x.q + K
  /\ x.q + K <= Half * One
  /\ \E m \in Nat : x.q = K * m

LEMMA RoundKeepsRoot ==
  ASSUME NEW x \in Remainders, NEW d \in Nat, NEW v \in Nat, d > 0,
         RootSoFar(x, 4 * d, v)
  PROVE  RootSoFar(Round(x, d), 2 * d, v)
<1> DEFINE q == x.q
           r == x.r
           t == q + d
           H == Half * One
<1>1. q \in Nat /\ r \in Nat /\ Word \in Nat /\ Word = 2 * H /\ H \in Nat
  BY WordIs, Widths DEF Remainders
<1>2. /\ q * q + (4 * d) * r = Word * v
      /\ r < 2 * q + 4 * d
      /\ q + 4 * d <= H
  BY DEF RootSoFar
<1>3. PICK m \in Nat : q = (4 * d) * m
  BY DEF RootSoFar
<1> HIDE DEF q, r, H
<1>4. t \in 0 .. Word - 1 /\ t \in Int
  BY <1>1, <1>2
<1>5. t % Word = t
  BY <1>1, <1>4, ModSmall
<1>6. CASE r >= t
  <2>1. 2 * (r - t) \in 0 .. Word - 1 /\ t + d \in 0 .. Word - 1
    BY <1>1, <1>2, <1>6
  <2>2. (2 * (r - t)) % Word = 2 * (r - t) /\ (t + d) % Word = t + d
    <3>1. PICK s \in 0 .. Word - 1, u \in 0 .. Word - 1 : s = 2 * (r - t) /\ u = t + d
      BY <2>1
    <3>2. s % Word = s /\ u % Word = u
      BY <1>1, ModSmall
    <3> QED
      BY <3>1, <3>2
  <2>3. Round(x, d) = [r |-> 2 * (r - t), q |-> t + d]
    BY <2>2, <1>5, <1>6 DEF Round, q, r
  <2>4. PICK s \in Int, u \in Int : s = 2 * (r - t) /\ u = t + d
    BY <1>1
  <2>5. u * u + (2 * d) * s = Word * v
    <3>1. u * u = q * q + 4 * (q * d) + 4 * (d * d)
      <4>1. u = q + 2 * d
        BY <2>4, <1>1
      <4> QED
        BY <4>1, <1>1
    <3>2. (2 * d) * s = 4 * (d * r) - 4 * (q * d) - 4 * (d * d)
      <4>1. s = 2 * r - 2 * q - 2 * d
        BY <2>4, <1>1
      <4> QED
        BY <4>1, <1>1
    <3>3. (4 * d) * r = 4 * (d * r)
      BY <1>1
    <3>4. q * q \in Int /\ q * d \in Int /\ d * d \in Int /\ d * r \in Int
      BY <1>1
    <3>5. PICK x1 \in Int, x2 \in Int, x3 \in Int, x4 \in Int :
            x1 = q * q /\ x2 = q * d /\ x3 = d * d /\ x4 = d * r
      BY <3>4
    <3>6. u * u + (2 * d) * s = x1 + 4 * x4
      <4>1. u * u = x1 + 4 * x2 + 4 * x3
        BY <3>1, <3>5
      <4>2. (2 * d) * s = 4 * x4 - 4 * x2 - 4 * x3
        BY <3>2, <3>5
      <4>3. (x1 + 4 * x2 + 4 * x3) + (4 * x4 - 4 * x2 - 4 * x3) = x1 + 4 * x4
        OBVIOUS
      <4> QED
        BY <4>1, <4>2, <4>3
    <3>7. q * q + (4 * d) * r = x1 + 4 * x4
      BY <3>3, <3>5
    <3> QED
      BY <3>6, <3>7, <1>2
  <2>6. s < 2 * u + 2 * d /\ u + 2 * d <= H
    BY <2>4, <1>1, <1>2
  <2>7. u = (2 * d) * (2 * m + 1) /\ 2 * m + 1 \in Nat
    BY <2>4, <1>1, <1>3
  <2>8. Round(x, d).r = s /\ Round(x, d).q = u
    BY <2>3, <2>4
  <2> QED
    BY <2>5, <2>6, <2>7, <2>8 DEF RootSoFar, H
<1>7. CASE ~ (r >= t)
  <2>1. 2 * r \in 0 .. Word - 1
    BY <1>1, <1>2, <1>7
  <2>2. (2 * r) % Word = 2 * r
    <3>1. PICK s \in 0 .. Word - 1 : s = 2 * r
      BY <2>1
    <3>2. s % Word = s
      BY <1>1, ModSmall
    <3> QED
      BY <3>1, <3>2
  <2>3. Round(x, d) = [r |-> 2 * r, q |-> q]
    BY <2>2, <1>5, <1>7 DEF Round, q, r
  <2>4. PICK s \in Int : s = 2 * r
    BY <1>1
  <2>5. q * q + (2 * d) * s = Word * v
    <3>1. (2 * d) * s = (4 * d) * r
      BY <2>4, <1>1
    <3> QED
      BY <3>1, <1>2
  <2>6. s < 2 * q + 2 * d /\ q + 2 * d <= H
    BY <2>4, <1>1, <1>2, <1>7
  <2>7. q = (2 * d) * (2 * m) /\ 2 * m \in Nat
    BY <1>1, <1>3
  <2>8. Round(x, d).r = s /\ Round(x, d).q = q
    BY <2>3, <2>4
  <2> QED
    BY <2>5, <2>6, <2>7, <2>8 DEF RootSoFar, H
<1> QED
  BY <1>6, <1>7

\* After every round the number is the square of the root so far and the
\* remainder, which loses weight.  The first bit is never one of the root.
LEMMA LoopKeepsRoot ==
  ASSUME NEW v \in Nat, v < Half * Half, NEW loop \in [0 .. Rounds -> Remainders],
         IsLoop(loop, v)
  PROVE  \A n \in 1 .. Rounds : RootSoFar(loop[n], 2 * Bit(n), v)
<1>1. PICK g \in Nat : g > 2 /\ HalfBits = 2 * g /\ Rounds = 3 * g /\ Word = Power(2, 4 * g)
  BY RoundsIs
<1>2. /\ Word \in Nat /\ Word = 4 * (Half * Half) /\ Word = 2 * (Half * One)
      /\ Half * Half \in Nat /\ Half * One \in Nat
  <2>1. Half * Half \in Nat
    BY Widths
  <2> QED
    BY <2>1, WordIs, Widths
<1>3. \A n \in 0 .. Rounds : n \in Nat /\ loop[n] \in Remainders
  BY <1>1
<1>4. /\ loop[0] = [r |-> v % Word, q |-> 0]
      /\ \A n \in 1 .. Rounds : loop[n] = Round(loop[n - 1], Bit(n))
  BY DEF IsLoop
<1>5. ASSUME NEW n \in 1 .. Rounds
      PROVE  Bit(n) \in Nat /\ Bit(n) > 0 /\ Power(2, 4 * g - n) = 2 * Bit(n)
  <2>1. PICK m \in Nat : m = 4 * g - 1 - n
    BY <1>1
  <2>2. 2 * HalfBits - 1 - n = m /\ 4 * g - n = m + 1
    BY <2>1, <1>1
  <2> QED
    BY <2>2, PowerOfTwo DEF Bit
<1> DEFINE T == {n \in Nat : n + 1 <= Rounds => RootSoFar(loop[n + 1], 2 * Bit(n + 1), v)}
<1>6. 0 \in T
  <2>1. 1 \in 1 .. Rounds /\ 1 - 1 = 0 /\ 0 + 1 = 1
    BY <1>1
  <2>2. PICK d \in Nat : d = Bit(1) /\ d > 0
    BY <2>1, <1>5
  <2>3. Half * Half = d /\ Half * One = 2 * d
    <3>1. PICK m \in Nat : m = 4 * g - 1
      BY <1>1
    <3>2. 4 * g = m + 1 /\ 4 * g - 1 = m
      BY <3>1
    <3>3. Power(2, m + 1) = 2 * Power(2, m) /\ Power(2, m) \in Nat
      BY PowerOfTwo
    <3>4. Word = 2 * (2 * d)
      BY <3>2, <3>3, <2>1, <2>2, <1>1, <1>5
    <3> QED
      BY <3>4, <1>2
  <2>4. v % Word = v
    <3>1. v \in 0 .. Word - 1
      BY <1>2
    <3> QED
      BY <3>1, <1>2, ModSmall
  <2>5. (0 + d) % Word = d
    <3>1. d \in 0 .. Word - 1 /\ 0 + d = d
      BY <1>2, <2>2, <2>3
    <3> QED
      BY <3>1, <1>2, ModSmall
  <2>6. (2 * v) % Word = 2 * v
    <3>1. PICK s \in 0 .. Word - 1 : s = 2 * v
      BY <1>2
    <3>2. s % Word = s
      BY <1>2, ModSmall
    <3> QED
      BY <3>1, <3>2
  <2>7. ~ (v >= d)
    BY <2>3
  <2>8. Round([r |-> v, q |-> 0], d) = [r |-> 2 * v, q |-> 0]
    BY <2>5, <2>6, <2>7 DEF Round
  <2>9. loop[1] = [r |-> 2 * v, q |-> 0]
    BY <1>4, <2>1, <2>2, <2>4, <2>8
  <2>10. RootSoFar([r |-> 2 * v, q |-> 0], 2 * d, v)
    <3>1. 0 * 0 + (2 * d) * (2 * v) = Word * v
      BY <1>2, <2>3
    <3>2. 2 * v < 2 * 0 + 2 * d /\ 0 + 2 * d <= Half * One
      BY <2>3, <2>7
    <3>3. 0 = (2 * d) * 0 /\ 0 \in Nat
      OBVIOUS
    <3> QED
      BY <3>1, <3>2, <3>3 DEF RootSoFar
  <2> QED
    BY <2>1, <2>2, <2>9, <2>10
<1>7. ASSUME NEW n \in Nat, n \in T PROVE n + 1 \in T
  <2> SUFFICES ASSUME (n + 1) + 1 <= Rounds
               PROVE  RootSoFar(loop[(n + 1) + 1], 2 * Bit((n + 1) + 1), v)
    OBVIOUS
  <2>1. PICK k \in Nat : k = n + 1
    OBVIOUS
  <2>2. k \in 1 .. Rounds /\ k + 1 \in 1 .. Rounds /\ (k + 1) - 1 = k /\ k \in 0 .. Rounds
    BY <2>1, <1>1
  <2>3. RootSoFar(loop[k], 2 * Bit(k), v)
    BY <1>7, <2>1, <2>2
  <2>4. PICK d \in Nat : d = Bit(k + 1) /\ d > 0
    BY <2>2, <1>5
  <2>5. 2 * Bit(k) = 4 * d
    <3>1. PICK m \in Nat : m = 4 * g - (k + 1)
      BY <2>2, <1>1
    <3>2. 4 * g - k = m + 1
      BY <3>1
    <3>3. Power(2, m + 1) = 2 * Power(2, m) /\ Power(2, m) = 2 * d
      BY <3>1, <2>2, <2>4, <1>5, PowerIs
    <3>4. 2 * Bit(k) = 2 * (2 * d)
      BY <3>2, <3>3, <2>2, <1>5
    <3> QED
      BY <3>4
  <2>6. loop[k] \in Remainders /\ loop[k + 1] = Round(loop[k], d)
    BY <2>2, <2>4, <1>3, <1>4
  <2>7. RootSoFar(loop[k + 1], 2 * d, v)
    BY <2>3, <2>4, <2>5, <2>6, RoundKeepsRoot
  <2> QED
    BY <2>1, <2>4, <2>7
<1> HIDE DEF T
<1>8. \A n \in Nat : n \in T
  BY <1>6, <1>7, NatInd
<1> SUFFICES ASSUME NEW n \in 1 .. Rounds PROVE RootSoFar(loop[n], 2 * Bit(n), v)
  OBVIOUS
<1>9. PICK k \in Nat : n = k + 1 /\ k + 1 <= Rounds
  <2>1. n - 1 \in Nat /\ n = (n - 1) + 1 /\ (n - 1) + 1 <= Rounds
    BY <1>1
  <2> QED
    BY <2>1
<1> QED
  BY <1>8, <1>9 DEF T

\* A root that is exact: its square is not above One * v, and that of the next is.
LEMMA SqrtExact ==
  ASSUME NEW x \in fix32_t, to_bits(x) >= 0, to_bits(x) < Half * Half
  PROVE  LET v == to_bits(x)
             r == to_bits(sqrt(x))
         IN r * r <= v * One /\ v * One < (r + 1) * (r + 1)
<1>1. PICK v \in Nat : v = to_bits(x)
  BY BitsType
<1>2. PICK g \in Nat : /\ g > 2 /\ HalfBits = 2 * g /\ Rounds = 3 * g /\ HalfBits \div 2 = g
                       /\ One = Power(2, g) * Power(2, g)
  BY RoundsIs
<1>3. PICK D \in Nat : D = Power(2, g) /\ D > 0
  <2>1. Power(2, g) \in Nat /\ Power(2, g) > g
    BY PowerPositive
  <2> QED
    BY <2>1
<1>4. PICK loop \in [0 .. Rounds -> Remainders] :
        IsLoop(loop, v) /\ sqrt(x) = from_bits(loop[Rounds].q \div D)
  BY <1>1, <1>2, <1>3, SqrtLoops
<1>5. Rounds \in 1 .. Rounds /\ Rounds \in 0 .. Rounds
  BY <1>2
<1>6. 2 * Bit(Rounds) = D
  <2>1. PICK m \in Nat : m = g - 1
    BY <1>2
  <2>2. 2 * HalfBits - 1 - Rounds = m /\ g = m + 1
    BY <2>1, <1>2
  <2>3. Power(2, m + 1) = 2 * Power(2, m)
    BY PowerIs
  <2> QED
    BY <2>2, <2>3, <1>3 DEF Bit
<1>7. RootSoFar(loop[Rounds], D, v)
  BY <1>1, <1>4, <1>5, <1>6, LoopKeepsRoot
<1>8. loop[Rounds] \in Remainders
  BY <1>5
<1>9. PICK q \in Nat, r \in Nat : q = loop[Rounds].q /\ r = loop[Rounds].r
  <2>1. Word \in Nat
    BY WordIs
  <2> QED
    BY <2>1, <1>8 DEF Remainders
<1>10. PICK m \in Nat : q = D * m
  BY <1>7, <1>9 DEF RootSoFar
<1>11. q * q + D * r = Word * v /\ r < 2 * q + D /\ q + D <= Half * One
  BY <1>7, <1>9 DEF RootSoFar
<1>12. q \div D = m
  <2>1. m * D + 0 = q /\ 0 \in 0 .. D - 1
    BY <1>3, <1>10
  <2>2. (m * D + 0) \div D = m
    BY <2>1, DivUnique
  <2> QED
    BY <2>1, <2>2
<1>13. to_bits(sqrt(x)) = m
  <2>1. m <= q
    <3>1. PICK e \in Nat : D = e + 1
      <4>1. D - 1 \in Nat /\ D = (D - 1) + 1
        BY <1>3
      <4> QED
        BY <4>1
    <3>2. q = e * m + m /\ e * m \in Nat
      BY <3>1, <1>10
    <3> QED
      BY <3>2
  <2>2. -(Half * One) <= m /\ m < Half * One
    BY <2>1, <1>3, <1>11, Widths
  <2>3. i32(m) = m
    BY <2>2, i32InRange
  <2> QED
    BY <2>3, <1>4, <1>9, <1>12, FromBitsExact
<1>14. Word = (D * D) * (D * D) /\ One = D * D
  BY <1>2, <1>3, WordIs
\* D is cancelled.
<1>15. D * (m * m) + r = D * (v * (D * D))
  <2>1. PICK X \in Int, Y \in Int : X = D * (m * m) + r /\ Y = D * (v * (D * D))
    <3>1. D * (m * m) + r \in Int /\ D * (v * (D * D)) \in Int
      OBVIOUS
    <3> QED
      BY <3>1
  <2>2. X * D = Y * D
    <3>1. X * D = (D * m) * (D * m) + D * r
      BY <2>1
    <3>2. Y * D = ((D * D) * (D * D)) * v
      BY <2>1
    <3> QED
      BY <3>1, <3>2, <1>10, <1>11, <1>14
  <2>3. ~ (X < Y) /\ ~ (Y < X)
    <3>1. X < Y => X * D + D <= Y * D
      BY TimesMonotone
    <3>2. Y < X => Y * D + D <= X * D
      BY TimesMonotone
    <3>3. X * D \in Int /\ Y * D \in Int
      OBVIOUS
    <3> QED
      BY <3>1, <3>2, <3>3, <2>2, <1>3
  <2> QED
    BY <2>1, <2>3
<1>16. PICK s \in Int, w \in Int : s = m * m /\ w = v * (D * D)
  OBVIOUS
<1>17. s * D + r = w * D /\ s * D \in Int /\ w * D \in Int
  BY <1>15, <1>16
<1>18. s <= w
  <2>1. w < s => w * D + D <= s * D
    BY TimesMonotone
  <2> QED
    BY <2>1, <1>3, <1>17
<1>19. w < s + 2 * m + 1
  <2>1. r < 2 * (D * m) + D
    BY <1>10, <1>11
  <2>2. (s + 2 * m + 1) * D = s * D + 2 * (D * m) + D /\ s + 2 * m + 1 \in Int
    OBVIOUS
  <2>3. D * m \in Int
    OBVIOUS
  <2>4. w * D < (s + 2 * m + 1) * D
    BY <2>1, <2>2, <2>3, <1>17
  <2> QED
    BY <2>2, <2>4, Between
<1>20. (m + 1) * (m + 1) = s + 2 * m + 1
  BY <1>16
<1> QED
  BY <1>1, <1>13, <1>14, <1>16, <1>18, <1>19, <1>20

\* The root is exact, rounded down, for every number below a quarter of the range:
\* there the remainder never leaves its word.
THEOREM SqrtAlwaysExact == Spec => []SqrtIsExact
<1>1. NumTypeOK => SqrtIsExact
  <2> SUFFICES ASSUME NumTypeOK, A \in 0 .. Word \div 4 - 1
               PROVE  LET r == to_bits(sqrt(a))
                      IN r * r <= A * One /\ A * One < (r + 1) * (r + 1)
    BY DEF SqrtIsExact
  <2>1. a \in fix32_t /\ A \in Int
    BY BitsType DEF NumTypeOK, A
  <2>2. Word \div 4 = Half * Half
    <3>1. PICK m \in Int : m = Half * Half
      BY Widths
    <3>2. (m * 4 + 0) \div 4 = m
      BY DivUnique
    <3> QED
      BY <3>1, <3>2, WordIs
  <2>3. Half * Half \in Int
    BY Widths
  <2>4. A >= 0 /\ A < Half * Half
    BY <2>1, <2>2, <2>3
  <2> QED
    BY <2>1, <2>4, SqrtExact DEF A
<1> QED
  BY <1>1, NumbersTypeCorrect, PTL

(***************************************************************************)
(* The cosine                                                              *)
(***************************************************************************)
LEMMA QuarterIs ==
  \E Q \in Nat : Q > 0 /\ One = 4 * Q /\ (1 * One) \div 4 = Q /\ (1 * One) \div 2 = 2 * Q
<1>1. PICK m \in Nat : HalfBits = (m + 1) + 1
  <2>1. HalfBits - 2 \in Nat /\ HalfBits = ((HalfBits - 2) + 1) + 1
    BY Fix32Assumption
  <2> QED
    BY <2>1
<1>2. PICK Q \in Nat : Q = Power(2, m) /\ Q > 0
  BY PowerOfTwo
<1>3. Power(2, m + 1) = 2 * Q
  BY <1>2, PowerOfTwo
<1>4. Power(2, (m + 1) + 1) = 2 * Power(2, m + 1)
  <2>1. m + 1 \in Nat
    OBVIOUS
  <2> QED
    BY <2>1, PowerOfTwo
<1>5. One = 4 * Q
  BY <1>1, <1>2, <1>3, <1>4, OneIsPower
<1>6. (Q * 4 + 0) \div 4 = Q
  BY DivUnique
<1>7. PICK p \in Int : p = 2 * Q
  OBVIOUS
<1>8. (p * 2 + 0) \div 2 = p
  BY DivUnique
<1>9. 1 * One = Q * 4 + 0 /\ 1 * One = p * 2 + 0
  BY <1>5, <1>7
<1> QED
  BY <1>2, <1>5, <1>6, <1>7, <1>8, <1>9

\* The numbers of the cosine are far from the bounds of a word.
LEMMA Fits ==
  ASSUME NEW n \in Int, -(16 * One) <= n, n <= 16 * One
  PROVE  i32(n) = n /\ to_bits(from_bits(n)) = n
<1>1. Half \in Nat /\ Half > 16 /\ One \in Nat /\ One > 0 /\ Half * One \in Nat
  BY Widths
<1>2. 16 * One + One <= Half * One
  BY <1>1, TimesMonotone
<1>3. -(Half * One) <= n /\ n < Half * One
  BY <1>1, <1>2
<1> QED
  BY <1>3, i32InRange, FromBitsExact

LEMMA IntegerBits ==
  ASSUME NEW n \in -16 .. 16
  PROVE  from_int(n) \in fix32_t /\ to_bits(from_int(n)) = n * One
<1>1. Half \in Nat /\ Half > 16 /\ One \in Nat /\ One > 0 /\ n \in Int
  BY Widths
<1>2. -Half <= n /\ n < Half
  BY <1>1
<1>3. i16(n) = n
  BY <1>1, <1>2, SignedIsIdentity DEF i16
<1>4. 0 % One = 0 /\ n * One + 0 = n * One
  BY <1>1, ModSmall
<1> QED
  BY <1>1, <1>3, <1>4, Fix32Type DEF from_int, fix32, to_bits

\* Two numbers of the same word are the same.
LEMMA BitsInjective ==
  ASSUME NEW x \in fix32_t, NEW y \in fix32_t, to_bits(x) = to_bits(y)
  PROVE  x = y
<1>1. /\ x.i \in Int /\ y.i \in Int /\ x.f \in Int /\ y.f \in Int /\ to_bits(x) \in Int
      /\ x = [i |-> x.i, f |-> x.f] /\ y = [i |-> y.i, f |-> y.f]
  BY BitsType DEF fix32_t
<1>2. ~ (x.i < y.i \/ (x.i = y.i /\ x.f < y.f))
  <2> SUFFICES ASSUME x.i < y.i \/ (x.i = y.i /\ x.f < y.f) PROVE FALSE
    OBVIOUS
  <2>1. to_bits(x) < to_bits(y)
    BY LessIsLess
  <2> QED
    BY <2>1, <1>1
<1>3. ~ (y.i < x.i \/ (y.i = x.i /\ y.f < x.f))
  <2> SUFFICES ASSUME y.i < x.i \/ (y.i = x.i /\ y.f < x.f) PROVE FALSE
    OBVIOUS
  <2>1. to_bits(y) < to_bits(x)
    BY LessIsLess
  <2> QED
    BY <2>1, <1>1
<1>4. x.i = y.i /\ x.f = y.f
  BY <1>1, <1>2, <1>3
<1> QED
  BY <1>1, <1>4

LEMMA DivBounds ==
  ASSUME NEW n \in Int, NEW lo \in Int, NEW hi \in Int, lo * One <= n, n <= hi * One
  PROVE  n \div One \in lo .. hi
<1>0. One \in Nat /\ One > 0
  BY Widths
<1>1. PICK q \in Int, r \in 0 .. One - 1 : n = q * One + r /\ q = n \div One
  BY <1>0, DivMod
<1>2. q * One \in Int /\ lo * One \in Int /\ hi * One \in Int
  BY <1>0
<1>3. q <= hi
  <2>1. hi < q => hi * One + One <= q * One
    BY <1>0, TimesMonotone
  <2> QED
    BY <2>1, <1>0, <1>1, <1>2
<1>4. lo <= q
  <2>1. q < lo => q * One + One <= lo * One
    BY <1>0, TimesMonotone
  <2> QED
    BY <2>1, <1>0, <1>1, <1>2
<1> QED
  BY <1>1, <1>3, <1>4

LEMMA ProductBounds ==
  ASSUME NEW m \in Nat, NEW k \in Nat, NEW x \in 0 .. m, NEW y \in 0 .. k
  PROVE  x * y \in 0 .. m * k
<1>1. m - x \in Nat /\ k - y \in Nat /\ x \in Nat /\ y \in Nat
  OBVIOUS
<1>2. PICK p \in Nat, q \in Nat : p = m - x /\ q = k - y
  BY <1>1
<1>3. m = x + p /\ k = y + q
  BY <1>2
<1>4. (x + p) * (y + q) = x * y + x * q + p * y + p * q
  BY <1>1
<1>5. x * y \in Nat /\ x * q \in Nat /\ p * y \in Nat /\ p * q \in Nat /\ m * k \in Nat
  BY <1>1
<1>6. m * k = x * y + x * q + p * y + p * q
  BY <1>3, <1>4
<1> QED
  BY <1>5, <1>6

\* The second half of cos: from the first approximation to the result.
Corrected(y) ==
  add(y, mul(Fraction(225, 1000), mul(y, sub(abs(y), from_int(1)))))

LEMMA CorrectionSmall ==
  Fraction(225, 1000) \in fix32_t /\ to_bits(Fraction(225, 1000)) \in 0 .. One
<1>1. One \in Nat /\ One > 0
  BY Widths
<1>2. (225 * One) \div 1000 \in 0 .. One
  <2>1. PICK n \in Int : n = 225 * One
    BY <1>1
  <2>2. PICK p \in Int, r \in 0 .. 999 : n = p * 1000 + r /\ p = n \div 1000 /\ r = n % 1000
    BY DivMod
  <2>3. p \in 0 .. One
    BY <2>1, <2>2, <1>1
  <2> QED
    BY <2>1, <2>2, <2>3
<1>3. PICK c \in 0 .. One : c = (225 * One) \div 1000
  BY <1>2
<1>4. c \in Int /\ -(16 * One) <= c /\ c <= 16 * One
  BY <1>1
<1>5. to_bits(from_bits(c)) = c /\ from_bits(c) \in fix32_t
  BY <1>4, Fits, FromBitsType
<1> QED
  BY <1>3, <1>5 DEF Fraction

LEMMA CorrectedExact ==
  ASSUME NEW y \in fix32_t, to_bits(y) \in -One .. One
  PROVE  /\ Corrected(y) \in fix32_t
         /\ to_bits(Corrected(y)) \in -One .. One
         /\ to_bits(y) \in {-One, 0, One} => to_bits(Corrected(y)) = to_bits(y)
<1>0. One \in Nat /\ One > 0 /\ One * One \in Nat
  <2>1. One \in Nat /\ One > 0
    BY Widths
  <2> QED
    BY <2>1
<1>1. PICK Y \in -One .. One : Y = to_bits(y)
  OBVIOUS
<1>2. PICK m \in 0 .. One : m = Abs(Y) /\ (Y >= 0 => Y = m) /\ (Y < 0 => Y = -m)
  BY <1>0 DEF Abs
<1>3. PICK p \in fix32_t : p = abs(y)
  BY RoundingType
<1>4. to_bits(p) = m
  <2>1. m \in Int /\ -(16 * One) <= m /\ m <= 16 * One
    BY <1>0
  <2>2. i32(m) = m
    BY <2>1, Fits
  <2> QED
    BY <2>2, <1>1, <1>2, <1>3, AbsExact
<1>5. PICK w \in fix32_t : w = sub(p, from_int(1))
  BY IntegerBits, ArithmeticType
<1>6. PICK W \in 0 .. One : to_bits(w) = -W /\ W = One - m
  <2>1. 1 \in -16 .. 16 /\ 1 * One = One
    BY <1>0
  <2>2. to_bits(w) = i32(m - One)
    BY <2>1, <1>4, <1>5, IntegerBits, SubExact
  <2>3. PICK n \in Int : n = m - One /\ -(16 * One) <= n /\ n <= 16 * One
    BY <1>0
  <2>4. i32(n) = n
    BY <2>3, Fits
  <2>5. One - m \in 0 .. One /\ m - One = -(One - m)
    BY <1>0
  <2> QED
    BY <2>2, <2>3, <2>4, <2>5
<1>7. PICK s \in fix32_t : s = mul(y, w)
  BY <1>5, ArithmeticType
<1>8. m * W \in 0 .. One * One /\ (m = 0 \/ m = One => m * W = 0)
  <2>1. m * W \in 0 .. One * One
    BY <1>0, ProductBounds
  <2>2. m = One => W = 0
    BY <1>0, <1>6
  <2>3. m = 0 \/ W = 0 => m * W = 0
    BY <1>0
  <2> QED
    BY <2>1, <2>2, <2>3
<1>9. PICK S \in -One .. One :
        /\ to_bits(s) = S
        /\ Y >= 0 => S <= 0
        /\ Y < 0 => S >= 0
        /\ m = 0 \/ m = One => S = 0
  <2>1. PICK n \in Int : n = m * W
    BY <1>8
  <2>2. PICK k \in Int : k = Y * (-W) /\ (Y >= 0 => k = -n) /\ (Y < 0 => k = n)
    BY <2>1, <1>0, <1>2, <1>6
  <2>3. (-1) * One = -One /\ 0 * One = 0 /\ (-One) * One = -(One * One) /\ -One \in Int
    BY <1>0
  <2>4. Y >= 0 => k \div One \in -One .. 0
    <3>1. Y >= 0 => (-One) * One <= k /\ k <= 0 * One
      BY <2>1, <2>2, <2>3, <1>0, <1>8
    <3> QED
      BY <3>1, <2>3, DivBounds
  <2>5. Y < 0 => k \div One \in 0 .. One
    <3>1. Y < 0 => 0 * One <= k /\ k <= One * One
      BY <2>1, <2>2, <2>3, <1>0, <1>8
    <3> QED
      BY <3>1, <1>0, DivBounds
  <2>6. m = 0 \/ m = One => k \div One = 0
    <3>1. m = 0 \/ m = One => k = 0
      BY <2>1, <2>2, <1>0, <1>8
    <3>2. 0 \div One = 0
      BY <1>0, ModSmall
    <3> QED
      BY <3>1, <3>2
  <2>7. PICK S \in -One .. One : S = k \div One
    BY <2>4, <2>5, <1>0
  <2>8. to_bits(s) = i32(S)
    BY <2>2, <2>7, <1>1, <1>5, <1>6, <1>7, MulExact
  <2>9. i32(S) = S
    <3>1. S \in Int /\ -(16 * One) <= S /\ S <= 16 * One
      BY <1>0
    <3> QED
      BY <3>1, Fits
  <2> QED
    BY <2>4, <2>5, <2>6, <2>7, <2>8, <2>9
<1>10. PICK C \in 0 .. One, c \in fix32_t : c = Fraction(225, 1000) /\ to_bits(c) = C
  BY CorrectionSmall
<1>11. PICK e \in fix32_t : e = mul(c, s)
  BY ArithmeticType
<1>12. PICK E \in -One .. One :
        /\ to_bits(e) = E
        /\ Y >= 0 => E <= 0
        /\ Y < 0 => E >= 0
        /\ m = 0 \/ m = One => E = 0
  <2>1. PICK n \in 0 .. One : (S >= 0 => S = n) /\ (S < 0 => S = -n)
    BY <1>0
  <2>2. C * n \in 0 .. One * One
    BY <1>0, ProductBounds
  <2>3. PICK h \in 0 .. One * One : h = C * n
    BY <2>2
  <2>4. PICK k \in Int : k = C * S /\ (S >= 0 => k = h) /\ (S < 0 => k = -h)
    BY <2>1, <2>3, <1>0
  <2>5. 0 * One = 0 /\ (-One) * One = -(One * One) /\ -One \in Int
    BY <1>0
  <2>6. S <= 0 => k \div One \in -One .. 0
    <3>0. S = 0 => k = 0
      BY <2>4, <1>0
    <3>1. S <= 0 => (-One) * One <= k /\ k <= 0 * One
      BY <3>0, <2>3, <2>4, <2>5, <1>0
    <3> QED
      BY <3>1, <2>5, DivBounds
  <2>7. S >= 0 => k \div One \in 0 .. One
    <3>1. S >= 0 => 0 * One <= k /\ k <= One * One
      BY <2>3, <2>4, <2>5, <1>0
    <3> QED
      BY <3>1, <1>0, DivBounds
  <2>8. S = 0 => k \div One = 0
    <3>1. S = 0 => k = 0
      BY <2>4, <1>0
    <3>2. 0 \div One = 0
      BY <1>0, ModSmall
    <3> QED
      BY <3>1, <3>2
  <2>9. PICK E \in -One .. One : E = k \div One
    BY <2>6, <2>7, <1>0
  <2>10. to_bits(e) = i32(E)
    BY <2>4, <2>9, <1>9, <1>10, <1>11, MulExact
  <2>11. i32(E) = E
    <3>1. E \in Int /\ -(16 * One) <= E /\ E <= 16 * One
      BY <1>0
    <3> QED
      BY <3>1, Fits
  <2> QED
    BY <2>6, <2>7, <2>8, <2>9, <2>10, <2>11, <1>9
<1>13. Corrected(y) = add(y, e)
  BY <1>3, <1>5, <1>7, <1>10, <1>11 DEF Corrected
<1>14. Corrected(y) \in fix32_t
  BY <1>13, ArithmeticType
<1>15. to_bits(Corrected(y)) = i32(Y + E)
  BY <1>1, <1>12, <1>13, AddExact
<1>16. PICK R \in -One .. One : R = Y + E
  BY <1>0, <1>2, <1>12
<1>17. i32(R) = R
  <2>1. R \in Int /\ -(16 * One) <= R /\ R <= 16 * One
    BY <1>0
  <2> QED
    BY <2>1, Fits
<1>18. Y \in {-One, 0, One} => m = 0 \/ m = One
  BY <1>0, <1>2
<1>19. Y \in {-One, 0, One} => R = Y
  BY <1>12, <1>16, <1>18
<1> QED
  BY <1>1, <1>14, <1>15, <1>16, <1>17, <1>19

\* The first half of cos: the angle, reduced to the turn around zero, and the
\* parabolas through the quarters of the cosine.
Quarter  == One \div 4
Phase(X) == ((X + Quarter) % One) - 2 * Quarter
Swing(Z) == (Z * (16 * (Abs(Z) - 2 * Quarter))) \div One

LEMMA QuarterType ==
  /\ Quarter \in Nat /\ Quarter > 0 /\ One = 4 * Quarter /\ One \in Nat /\ One > 0
  /\ Fraction(1, 4) = from_bits(Quarter) /\ Fraction(1, 2) = from_bits(2 * Quarter)
<1>1. PICK Q \in Nat : /\ Q > 0 /\ One = 4 * Q
                       /\ (1 * One) \div 4 = Q /\ (1 * One) \div 2 = 2 * Q
  BY QuarterIs
<1>2. 1 * One = One
  BY <1>1
<1>3. Quarter = Q
  BY <1>1, <1>2 DEF Quarter
<1>4. One \in Nat /\ One > 0
  BY Widths
<1> QED
  BY <1>1, <1>3, <1>4 DEF Fraction

LEMMA PhaseIs ==
  ASSUME NEW X \in Int
  PROVE  /\ Phase(X) \in -(2 * Quarter) .. 2 * Quarter - 1
         /\ \A k \in Int : Phase(k * One + X) = Phase(X)
<1>1. PICK Q \in Nat : Q = Quarter /\ Q > 0 /\ One = 4 * Q /\ One \in Nat /\ One > 0
  BY QuarterType
<1>2. PICK n \in Int : n = X + Q
  BY <1>1
<1>3. PICK r \in 0 .. One - 1 : r = n % One
  BY <1>1
<1>4. Phase(X) = r - 2 * Q /\ r \in Int
  BY <1>1, <1>2, <1>3 DEF Phase
<1>5. ASSUME NEW k \in Int PROVE Phase(k * One + X) = Phase(X)
  <2>1. k * One \in Int
    BY <1>1
  <2>2. k * One + n = (k * One + X) + Q
    BY <2>1, <1>2
  <2>3. (k * One + n) % One = n % One
    BY <1>1, ModShift
  <2> QED
    BY <2>2, <2>3, <1>1, <1>2 DEF Phase
<1> QED
  BY <1>1, <1>4, <1>5

\* The square of half an angle's distance to a quarter bounds the parabola.
LEMMA SwingRange ==
  ASSUME NEW Z \in Int, -(2 * Quarter) <= Z, Z <= 2 * Quarter
  PROVE  /\ Swing(Z) \in -One .. One
         /\ Z = 0 => Swing(Z) = 0
         /\ Z = Quarter => Swing(Z) = -One
         /\ Z = -Quarter => Swing(Z) = One
<1>1. PICK Q \in Nat : Q = Quarter /\ Q > 0 /\ One = 4 * Q /\ One \in Nat /\ One > 0
  BY QuarterType
<1>2. PICK m \in 0 .. 2 * Q : m = Abs(Z) /\ (Z >= 0 => Z = m) /\ (Z < 0 => Z = -m)
  BY <1>1 DEF Abs
<1>3. PICK p \in Nat : p = m * (2 * Q - m)
  <2>1. 2 * Q - m \in Nat /\ m \in Nat
    BY <1>1
  <2>2. PICK c \in Nat, d \in Nat : c = m /\ d = 2 * Q - m
    BY <2>1
  <2>3. c * d \in Nat
    OBVIOUS
  <2> QED
    BY <2>2, <2>3
<1>4. p <= Q * Q /\ Q * Q \in Nat
  <2>1. PICK e \in Int : e = Q - m
    BY <1>1
  <2>2. m = Q - e /\ 2 * Q - m = Q + e
    BY <2>1, <1>1
  <2>3. (Q - e) * (Q + e) = Q * Q - e * e
    BY <1>1
  <2>4. e * e \in Nat
    <3>1. e >= 0 => e * e \in Nat
      OBVIOUS
    <3>2. e < 0 => e * e \in Nat
      <4>1. PICK c \in Int : c = -e
        OBVIOUS
      <4>2. e < 0 => c * c \in Nat
        BY <4>1
      <4>3. c * c = e * e
        BY <4>1
      <4> QED
        BY <4>2, <4>3
    <3> QED
      BY <3>1, <3>2
  <2>5. Q * Q \in Nat
    OBVIOUS
  <2>6. p = Q * Q - e * e
    BY <2>2, <2>3, <1>3
  <2> QED
    BY <2>4, <2>5, <2>6
<1>5. One * One = 16 * (Q * Q)
  BY <1>1
<1>6. Z * (16 * (m - 2 * Q)) = IF Z < 0 THEN 16 * p ELSE -(16 * p)
  <2>1. Z >= 0 => Z * (16 * (m - 2 * Q)) = -(16 * p)
    <3>1. m * (16 * (m - 2 * Q)) = -(16 * (m * (2 * Q - m)))
      BY <1>1
    <3> QED
      BY <3>1, <1>2, <1>3
  <2>2. Z < 0 => Z * (16 * (m - 2 * Q)) = 16 * p
    <3>1. (-m) * (16 * (m - 2 * Q)) = 16 * (m * (2 * Q - m))
      BY <1>1
    <3> QED
      BY <3>1, <1>2, <1>3
  <2> QED
    BY <2>1, <2>2
<1>7. PICK k \in Int : k = Z * (16 * (m - 2 * Q)) /\ k = IF Z < 0 THEN 16 * p ELSE -(16 * p)
  BY <1>6
<1>8. Swing(Z) = k \div One
  BY <1>1, <1>2, <1>7 DEF Swing
<1>9. (-One) * One = -(One * One) /\ One * One \in Nat
  BY <1>1
<1>10. (-One) * One <= k /\ k <= One * One
  BY <1>4, <1>5, <1>7, <1>9
<1>11. k \div One \in -One .. One
  BY <1>1, <1>10, DivBounds
<1>12. Z = 0 => Swing(Z) = 0
  <2>1. Z = 0 => m = 0
    BY <1>2
  <2>2. 0 * (2 * Q - 0) = 0
    BY <1>1
  <2>3. Z = 0 => k = 0
    BY <2>1, <2>2, <1>3, <1>7
  <2>4. 0 \div One = 0
    BY <1>1, ModSmall
  <2> QED
    BY <2>3, <2>4, <1>8
<1>13. m = Q => 16 * p = One * One
  <2>1. Q * (2 * Q - Q) = Q * Q
    BY <1>1
  <2> QED
    BY <2>1, <1>3, <1>5
<1>14. (One * One) \div One = One /\ (-(One * One)) \div One = -One
  <2>1. One * One + 0 = One * One /\ (-One) * One + 0 = -(One * One) /\ 0 \in 0 .. One - 1
    BY <1>1, <1>9
  <2>2. (One * One + 0) \div One = One
    BY <2>1, <1>1, DivUnique
  <2>3. PICK c \in Int : c = -One
    BY <1>1
  <2>4. (c * One + 0) \div One = c
    BY <2>1, <1>1, DivUnique
  <2> QED
    BY <2>1, <2>2, <2>3, <2>4
<1>15. Z = Q => Swing(Z) = -One
  <2>1. Z = Q => m = Q /\ ~ (Z < 0)
    BY <1>1, <1>2
  <2> QED
    BY <2>1, <1>7, <1>8, <1>13, <1>14
<1>16. Z = -Q => Swing(Z) = One
  <2>1. Z = -Q => m = Q /\ Z < 0
    BY <1>1, <1>2
  <2> QED
    BY <2>1, <1>7, <1>8, <1>13, <1>14
<1> QED
  BY <1>1, <1>8, <1>11, <1>12, <1>15, <1>16

\* The cosine of a word is a function of its phase.
LEMMA CosIs ==
  ASSUME NEW x \in fix32_t
  PROVE  cos(x) = Corrected(from_bits(i32(Swing(Phase(to_bits(x))))))
<1>1. PICK Q \in Nat : /\ Q = Quarter /\ Q > 0 /\ One = 4 * Q /\ One \in Nat /\ One > 0
                       /\ Fraction(1, 4) = from_bits(Q) /\ Fraction(1, 2) = from_bits(2 * Q)
  BY QuarterType
<1>2. PICK X \in Int : X = to_bits(x)
  BY BitsType
<1>3. PICK c \in fix32_t, d \in fix32_t :
        /\ c = Fraction(1, 4) /\ to_bits(c) = Q
        /\ d = Fraction(1, 2) /\ to_bits(d) = 2 * Q
  <2>1. PICK P \in Int : P = 2 * Q /\ -(16 * One) <= P /\ P <= 16 * One
    BY <1>1
  <2>2. -(16 * One) <= Q /\ Q <= 16 * One /\ Q \in Int
    BY <1>1
  <2> QED
    BY <2>1, <2>2, <1>1, Fits, FromBitsType
<1>4. PICK t \in fix32_t : t = add(x, c)
  BY <1>3, ArithmeticType
<1>5. PICK T \in Int, k \in Int : T = to_bits(t) /\ T = k * Word + (X + Q)
  <2>1. X + Q \in Int
    BY <1>1
  <2>2. to_bits(t) = i32(X + Q)
    BY <1>2, <1>3, <1>4, AddExact
  <2>3. to_bits(t) \in Int
    BY BitsType
  <2> QED
    BY <2>1, <2>2, <2>3, i32Is
<1>6. PICK q \in Int, r \in 0 .. One - 1 : T = q * One + r /\ q = T \div One /\ r = T % One
  BY <1>1, DivMod
<1>7. r = (X + Q) % One
  <2>1. PICK n \in Int, j \in Int : n = X + Q /\ j = k * One
    BY <1>1
  <2>2. k * Word = j * One
    <3>1. k * (One * One) = (k * One) * One
      BY <1>1
    <3> QED
      BY <3>1, <2>1, WordIs
  <2>3. (j * One + n) % One = n % One
    BY <1>1, ModShift
  <2> QED
    BY <2>1, <2>2, <2>3, <1>5, <1>6
<1>8. PICK Z \in Int : Z = Phase(X) /\ Z = r - 2 * Q /\ -(2 * Q) <= Z /\ Z <= 2 * Q
  <2>1. r \in Int /\ r < 4 * Q /\ 0 <= r
    BY <1>1
  <2> QED
    BY <2>1, <1>1, <1>7 DEF Phase
<1>9. PICK f \in fix32_t : f = flr(t) /\ to_bits(f) = q * One
  BY <1>5, <1>6, FlrType, FlrExact
<1>10. PICK g \in fix32_t : g = add(c, f) /\ to_bits(g) = i32(Q + q * One)
  BY <1>3, <1>9, ArithmeticType, AddExact
<1>11. PICK z \in fix32_t : z = sub(x, g)
  BY <1>10, ArithmeticType
<1>12. i32(Z) = Z
  <2>1. -(16 * One) <= Z /\ Z <= 16 * One
    BY <1>1, <1>8
  <2> QED
    BY <2>1, Fits
<1>13. to_bits(z) = Z
  <2>1. PICK n \in Int, h \in Int : n = Q + q * One /\ h = q * One
    BY <1>1
  <2>2. to_bits(z) = i32(X - i32(n))
    BY <2>1, <1>2, <1>10, <1>11, SubExact
  <2>3. i32(X - i32(n)) = i32(X - n)
    BY <2>1, i32Sub
  <2>4. PICK j \in Int, w \in Int : j = -k /\ w = k * Word /\ j * Word = -w
    BY WordIs
  <2>5. X - n = j * Word + Z
    <3>1. T = w + (X + Q) /\ T = h + r
      BY <2>1, <2>4, <1>5, <1>6
    <3>2. Z = r - 2 * Q /\ n = Q + h /\ r \in Int
      BY <2>1, <1>1, <1>8
    <3>3. X - n = -w + Z
      BY <3>1, <3>2
    <3> QED
      BY <3>3, <2>4
  <2>6. i32(j * Word + Z) = i32(Z)
    BY <2>4, i32Shift
  <2> QED
    BY <2>2, <2>3, <2>5, <2>6, <1>12
<1>14. PICK m \in Int : m = Abs(Z) /\ 0 <= m /\ m <= 2 * Q
  <2>1. Abs(Z) = Z \/ Abs(Z) = -Z
    BY DEF Abs
  <2>2. 0 <= Abs(Z)
    BY DEF Abs
  <2> QED
    BY <2>1, <2>2, <1>8
<1>15. PICK y \in fix32_t : y = abs(z) /\ to_bits(y) = m
  <2>1. -(16 * One) <= m /\ m <= 16 * One
    BY <1>1, <1>14
  <2> QED
    BY <2>1, <1>13, <1>14, RoundingType, AbsExact, Fits
<1>16. PICK V \in Int : V = m - 2 * Q /\ -(2 * Q) <= V /\ V <= 0
  BY <1>1, <1>14
<1>17. PICK v \in fix32_t : v = sub(y, d) /\ to_bits(v) = V
  <2>1. -(16 * One) <= V /\ V <= 16 * One
    BY <1>1, <1>16
  <2>2. i32(V) = V
    BY <2>1, Fits
  <2>3. to_bits(sub(y, d)) = i32(m - 2 * Q)
    BY <1>3, <1>15, SubExact
  <2> QED
    BY <2>2, <2>3, <1>3, <1>16, ArithmeticType
<1>18. PICK s \in fix32_t : s = from_int(16) /\ to_bits(s) = 16 * One
  <2>1. 16 \in -16 .. 16
    OBVIOUS
  <2> QED
    BY <2>1, IntegerBits
<1>19. PICK u \in fix32_t : u = mul(s, v) /\ to_bits(u) = 16 * V
  <2>1. PICK n \in Int : n = 16 * V /\ -(16 * One) <= n /\ n <= 16 * One
    BY <1>1, <1>16
  <2>2. (16 * One) * V = n * One + 0 /\ 0 \in 0 .. One - 1
    BY <2>1, <1>1
  <2>3. (n * One + 0) \div One = n
    BY <2>2, <1>1, DivUnique
  <2>4. to_bits(mul(s, v)) = i32(n)
    BY <2>2, <2>3, <1>17, <1>18, MulExact
  <2>5. i32(n) = n
    BY <2>1, Fits
  <2> QED
    BY <2>1, <2>4, <2>5, ArithmeticType
<1>20. mul(z, u) = from_bits(i32(Swing(Z)))
  <2>1. Swing(Z) = (Z * (16 * V)) \div One
    BY <1>1, <1>14, <1>16 DEF Swing
  <2> QED
    BY <2>1, <1>13, <1>19 DEF mul
<1>21. cos(x) = Corrected(mul(z, u))
  BY <1>3, <1>4, <1>9, <1>10, <1>11, <1>15, <1>17, <1>18, <1>19 DEF cos, Corrected
<1> QED
  BY <1>2, <1>8, <1>20, <1>21

\* Numbers that differ by whole turns have one cosine.
LEMMA CosTurns ==
  ASSUME NEW x \in fix32_t, NEW n \in Int, NEW k \in Int, to_bits(x) = k * One + n
  PROVE  cos(x) = Corrected(from_bits(i32(Swing(Phase(n)))))
<1>1. Phase(k * One + n) = Phase(n)
  BY PhaseIs
<1> QED
  BY <1>1, CosIs

\* What the cast to a word leaves out is whole turns.
LEMMA i32Turns ==
  ASSUME NEW n \in Int
  PROVE  \E k \in Int : i32(n) = k * One + n
<1>1. PICK k \in Int : i32(n) = k * Word + n
  BY i32Is
<1>2. One \in Nat /\ k * (One * One) = (k * One) * One /\ k * One \in Int
  BY Widths
<1> QED
  BY <1>1, <1>2, WordIs

LEMMA CosOfWord ==
  ASSUME NEW n \in Int
  PROVE  /\ from_bits(n) \in fix32_t
         /\ cos(from_bits(n)) = Corrected(from_bits(i32(Swing(Phase(n)))))
<1>1. from_bits(n) \in fix32_t /\ to_bits(from_bits(n)) = i32(n)
  BY FromBitsType, FromBitsExact
<1>2. PICK k \in Int : i32(n) = k * One + n
  BY i32Turns
<1> QED
  BY <1>1, <1>2, CosTurns

\* The parabolas are symmetric about zero.
LEMMA SwingEven ==
  ASSUME NEW X \in Int
  PROVE  Swing(Phase(-X)) = Swing(Phase(X))
<1>1. PICK Q \in Nat : Q = Quarter /\ Q > 0 /\ One = 4 * Q /\ One \in Nat /\ One > 0
  BY QuarterType
<1>2. PICK m \in Int, n \in Int : m = X + Q /\ n = -X + Q
  BY <1>1
<1>3. PICK p \in Int, r \in 0 .. One - 1 : m = p * One + r /\ r = m % One
  BY <1>1, DivMod
<1>4. PICK q \in Int, s \in 0 .. One - 1 : n = q * One + s /\ s = n % One
  BY <1>1, DivMod
<1>5. Phase(X) = r - 2 * Q /\ Phase(-X) = s - 2 * Q
  BY <1>1, <1>2, <1>3, <1>4 DEF Phase
<1>6. r \in Int /\ s \in Int /\ 0 <= r /\ r < 4 * Q /\ 0 <= s /\ s < 4 * Q
  BY <1>1
<1>7. r + s = 2 * Q \/ r + s = 6 * Q
  <2>1. PICK k \in Int : k = -(p + q)
    OBVIOUS
  <2>2. r + s = k * One + 2 * Q
    <3>1. p * One \in Int /\ q * One \in Int /\ k * One = -(p * One) - (q * One)
      BY <2>1, <1>1
    <3> QED
      BY <3>1, <1>1, <1>2, <1>3, <1>4, <1>6
  <2>3. (-1) * One < k * One /\ k * One < 2 * One
    BY <2>2, <1>1, <1>6
  <2>4. -1 < k /\ k < 2
    BY <2>3, <1>1, Between
  <2>5. k = 0 \/ k = 1
    BY <2>4
  <2>6. 0 * One = 0 /\ 1 * One = 4 * Q
    BY <1>1
  <2> QED
    BY <2>2, <2>5, <2>6, <1>1, <1>6
<1>8. PICK Y \in Int, Z \in Int : Y = r - 2 * Q /\ Z = s - 2 * Q
  BY <1>1, <1>6
<1>9. PICK V \in Int, W \in Int : V = Abs(Y) - 2 * Q /\ W = Abs(Z) - 2 * Q
  <2>1. Abs(Y) \in Int /\ Abs(Z) \in Int
    BY DEF Abs
  <2> QED
    BY <2>1, <1>1
<1>10. Z * (16 * W) = Y * (16 * V)
  <2>1. CASE r + s = 2 * Q
    <3>1. Y <= 0 /\ Z <= 0
      BY <2>1, <1>1, <1>6, <1>8
    <3>2. Abs(Y) = -Y /\ Abs(Z) = -Z
      BY <3>1 DEF Abs
    <3>3. V = Z /\ W = Y
      BY <3>2, <2>1, <1>1, <1>6, <1>8, <1>9
    <3>4. Z * (16 * Y) = Y * (16 * Z)
      OBVIOUS
    <3> QED
      BY <3>3, <3>4
  <2>2. CASE r + s = 6 * Q
    <3>1. Y > 0 /\ Z > 0
      BY <2>2, <1>1, <1>6, <1>8
    <3>2. Abs(Y) = Y /\ Abs(Z) = Z
      BY <3>1 DEF Abs
    <3>3. V = -Z /\ W = -Y
      BY <3>2, <2>2, <1>1, <1>6, <1>8, <1>9
    <3>4. Z * (16 * (-Y)) = Y * (16 * (-Z))
      OBVIOUS
    <3> QED
      BY <3>3, <3>4
  <2> QED
    BY <2>1, <2>2, <1>7
<1>11. Swing(Y) = (Y * (16 * V)) \div One /\ Swing(Z) = (Z * (16 * W)) \div One
  BY <1>1, <1>9 DEF Swing
<1> QED
  BY <1>5, <1>8, <1>10, <1>11

\* From the parabola to the cosine
LEMMA CosValue ==
  ASSUME NEW Z \in Int, -(2 * Quarter) <= Z, Z <= 2 * Quarter
  PROVE  LET c == Corrected(from_bits(i32(Swing(Z)))) IN
         /\ c \in fix32_t /\ to_bits(c) \in -One .. One
         /\ Z = 0 => c = from_int(0)
         /\ Z = Quarter => c = from_int(-1)
         /\ Z = -Quarter => c = from_int(1)
<1>0. One \in Nat /\ One > 0
  BY Widths
<1>1. PICK S \in -One .. One : /\ S = Swing(Z)
                               /\ Z = 0 => S = 0
                               /\ Z = Quarter => S = -One
                               /\ Z = -Quarter => S = One
  BY SwingRange
<1>2. S \in Int /\ -(16 * One) <= S /\ S <= 16 * One
  BY <1>0
<1>3. PICK y \in fix32_t : y = from_bits(i32(Swing(Z))) /\ to_bits(y) = S
  BY <1>1, <1>2, Fits, FromBitsType
<1>4. PICK c \in fix32_t : /\ c = Corrected(y) /\ to_bits(c) \in -One .. One
                           /\ S \in {-One, 0, One} => to_bits(c) = S
  BY <1>3, CorrectedExact
<1>5. ASSUME NEW n \in -16 .. 16, to_bits(c) = n * One PROVE c = from_int(n)
  BY <1>5, IntegerBits, BitsInjective
<1>6. 0 * One = 0 /\ 1 * One = One /\ (-1) * One = -One
  BY <1>0
<1>7. 0 \in -16 .. 16 /\ 1 \in -16 .. 16 /\ -1 \in -16 .. 16
  OBVIOUS
<1>8. Z = 0 => c = from_int(0)
  BY <1>1, <1>4, <1>5, <1>6, <1>7
<1>9. Z = Quarter => c = from_int(-1)
  BY <1>1, <1>4, <1>5, <1>6, <1>7
<1>10. Z = -Quarter => c = from_int(1)
  BY <1>1, <1>4, <1>5, <1>6, <1>7
<1> QED
  BY <1>3, <1>4, <1>8, <1>9, <1>10

\* The phase of whole turns and j quarters
LEMMA PhaseOf ==
  ASSUME NEW k \in Int
  PROVE  /\ Phase(k * One) = -Quarter
         /\ Phase(k * One + Quarter) = 0
         /\ Phase(k * One + 2 * Quarter) = Quarter
         /\ Phase(k * One - 2 * Quarter) = Quarter
<1>1. PICK Q \in Nat : Q = Quarter /\ Q > 0 /\ One = 4 * Q /\ One \in Nat /\ One > 0
  BY QuarterType
<1>2. PICK n \in Int, l \in Int : n = k * One /\ l = k - 1 /\ l * One = n - 4 * Q
  BY <1>1
<1>3. ASSUME NEW j \in 0 .. One - 1 PROVE (n + j) % One = j /\ (n - 4 * Q + j) % One = j
  <2>1. (k * One + j) % One = j /\ (l * One + j) % One = j
    BY <1>1, DivUnique
  <2> QED
    BY <2>1, <1>2
<1>4. PICK j1 \in 0 .. One - 1, j2 \in 0 .. One - 1, j3 \in 0 .. One - 1 :
        j1 = Q /\ j2 = 2 * Q /\ j3 = 3 * Q
  BY <1>1
<1>5. /\ n + Q = n + j1 /\ (n + Q) + Q = n + j2 /\ (n + 2 * Q) + Q = n + j3
      /\ (n - 2 * Q) + Q = n - 4 * Q + j3
  BY <1>1, <1>4
<1>6. (n + Q) % One = Q /\ ((n + Q) + Q) % One = 2 * Q
  BY <1>3, <1>4, <1>5
<1>7. ((n + 2 * Q) + Q) % One = 3 * Q /\ ((n - 2 * Q) + Q) % One = 3 * Q
  BY <1>3, <1>4, <1>5
<1>8. Q - 2 * Q = -Q /\ 2 * Q - 2 * Q = 0 /\ 3 * Q - 2 * Q = Q
  BY <1>1
<1> QED
  BY <1>1, <1>2, <1>6, <1>7, <1>8 DEF Phase

\* The cosine stays within -1 .. 1 although every product is truncated, repeats
\* with every turn although the word is cut, is even, and is exact at the
\* quarters of a turn; the sine is the cosine a quarter turn away.
THEOREM WaveAlwaysSound == Spec => []WaveIsSound
<1>1. NumTypeOK => WaveIsSound
  <2> SUFFICES ASSUME NumTypeOK PROVE WaveIsSound
    OBVIOUS
  <2> DEFINE turn(n) == from_bits(A + (n * One) \div 4)
             Cos(n)  == Corrected(from_bits(i32(Swing(Phase(n)))))
  <2>1. PICK Q \in Nat : /\ Q = Quarter /\ Q > 0 /\ One = 4 * Q /\ One \in Nat /\ One > 0
                         /\ Fraction(1, 4) = from_bits(Q)
    BY QuarterType
  <2>2. PICK X \in Int : X = A
    BY BitsType DEF NumTypeOK, A
  <2>3. a \in fix32_t /\ to_bits(a) = X
    BY <2>2 DEF NumTypeOK, A
  <2>4. cos(a) = Cos(X)
    BY <2>3, CosIs
  <2>5. /\ turn(1) = from_bits(X + Q) /\ turn(2) = from_bits(X + 2 * Q)
        /\ turn(4) = from_bits(X + One)
    <3>1. PICK P \in Int : P = 2 * Q
      OBVIOUS
    <3>2. (Q * 4 + 0) \div 4 = Q /\ (P * 4 + 0) \div 4 = P /\ (One * 4 + 0) \div 4 = One
      BY <2>1, DivUnique
    <3>3. 1 * One = Q * 4 + 0 /\ 2 * One = P * 4 + 0 /\ 4 * One = One * 4 + 0
      BY <3>1, <2>1
    <3>4. (1 * One) \div 4 = Q /\ (2 * One) \div 4 = 2 * Q /\ (4 * One) \div 4 = One
      BY <3>1, <3>2, <3>3
    <3> QED
      BY <3>4, <2>2
  <2>6. PICK p \in Int : p = Phase(X) /\ -(2 * Quarter) <= p /\ p <= 2 * Quarter
    BY <2>1, PhaseIs
  <2>7. to_bits(cos(a)) \in -One .. One
    BY <2>4, <2>6, CosValue
  <2>8. cos(turn(4)) = cos(a)
    <3>1. PICK n \in Int : n = X + One /\ n = 1 * One + X
      BY <2>1
    <3>2. Phase(n) = Phase(X)
      BY <3>1, PhaseIs
    <3>3. cos(from_bits(n)) = Cos(n)
      BY CosOfWord
    <3> QED
      BY <3>1, <3>2, <3>3, <2>4, <2>5
  <2>9. cos(invert_sign(a)) = cos(a)
    <3>1. PICK n \in Int : n = -X
      OBVIOUS
    <3>2. PICK x \in fix32_t : x = invert_sign(a) /\ to_bits(x) = i32(n)
      BY <3>1, <2>3, RoundingType, InvertExact
    <3>3. PICK k \in Int : i32(n) = k * One + n
      BY i32Turns
    <3>4. cos(x) = Cos(n)
      BY <3>2, <3>3, CosTurns
    <3>5. Swing(Phase(n)) = Swing(Phase(X))
      BY <3>1, SwingEven
    <3> QED
      BY <3>2, <3>4, <3>5, <2>4
  <2>10. ASSUME a.f = 0
         PROVE  /\ cos(a) = from_int(1) /\ cos(turn(2)) = from_int(-1)
                /\ cos(turn(1)) = from_int(0) /\ sin(turn(1)) = from_int(-1)
    <3>1. PICK k \in Int : X = k * One
      <4>1. a.i \in Int /\ a.i * One + 0 = a.i * One
        BY <2>1, <2>3, BitsType
      <4> QED
        BY <4>1, <2>3, <2>10 DEF to_bits
    <3>2. /\ Phase(k * One) = -Quarter
          /\ Phase(k * One + Quarter) = 0
          /\ Phase(k * One + 2 * Quarter) = Quarter
      BY PhaseOf
    <3>3. \A j \in Int : Phase(j * One - 2 * Quarter) = Quarter
      BY PhaseOf
    <3>4. PICK N \in Int : N = -Quarter /\ -(2 * Quarter) <= N /\ N <= 2 * Quarter
      BY <2>1
    <3>5. -(2 * Quarter) <= 0 /\ 0 <= 2 * Quarter /\ -(2 * Quarter) <= Q /\ Q <= 2 * Quarter
      BY <2>1
    <3>6. cos(a) = from_int(1)
      BY <3>1, <3>2, <3>4, <2>4, CosValue
    <3>7. PICK n1 \in Int, n2 \in Int : n1 = X + Q /\ n2 = X + 2 * Q
      BY <2>1
    <3>8. cos(turn(2)) = from_int(-1)
      <4>1. cos(from_bits(n2)) = Cos(n2)
        BY CosOfWord
      <4>2. Phase(n2) = Q
        BY <3>1, <3>2, <3>7, <2>1
      <4> QED
        BY <4>1, <4>2, <3>5, <3>7, <2>1, <2>5, CosValue
    <3>9. cos(turn(1)) = from_int(0)
      <4>1. cos(from_bits(n1)) = Cos(n1)
        BY CosOfWord
      <4>2. Phase(n1) = 0
        BY <3>1, <3>2, <3>7, <2>1
      <4> QED
        BY <4>1, <4>2, <3>5, <3>7, <2>5, CosValue
    <3>10. sin(turn(1)) = from_int(-1)
      <4>1. PICK x \in fix32_t : x = turn(1) /\ to_bits(x) = i32(n1)
        BY <3>7, <2>5, FromBitsType, FromBitsExact
      <4>2. PICK k1 \in Int : to_bits(x) = k1 * One + n1
        BY <4>1, i32Turns
      <4>3. PICK n \in Int : n = -(k1 * One + n1)
        <5>1. k1 * One \in Int
          BY <2>1
        <5> QED
          BY <5>1
      <4>4. PICK y \in fix32_t : y = invert_sign(x) /\ to_bits(y) = i32(n)
        BY <4>2, <4>3, RoundingType, InvertExact
      <4>5. PICK k2 \in Int : to_bits(y) = k2 * One + n
        BY <4>4, i32Turns
      <4>6. PICK c \in fix32_t : c = Fraction(1, 4) /\ to_bits(c) = Q
        <5>1. -(16 * One) <= Q /\ Q <= 16 * One
          BY <2>1
        <5> QED
          BY <5>1, <2>1, Fits, FromBitsType
      <4>7. PICK m \in Int : m = (k2 * One + n) - Q
        <5>1. k2 * One \in Int
          BY <2>1
        <5> QED
          BY <5>1
      <4>8. PICK z \in fix32_t : z = sub(y, c) /\ to_bits(z) = i32(m)
        BY <4>5, <4>6, <4>7, ArithmeticType, SubExact
      <4>9. PICK k3 \in Int : to_bits(z) = k3 * One + m
        BY <4>8, i32Turns
      <4>10. cos(z) = Cos(m)
        BY <4>9, CosTurns
      <4>11. PICK j \in Int : j = k2 - k1 - k
        OBVIOUS
      <4>12. m = j * One - 2 * Q
        <5>1. j * One = k2 * One - k1 * One - k * One
          BY <4>11, <2>1
        <5>2. k2 * One \in Int /\ k1 * One \in Int /\ k * One \in Int
          BY <2>1
        <5>3. PICK w1 \in Int, w2 \in Int, w3 \in Int :
                w1 = k1 * One /\ w2 = k2 * One /\ w3 = k * One
          BY <5>2
        <5>4. j * One = w2 - w1 - w3 /\ n = -(w1 + n1) /\ m = (w2 + n) - Q /\ n1 = w3 + Q
          BY <5>1, <5>3, <4>3, <4>7, <3>1, <3>7
        <5>5. m = (w2 - w1 - w3) - 2 * Q
          BY <5>4
        <5> QED
          BY <5>4, <5>5
      <4>13. Phase(m) = Q
        BY <4>12, <3>3, <2>1
      <4>14. Cos(m) = from_int(-1)
        BY <4>13, <3>5, <2>1, CosValue
      <4>15. sin(turn(1)) = cos(z)
        BY <4>1, <4>4, <4>6, <4>8 DEF sin
      <4> QED
        BY <4>10, <4>14, <4>15
    <3> QED
      BY <3>6, <3>8, <3>9, <3>10
  <2> QED
    BY <2>7, <2>8, <2>9, <2>10 DEF WaveIsSound
<1> QED
  BY <1>1, NumbersTypeCorrect, PTL
=============================================================================
