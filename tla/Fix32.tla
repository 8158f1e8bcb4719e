-------------------------------- MODULE Fix32 --------------------------------
(***************************************************************************)
(* The fixed-point numbers of fix32.c: a signed integer half i and an      *)
(* unsigned fraction half f, both HalfBits wide (16), that stand for the   *)
(* number i + f / 2^HalfBits.  Some functions join the halves to one       *)
(* signed integer of twice the width (to_bits), others work on the halves. *)
(* Everything is built with -O0, where a signed overflow wraps.            *)
(***************************************************************************)
EXTENDS Integers

CONSTANTS
  HalfBits,  \* width of a half (16); sqrt needs it even
  Half,      \* the sign bit of a half (2^15)
  Digits     \* decimal digits that print_fix32 writes (5)

One  == 2 * Half
Word == 2 * (Half * One)

\* x to the n-th, as a product
Power(x, n) ==
  LET product[k \in Nat] == IF k = 0 THEN 1 ELSE x * product[k - 1]
  IN product[n]

\* print_fix32 strips zeros for ever from a fraction that has no digit left.
ASSUME Fix32Assumption ==
  /\ HalfBits \in Nat /\ HalfBits % 2 = 0 /\ HalfBits > 5
  /\ Half = Power(2, HalfBits - 1)
  /\ Digits \in Nat /\ Power(10, Digits) > One

(***************************************************************************)
(* Conversions of C                                                        *)
(***************************************************************************)
Signed(n, half) == ((n + half) % (2 * half)) - half
i16(n) == Signed(n, Half)
i32(n) == Signed(n, Half * One)
Abs(n) == IF n < 0 THEN -n ELSE n

\* The quotient of C is truncated towards zero.
CDiv(n, d) == IF (n < 0) = (d < 0) THEN Abs(n) \div Abs(d) ELSE -(Abs(n) \div Abs(d))

IntMin == -Half
IntMax == Half - 1
fix32_t == [i : IntMin .. IntMax, f : 0 .. One - 1]
\* Mutant: the integer half is not cut to its width.
fix32_Wide(i, f) == [i |-> i, f |-> f % One]
fix32(i, f) == [i |-> i16(i), f |-> f % One]

to_bits(a)   == a.i * One + a.f
from_bits(n) == fix32((n % Word) \div One, n)
from_int(i)  == fix32(i, 0)

(***************************************************************************)
(* Arithmetic                                                              *)
(***************************************************************************)

\* Mutant: the carry of the fraction into the integer is forgotten.
invert_sign_NoCarry(a) == fix32(-a.i, One - a.f)
invert_sign(a) == IF a.f = 0 THEN fix32(-a.i, 0) ELSE fix32(-a.i - 1, One - a.f)

abs(a)  == IF a.i >= 0 THEN a ELSE invert_sign(a)
flr(a)  == fix32(a.i, 0)
ceil(a) == IF a.f = 0 THEN a ELSE fix32(a.i + 1, 0)

\* The words are added, subtracted and multiplied; >> rounds down.
add(a, b) == from_bits(i32(to_bits(a) + to_bits(b)))
sub(a, b) == from_bits(i32(to_bits(a) - to_bits(b)))
mul(a, b) == from_bits(i32((to_bits(a) * to_bits(b)) \div One))

\* The quotient wraps where it does not fit: the test for saturation is always
\* true, and only a division by zero saturates.
div(a, b) ==
  LET A == to_bits(a)  B == to_bits(b) IN
  IF B = One THEN a
  ELSE IF B # 0 THEN from_bits(i32(CDiv(A * One, B)))
  ELSE from_bits(IF A >= 0 THEN Half * One - 1 ELSE 1 - Half * One)

\* Mutant: the quotient is not rounded to an integer.
mod_NoFloor(a, b) ==
  IF to_bits(a) = 0 \/ to_bits(b) = 0 THEN a ELSE sub(a, mul(div(a, b), b))
mod(a, b) ==
  IF to_bits(a) = 0 \/ to_bits(b) = 0 THEN a
  ELSE sub(a, mul(flr(div(a, b)), b))

\* The word, as an unsigned number, is shifted.  (PICO-8's shr keeps the sign.)
shr(a, n) == from_bits((to_bits(a) % Word) \div Power(2, n))
shl(a, n) == from_bits((to_bits(a) % Word) * Power(2, n))

\* uint_pow on uint16_t, by repeated squaring.
\* Mutant: the base is squared before it is used.
squared_Early(base, n) ==
  LET square[k \in 0 .. HalfBits] ==
        IF k = 0 THEN (base * base) % One ELSE (square[k - 1] * square[k - 1]) % One
  IN square[n]
\* The base after n rounds
squared(base, n) ==
  LET square[k \in 0 .. HalfBits] ==
        IF k = 0 THEN base % One ELSE (square[k - 1] * square[k - 1]) % One
  IN square[n]
uint_pow(base, exp) ==
  LET result[n \in 0 .. HalfBits] ==
        IF n = 0 THEN 1
        ELSE IF (exp \div Power(2, n - 1)) % 2 = 0 THEN result[n - 1]
        ELSE (result[n - 1] * squared(base, n - 1)) % One
  IN result[HalfBits]

\* fix32_pow asserts that both are integers, and the result not above IntMax.
pow_defined(a, b) == a.f = 0 /\ b.f = 0 /\ uint_pow(a.i, b.i % One) <= IntMax
pow(a, b) == from_int(uint_pow(a.i, b.i % One))

\* Mutant: one round too few.
Rounds_Fewer == (3 * HalfBits) \div 2 - 1
\* Restoring square root: a bit of the root per round, on uint32_t
Rounds == (3 * HalfBits) \div 2
sqrt(a) ==
  LET loop[n \in 0 .. Rounds] ==
        IF n = 0 THEN [r |-> to_bits(a) % Word, q |-> 0]
        ELSE LET x == loop[n - 1]
                 b == Power(2, 2 * HalfBits - 1 - n)
                 t == (x.q + b) % Word
             IN IF x.r >= t
                THEN [r |-> (2 * (x.r - t)) % Word, q |-> (t + b) % Word]
                ELSE [r |-> (2 * x.r) % Word, q |-> x.q]
  IN from_bits(loop[Rounds].q \div Power(2, HalfBits \div 2))

\* The cosine of a fraction of a turn: the two coefficients of its quadratic
\* approximation are those of the 16-bit code, truncated to HalfBits.
Fraction(n, d) == from_bits((n * One) \div d)

\* Mutant: the angle is not reduced to the turn around zero.
cos_NoTurn(x) ==
  LET y == mul(x, mul(from_int(16), sub(abs(x), Fraction(1, 2))))
  IN add(y, mul(Fraction(225, 1000), mul(y, sub(abs(y), from_int(1)))))
cos(x) ==
  LET z == sub(x, add(Fraction(1, 4), flr(add(x, Fraction(1, 4)))))
      y == mul(z, mul(from_int(16), sub(abs(z), Fraction(1, 2))))
  IN add(y, mul(Fraction(225, 1000), mul(y, sub(abs(y), from_int(1)))))
sin(x) == cos(sub(invert_sign(x), Fraction(1, 4)))

(***************************************************************************)
(* Comparisons, on the halves                                              *)
(***************************************************************************)
geq(a, b) == ~(a.i < b.i) /\ ~(a.i = b.i /\ a.f < b.f)
gt(a, b)  == ~(a.i < b.i) /\ ~(a.i = b.i /\ a.f <= b.f)
\* Mutant: the fractions are compared whatever the integers are.
lt_Halves(a, b) == ~(a.i > b.i) /\ ~(a.f >= b.f)
lt(a, b)  == ~(a.i > b.i) /\ ~(a.i = b.i /\ a.f >= b.f)
leq(a, b) == ~(a.i > b.i) /\ ~(a.i = b.i /\ a.f > b.f)
min(a, b) == IF lt(a, b) THEN a ELSE b

(***************************************************************************)
(* Decimal text: a sign, an integer, and "width" digits of a fraction      *)
(***************************************************************************)

\* Mutant: the digits of the fraction are not padded with zeros.
Padded_Not(dec, width) == [dec |-> dec, width |-> 0]
\* "%0*d"
Padded(dec, width) == [dec |-> dec, width |-> width]

\* Trailing zeros are stripped while there is one.
Digit(dec, k) == (dec \div Power(10, k)) % 10
Stripped(dec) ==
  LET k == CHOOSE k \in 0 .. Digits :
             Digit(dec, k) # 0 /\ \A j \in 0 .. k - 1 : Digit(dec, j) = 0
  IN Padded(dec \div Power(10, k), Digits - k)

print_fix32(a) ==
  LET Text(neg, n) ==
        [neg |-> neg, int |-> Abs(n.i),
         frac |-> IF n.f = 0 THEN Padded(0, 0) ELSE Stripped((n.f * Power(10, Digits)) \div One)]
  IN IF a.f = 0 \/ a.i >= 0 THEN Text(a.i < 0, a)
     ELSE Text(TRUE, fix32(-a.i - 1, One - a.f))
=============================================================================
