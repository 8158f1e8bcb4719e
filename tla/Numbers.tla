------------------------------- MODULE Numbers -------------------------------
(***************************************************************************)
(* Two number variables of a Lua program, and assignments that give the    *)
(* first one the result of an operator of lua.c or a function of           *)
(* lua_math.c.  The invariants compare the functions of fix32.c, applied   *)
(* to the two numbers, with what they stand for.                           *)
(***************************************************************************)
EXTENDS Fix32

CONSTANT OperandBits  \* the words of the numbers that b takes, for model checking

ASSUME NumbersAssumption == OperandBits \subseteq 0 .. Word - 1

VARIABLES a, b
vars == <<a, b>>

Operands == {from_bits(n) : n \in OperandBits}

\* A literal, or the result of an expression
assign ==
  /\ b' \in Operands
  /\ UNCHANGED a

_pluseq  == a' = add(a, b) /\ UNCHANGED b
_minuseq == a' = sub(a, b) /\ UNCHANGED b
_muleq   == a' = mul(a, b) /\ UNCHANGED b
_diveq   == a' = div(a, b) /\ UNCHANGED b
_modeq   == a' = mod(a, b) /\ UNCHANGED b

\* a = a \ b, a = -a, a = ceil(a), a = flr(a), a = min(a, b), a = cos(a), a = sin(a)
_floor_div   == a' = flr(div(a, b)) /\ UNCHANGED b
_invert_sign == a' = invert_sign(a) /\ UNCHANGED b
_ceil        == a' = ceil(a) /\ UNCHANGED b
_flr         == a' = flr(a) /\ UNCHANGED b
_min         == a' = min(a, b) /\ UNCHANGED b
_cos         == a' = cos(a) /\ UNCHANGED b
_sin         == a' = sin(a) /\ UNCHANGED b

\* Both assert that the number of bits is an integer and not negative; C defines
\* no result for a word's width or more.
Shiftable == b.f = 0 /\ b.i \in 0 .. 2 * HalfBits - 1
_shr == Shiftable /\ a' = shr(a, b.i) /\ UNCHANGED b
_shl == Shiftable /\ a' = shl(a, b.i) /\ UNCHANGED b

Init == a = from_int(0) /\ b \in Operands
Next ==
  \/ assign \/ _pluseq \/ _minuseq \/ _muleq \/ _diveq \/ _modeq
  \/ _floor_div \/ _invert_sign \/ _ceil \/ _flr \/ _min \/ _cos \/ _sin
  \/ _shr \/ _shl
Spec == Init /\ [][Next]_vars

(***************************************************************************)
(* Properties                                                              *)
(***************************************************************************)
A == to_bits(a)
B == to_bits(b)

NumTypeOK == a \in fix32_t /\ b \in fix32_t

\* The comparisons of the halves order numbers as their values are ordered, and
\* min takes the lower one.
OrderIsExact ==
  /\ lt(a, b) <=> A < B
  /\ gt(a, b) <=> A > B
  /\ leq(a, b) <=> A <= B
  /\ geq(a, b) <=> A >= B
  /\ to_bits(min(a, b)) \in {A, B} /\ leq(min(a, b), a) /\ leq(min(a, b), b)

\* The sign is inverted through the halves, with the carry of the fraction; the
\* lowest number, which has no opposite, stays what it is.
SignIsExact ==
  /\ to_bits(invert_sign(a)) = i32(-A)
  /\ to_bits(abs(a)) = i32(Abs(A))
  /\ a.i < IntMax => /\ to_bits(ceil(a)) - A \in 0 .. One - 1
                     /\ A - to_bits(flr(a)) \in 0 .. One - 1

\* What fix32_mod returns differs from a by a multiple of b and is closer to 0 than
\* b; it has the sign of b, or misses it by less than the last digit of a / b.
\* (fix32.c:160-166; for a quotient that does not fit nothing is said.)
Quotient == CDiv(A * One, B)
ModIsRemainder ==
  A # 0 /\ B # 0 /\ Quotient = i32(Quotient) =>
    LET r == to_bits(mod(a, b)) IN
    /\ (A - r) % Abs(B) = 0
    /\ Abs(r) < Abs(B)
    /\ r # 0 => ((r < 0) <=> (B < 0)) \/ Abs(r) * One < Abs(B)

\* The root is exact, rounded down, for numbers below a quarter of the range.
\* (From there on, 16384 in the code, the remainder leaves its 32 bits.)
SqrtIsExact ==
  A \in 0 .. Word \div 4 - 1 =>
    LET r == to_bits(sqrt(a)) IN r * r <= A * One /\ A * One < (r + 1) * (r + 1)

\* The power of integers is exact where it fits and is not negative, of negative
\* bases too, however often the squares of the base wrap; and where it fits and is
\* negative, as (-2)^3, the assertion of fix32_from_uint16 stops it (fix32.c:11-67).
PowIsExact ==
  a.f = 0 /\ b.f = 0 /\ b.i \in 0 .. 5 =>
    LET p == Power(a.i, b.i) IN
    p \in IntMin .. IntMax =>
      /\ pow_defined(a, b) <=> p >= 0
      /\ pow_defined(a, b) => pow(a, b) = from_int(p)

\* The number can be read back from its text: the fraction is the least one with
\* these digits.
PrintReadsBack ==
  LET text   == print_fix32(a)
      digits == text.frac.dec * One * Power(10, Digits - text.frac.width)
      frac   == (digits + Power(10, Digits) - 1) \div Power(10, Digits)
      value  == text.int * One + frac
  IN A = IF text.neg THEN -value ELSE value

\* The cosine stays within -1 .. 1, has period 1, is even, and is exact at the
\* quarters of a turn; the sine, at one quarter of a turn, has PICO-8's sign.
WaveIsSound ==
  LET turn(n) == from_bits(A + (n * One) \div 4) IN
  /\ to_bits(cos(a)) \in -One .. One
  /\ cos(turn(4)) = cos(a)
  /\ cos(invert_sign(a)) = cos(a)
  /\ a.f = 0 => /\ cos(a) = from_int(1) /\ cos(turn(2)) = from_int(-1)
                /\ cos(turn(1)) = from_int(0) /\ sin(turn(1)) = from_int(-1)

(***************************************************************************)
(* What a comment of fix32.c says, which does not hold of every number     *)
(***************************************************************************)

\* fix32.c:162: a % b == a - math.floor(a/b)*b.  The code takes the floor of a
\* quotient that is already truncated towards zero: where this truncation reaches
\* an integer from below, the result is b too low.
Floor == IF B > 0 THEN A \div B ELSE (-A) \div (-B)
ModIsFloored ==
  A # 0 /\ B # 0 /\ Quotient = i32(Quotient) =>
    to_bits(mod(a, b)) = i32(A - Floor * B)
=============================================================================
