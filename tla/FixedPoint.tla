----------------------------- MODULE FixedPoint -----------------------------
(***************************************************************************)
(* The arithmetic of numeric::fixed<I, F> (include/fixedp.h), the number   *)
(* type of every balance, price and weight (i80f48 is fixed<80, 48>).  A   *)
(* number is the integer data_; it stands for data_ / One.  i80f48 has no  *)
(* integer type of twice its size, so multiply and divide are the fallback *)
(* versions.                                                               *)
(***************************************************************************)
EXTENDS Integers

CONSTANTS
  One,   \* fixed::one, two to the number of fractional bits
  Top    \* two to the number of bits less one: the first value that is not a base_type

ASSUME OneAssumption == One \in Nat \ {0}
ASSUME TopAssumption == Top \in Nat \ {0}

\* a number has at least one bit in front of the point
ASSUME WidthAssumption == One <= Top

\* the values of base_type and of unsigned_type
Raw == -Top .. Top - 1
Unsigned == 0 .. 2 * Top - 1

\* an integer as unsigned_type and as base_type
ToUnsigned(n) == n % (2 * Top)
ToRaw(n) == ((n + Top) % (2 * Top)) - Top

\* the constructor from an integer
Fixed(n) == ToRaw(n * One)

Magnitude(n) == IF n < 0 THEN -n ELSE n

\* data_ & integer_mask, shifted down, and data_ & fractional_mask
Hi(n) == n \div One
Lo(n) == n % One

\* broken: the product of the integer parts is not shifted up
HighProductUnshifted(a, b) == Hi(a) * Hi(b)

\* x1 << fractional_bits
HighProduct(a, b) == Hi(a) * Hi(b) * One

\* x3 + x2
CrossProducts(a, b) == Lo(a) * Hi(b) + Hi(a) * Lo(b)

\* detail::multiply.  The sums and products may leave base_type, which the
\* compilers in use let wrap around.
Multiply(a, b) == ToRaw(HighProduct(a, b) + CrossProducts(a, b) + ((Lo(a) * Lo(b)) \div One))

\* the exact quotient without its sign, cut to the fractional bits
ExactQuotient(a, b) == (Magnitude(a) * One) \div Magnitude(b)

\* (answer << F) | lo, for a lo that is at most One
Joined(answer, lo) == answer * One + (IF lo = One /\ answer % 2 = 1 THEN 0 ELSE lo)

\* a remainder of which the shift by the fractional bits would lose bits
Overflows(rest) == rest >= (2 * Top) \div One

\* what a shift by k places divides by
TwoTo[k \in 0 .. One] == IF k = 0 THEN 1 ELSE 2 * TwoTo[k - 1]

\* how far such a remainder is shifted down, and the divisor with it
Shifts(rest) ==
  CHOOSE k \in 0 .. One :
    ~Overflows(rest \div TwoTo[k]) /\ (k > 0 => Overflows(rest \div TwoTo[k - 1]))

\* detail::divide, which FixedDivision takes apart
Divide(a, b) ==
  LET rest == Magnitude(a) % Magnitude(b)
      shift == TwoTo[Shifts(rest)]
      lo == ((rest \div shift) * One) \div (Magnitude(b) \div shift)
      unsigned == ToRaw(Joined(Magnitude(a) \div Magnitude(b), lo))
  IN  IF (a < 0) # (b < 0) THEN ToRaw(-unsigned) ELSE unsigned

\* operator* of an integer and a number
Times(k, a) == Multiply(Fixed(k), a)
=============================================================================
