------------------------------ MODULE Doubles ------------------------------
(***************************************************************************)
(* What a number loses on its way through double and long double: to_double *)
(* of fixedp.h and the quotient of nativeToUi (include/utils.hpp).  A       *)
(* floating-point number is written as an integer in a fixed scale; it is  *)
(* one that a few leading binary digits are enough for, with zeros after   *)
(* them.  Rounding is to the nearest such number, and to the even one of   *)
(* two that are equally near, as IEEE 754 has it.                          *)
(***************************************************************************)
EXTENDS Integers

CONSTANTS
  Mantissa,      \* two to the number of digits of a double
  LongMantissa,  \* and of a long double, which may be the same type
  MaxExponent    \* zeros that may follow the digits

ASSUME MantissaAssumption ==
  /\ Mantissa \in Nat /\ LongMantissa \in Nat
  /\ 4 <= Mantissa /\ Mantissa <= LongMantissa
ASSUME ExponentAssumption == MaxExponent \in Nat

\* a digit followed by k zeros
Scale[k \in 0 .. MaxExponent] == IF k = 0 THEN 1 ELSE 2 * Scale[k - 1]

\* numbers up to this one, at least, are not too large
Largest == Scale[MaxExponent]

\* the integer nearest to n / m
Nearest(n, m) ==
  LET rest == n % m
      up == 2 * rest > m \/ (2 * rest = m /\ (n \div m) % 2 = 1)
  IN  (n \div m) + (IF up THEN 1 ELSE 0)

\* the worth of the last of the digits below limit, for a number with x before
\* its point: no more zeros follow than have to
Unit(limit, x) ==
  LET TooLong(k) == x \div Scale[k] >= limit
  IN  Scale[CHOOSE k \in 0 .. MaxExponent : ~TooLong(k) /\ (k > 0 => TooLong(k - 1))]

\* the floating-point number for n / m
Rounded(limit, n, m) ==
  LET unit == Unit(limit, n \div m) IN Nearest(n, m * unit) * unit

\* static_cast<double> of an integer
ToDouble(n) == IF n < 0 THEN -Rounded(Mantissa, -n, 1) ELSE Rounded(Mantissa, n, 1)

\* the double that a quotient of long doubles is returned as
QuotientAsDouble(n, m) == Rounded(Mantissa, Rounded(LongMantissa, n, m), 1)
=============================================================================
