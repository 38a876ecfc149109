---------------------------- MODULE FixedDivision ----------------------------
(***************************************************************************)
(* One multiplication or division of numeric::fixed (include/fixedp.h),    *)
(* the division loop by loop: the divisor is doubled until it is past the  *)
(* numerator, subtracted on the way back, and the remainder is divided     *)
(* once more for the fractional bits.                                      *)
(***************************************************************************)
EXTENDS FixedPoint

CONSTANTS
  Operands,  \* the values the operands may have
  Powers     \* the powers of two up to Top

ASSUME OperandsAssumption == Operands \subseteq -(Top - 1) .. Top - 1

ASSUME PowersAssumption ==
  /\ Powers \subseteq Nat \ {0}
  /\ 1 \in Powers
  /\ \A p \in Powers : p < Top => 2 * p \in Powers
  /\ \A p \in Powers : p # 1 => p \div 2 \in Powers /\ p = 2 * (p \div 2)

VARIABLES
  pc,           \* the operation, then the loop that runs, then "done" or "thrown"
  numerator, denominator,   \* the operands, lhs and rhs for a product
  n, d, x, answer,          \* of the two loops, all unsigned_type
  l1, l2,                   \* of the loop for the lower bits
  quotient      \* the result

vars == <<pc, numerator, denominator, n, d, x, answer, l1, l2, quotient>>

operands == <<numerator, denominator>>

Init ==
  /\ pc \in {"multiply", "divide"}
  /\ numerator \in Operands /\ denominator \in Operands
  /\ n = 0 /\ d = 0 /\ x = 0 /\ answer = 0
  /\ l1 = 0 /\ l2 = 0 /\ quotient = 0

\* detail::multiply, which has no loop
Product ==
  /\ pc = "multiply"
  /\ quotient' = Multiply(numerator, denominator)
  /\ pc' = "product"
  /\ UNCHANGED <<operands, n, d, x, answer, l1, l2>>

\* throw divide_by_zero()
DivideByZero ==
  /\ pc = "divide"
  /\ denominator = 0
  /\ pc' = "thrown"
  /\ UNCHANGED <<operands, n, d, x, answer, l1, l2, quotient>>

\* the signs are taken off
TakeSigns ==
  /\ pc = "divide"
  /\ denominator # 0
  /\ n' = Magnitude(numerator) /\ d' = Magnitude(denominator)
  /\ x' = 1 /\ answer' = 0
  /\ pc' = "double"
  /\ UNCHANGED <<operands, l1, l2, quotient>>

\* the condition of the first loop: the numerator still holds the divisor,
\* and the divisor's top bit is free
GoesOn == n >= d /\ d < Top

\* broken: the divisor stays as it is
DoubleKeepsDivisor ==
  /\ pc = "double"
  /\ GoesOn
  /\ x' = ToUnsigned(2 * x)
  /\ UNCHANGED <<pc, operands, n, d, answer, l1, l2, quotient>>

\* a round of the first loop
Double ==
  /\ pc = "double"
  /\ GoesOn
  /\ x' = ToUnsigned(2 * x) /\ d' = ToUnsigned(2 * d)
  /\ UNCHANGED <<pc, operands, n, answer, l1, l2, quotient>>

DoubleEnds ==
  /\ pc = "double"
  /\ ~GoesOn
  /\ pc' = "subtract"
  /\ UNCHANGED <<operands, n, d, x, answer, l1, l2, quotient>>

\* broken: equal values are not subtracted
HoldsMore(rest, divisor) == rest > divisor

Holds(rest, divisor) == rest >= divisor

\* broken: the last bit is never shifted out
ShiftKeepsOne(bit) == IF bit = 1 THEN 1 ELSE bit \div 2

\* x >>= 1
Shift(bit) == bit \div 2

\* a round of the second loop
Subtract ==
  /\ pc = "subtract"
  /\ x # 0
  /\ IF Holds(n, d) THEN n' = n - d /\ answer' = ToUnsigned(answer + x)
                    ELSE UNCHANGED <<n, answer>>
  /\ x' = Shift(x) /\ d' = d \div 2
  /\ UNCHANGED <<pc, operands, l1, l2, quotient>>

SubtractEnds ==
  /\ pc = "subtract"
  /\ x = 0
  /\ l1' = n /\ l2' = Magnitude(denominator)
  /\ pc' = "lower"
  /\ UNCHANGED <<operands, n, d, x, answer, quotient>>

\* broken: lets one bit more than there is room for stay
TooWideByTwo == l1 >= 2 * ((2 * Top) \div One)

\* the condition of the third loop: l1 has a bit that l1 << F would lose
TooWide == Overflows(l1)

\* a round of the third loop
ShiftBoth ==
  /\ pc = "lower"
  /\ TooWide
  /\ l1' = l1 \div 2 /\ l2' = l2 \div 2
  /\ UNCHANGED <<pc, operands, n, d, x, answer, quotient>>

Join(lo) == Joined(answer, lo)

\* sign, after its two flips
Negative == (numerator < 0) # (denominator < 0)

\* the lower bits and the sign
Finish ==
  /\ pc = "lower"
  /\ ~TooWide
  /\ LET lo == ToUnsigned(l1 * One) \div l2
         unsigned == ToRaw(Join(lo))
     IN  quotient' = IF Negative THEN ToRaw(-unsigned) ELSE unsigned
  /\ pc' = "done"
  /\ UNCHANGED <<operands, n, d, x, answer, l1, l2>>

Next ==
  \/ Product \/ DivideByZero \/ TakeSigns \/ Double \/ DoubleEnds
  \/ Subtract \/ SubtractEnds \/ ShiftBoth \/ Finish

\* one thread computes to the end
Spec == Init /\ [][Next]_vars /\ WF_vars(Next)

----------------------------------------------------------------------------

Steps == {"multiply", "divide", "double", "subtract", "lower", "product", "done", "thrown"}

(* Every local of the two functions keeps its type; in particular x is a   *)
(* power of two or zero and the divisor never leaves the unsigned type     *)
(* (fixedp.h:155-222).                                                     *)
TypeOK ==
  /\ pc \in Steps
  /\ numerator \in Operands /\ denominator \in Operands
  /\ n \in Nat /\ d \in Unsigned /\ x \in Powers \cup {0} /\ answer \in Unsigned
  /\ l1 \in Nat /\ l2 \in Nat
  /\ quotient \in Raw

(* A product is the exact one cut towards minus infinity, for either sign  *)
(* of either factor, whenever that is a value of the type                  *)
(* (fixedp.h:246-271).                                                     *)
MultiplyFloors ==
  pc = "product" =>
    LET exact == (numerator * denominator) \div One
    IN  exact \in Raw => quotient = exact

(* What is left and what was found so far always make up the numerator,    *)
(* and the divisor is the denominator as many times as x says              *)
(* (fixedp.h:187-201).                                                     *)
NothingLost ==
  pc \in {"double", "subtract", "lower", "done"} =>
    /\ Magnitude(numerator) = answer * Magnitude(denominator) + n
    /\ x # 0 => d = Magnitude(denominator) * x

\* a denominator whose remainders keep all their bits in the third loop
Narrow == Magnitude(denominator) <= (2 * Top) \div One

(* A quotient by a denominator that is narrow enough is the exact one cut  *)
(* towards zero, with the right sign, whenever that is a value of the type *)
(* (fixedp.h:156-221).                                                     *)
DivideTruncates ==
  pc = "done" /\ Narrow =>
    LET exact == ExactQuotient(numerator, denominator)
    IN  exact < Top => quotient = IF Negative THEN -exact ELSE exact

(* The loops compute Divide, which the rest of the library is modelled     *)
(* with, for every denominator (fixedp.h:155-222).                         *)
LoopsAreDivide == pc = "done" => quotient = Divide(numerator, denominator)

(* Every division comes to its end, whatever the operands.                 *)
Finishes == <>(pc \in {"product", "done", "thrown"})
=============================================================================
