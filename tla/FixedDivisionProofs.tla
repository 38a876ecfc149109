------------------------ MODULE FixedDivisionProofs ------------------------
(***************************************************************************)
(* What one multiplication and one division of numeric::fixed compute, for *)
(* every width and every operand.                                          *)
(***************************************************************************)
EXTENDS FixedDivision, CommonLemmas

----------------------------------------------------------------------------
(* Multiplication. *)

\* multiply is the exact product, cut down and wrapped around
LEMMA MultiplyExact ==
  ASSUME NEW a \in Int, NEW b \in Int
  PROVE  /\ (a * b) \div One \in Int
         /\ Multiply(a, b) = ToRaw((a * b) \div One)
<1>1. One \in Nat \ {0}
      BY OneAssumption
<1> QED BY <1>1, ProductByParts DEF Multiply, HighProduct, CrossProducts, Hi, Lo

\* A value of the type is not changed by being put into it.
LEMMA ToRawOfRaw ==
  ASSUME NEW v \in Raw
  PROVE  ToRaw(v) = v
<1> QED BY TopAssumption, WrapInside DEF ToRaw, Raw

\* Whatever is put into the type is a value of it.
LEMMA ToRawIsRaw ==
  ASSUME NEW v \in Int
  PROVE  ToRaw(v) \in Raw
<1> QED BY TopAssumption, WrapIntoRange DEF ToRaw, Raw

\* The same for unsigned_type.
LEMMA ToUnsignedOfUnsigned ==
  ASSUME NEW v \in Unsigned
  PROVE  ToUnsigned(v) = v
<1> DEFINE m == 2 * Top
<1>1. m \in Nat \ {0} /\ v \in Int /\ 0 \in Int /\ v = 0 * m + v /\ 0 <= v /\ v < m
      BY TopAssumption DEF Unsigned
<1> HIDE DEF m
<1>2. v % m = v
      BY <1>1, DivUnique
<1> QED BY <1>2 DEF ToUnsigned, m

----------------------------------------------------------------------------
(* The division. *)

\* The denominator without its sign, the number of which is not zero.
Divisor == Magnitude(denominator)

(* What the loops keep besides NothingLost: the rest is less than twice    *)
(* the divisor on the way back and less than the denominator at its end,   *)
(* and the third loop has nothing to do for a narrow denominator.          *)
LoopsOK ==
  /\ pc \in {"double", "subtract", "lower", "done"} => denominator # 0
  /\ pc = "double" => x # 0
  /\ pc = "subtract" => IF x = 0 THEN n < Divisor ELSE n < 2 * d
  /\ pc = "lower" => /\ n < Divisor
                     /\ l1 <= l2 /\ l2 > 0
                     /\ Narrow => l1 = n /\ l2 = Divisor

IInv == TypeOK /\ NothingLost /\ LoopsOK /\ MultiplyFloors /\ DivideTruncates

\* an operand is an integer with a magnitude below the width
LEMMA OperandsInt ==
  ASSUME NEW v \in Operands
  PROVE  /\ v \in Int /\ Magnitude(v) \in Nat /\ Magnitude(v) < Top
         /\ v # 0 => Magnitude(v) > 0
<1>1. v \in -(Top - 1) .. Top - 1 /\ Top \in Nat
      BY OperandsAssumption, TopAssumption
<1> QED BY <1>1 DEF Magnitude

\* the operations start in the invariant
LEMMA InitInv == Init => IInv
<1> SUFFICES ASSUME Init PROVE IInv
    OBVIOUS
<1>1. TypeOK
  <2>1. 0 \in Unsigned /\ 0 \in Raw
        BY TopAssumption DEF Unsigned, Raw
  <2> QED BY <2>1 DEF Init, TypeOK, Steps
<1>2. NothingLost /\ LoopsOK /\ MultiplyFloors /\ DivideTruncates
      BY DEF Init, NothingLost, LoopsOK, MultiplyFloors, DivideTruncates
<1> QED BY <1>1, <1>2 DEF IInv

\* multiply keeps the invariant
LEMMA ProductInv ==
  ASSUME IInv, Product
  PROVE  IInv'
<1> DEFINE a == numerator
           b == denominator
<1>1. a \in Int /\ b \in Int /\ a \in Operands /\ b \in Operands
      BY OperandsInt DEF IInv, TypeOK
<1>2. /\ (a * b) \div One \in Int
      /\ quotient' = ToRaw((a * b) \div One)
      BY <1>1, MultiplyExact DEF Product
<1>3. /\ pc' = "product" /\ numerator' = a /\ denominator' = b
      /\ UNCHANGED <<n, d, x, answer, l1, l2>>
      BY DEF Product, operands
<1>4. quotient' \in Raw
      BY <1>2, ToRawIsRaw
<1>5. TypeOK'
      BY <1>1, <1>3, <1>4 DEF IInv, TypeOK, Steps
<1>6. MultiplyFloors'
      BY <1>2, <1>3, ToRawOfRaw DEF MultiplyFloors
<1>7. NothingLost' /\ LoopsOK' /\ DivideTruncates'
      BY <1>3 DEF NothingLost, LoopsOK, DivideTruncates
<1> QED BY <1>5, <1>6, <1>7 DEF IInv

\* the exception keeps the invariant
LEMMA DivideByZeroInv ==
  ASSUME IInv, DivideByZero
  PROVE  IInv'
<1>1. /\ pc' = "thrown"
      /\ UNCHANGED <<numerator, denominator, n, d, x, answer, l1, l2, quotient>>
      BY DEF DivideByZero, operands
<1>2. TypeOK'
      BY <1>1 DEF IInv, TypeOK, Steps
<1>3. NothingLost' /\ LoopsOK' /\ MultiplyFloors' /\ DivideTruncates'
      BY <1>1 DEF NothingLost, LoopsOK, MultiplyFloors, DivideTruncates
<1> QED BY <1>2, <1>3 DEF IInv

\* taking the signs off keeps the invariant
LEMMA TakeSignsInv ==
  ASSUME IInv, TakeSigns
  PROVE  IInv'
<1> DEFINE A == Magnitude(numerator)
           B == Magnitude(denominator)
<1>1. /\ pc' = "double" /\ numerator' = numerator /\ denominator' = denominator
      /\ n' = A /\ d' = B /\ x' = 1 /\ answer' = 0 /\ denominator # 0
      /\ UNCHANGED <<l1, l2, quotient>>
      BY DEF TakeSigns, operands
<1>2. A \in Nat /\ B \in Nat /\ A < Top /\ B < Top
      BY OperandsInt DEF IInv, TypeOK
<1> HIDE DEF A, B
<1>3. B \in Unsigned /\ 0 \in Unsigned /\ 1 \in Powers
      BY <1>2, TopAssumption, PowersAssumption DEF Unsigned
<1>4. TypeOK'
      BY <1>1, <1>2, <1>3 DEF IInv, TypeOK, Steps
<1>5. A = 0 * B + A /\ B = B * 1
      BY <1>2, SMT
<1>6. NothingLost'
      BY <1>1, <1>5 DEF NothingLost, A, B
<1>7. LoopsOK' /\ MultiplyFloors' /\ DivideTruncates'
      BY <1>1 DEF LoopsOK, MultiplyFloors, DivideTruncates
<1> QED BY <1>4, <1>6, <1>7 DEF IInv

\* A divisor with a free top bit can be doubled, and its multiple too.
LEMMA DoubleFits ==
  ASSUME NEW b \in Nat \ {0}, NEW y \in Powers, b * y < Top
  PROVE  /\ 2 * y \in Powers /\ 2 * y \in Unsigned
         /\ 2 * (b * y) \in Unsigned /\ 2 * (b * y) = b * (2 * y)
<1>1. y \in Nat \ {0} /\ Top \in Nat
      BY PowersAssumption, TopAssumption
<1>2. y <= b * y /\ b * y \in Nat
  <2>1. b >= 0 + 1
        OBVIOUS
  <2>2. b * y >= 0 * y + y
        BY <1>1, <2>1, ProductGrows
  <2> QED BY <1>1, <2>2, SMT
<1>3. y < Top
      BY <1>1, <1>2
<1>4. 2 * y \in Powers
      BY <1>3, PowersAssumption
<1>5. 2 * y \in Unsigned /\ 2 * (b * y) \in Unsigned
      BY <1>1, <1>2, <1>3 DEF Unsigned
<1>6. 2 * (b * y) = b * (2 * y)
      BY <1>1, SMT
<1> QED BY <1>4, <1>5, <1>6

\* a round of the first loop keeps the invariant
LEMMA DoubleInv ==
  ASSUME IInv, Double
  PROVE  IInv'
<1> DEFINE B == Magnitude(denominator)
<1>1. /\ pc = "double" /\ n >= d /\ d < Top
      /\ x' = ToUnsigned(2 * x) /\ d' = ToUnsigned(2 * d)
      /\ UNCHANGED <<pc, numerator, denominator, n, answer, l1, l2, quotient>>
      BY DEF Double, GoesOn, operands
<1>2. denominator # 0 /\ x # 0 /\ d = B * x
      BY <1>1 DEF IInv, LoopsOK, NothingLost
<1>3. B \in Nat \ {0} /\ x \in Powers
      BY <1>2, OperandsInt DEF IInv, TypeOK
<1> HIDE DEF B
<1>4. /\ 2 * x \in Powers /\ 2 * x \in Unsigned
      /\ 2 * (B * x) \in Unsigned /\ 2 * (B * x) = B * (2 * x)
      BY <1>1, <1>2, <1>3, DoubleFits
<1>5. x' = 2 * x
      BY <1>1, <1>4, ToUnsignedOfUnsigned
<1>6. d' = 2 * (B * x)
      BY <1>1, <1>2, <1>4, ToUnsignedOfUnsigned
<1>7. TypeOK'
      BY <1>1, <1>4, <1>5, <1>6 DEF IInv, TypeOK
<1>8. d' = B * x' /\ x' # 0
      BY <1>4, <1>5, <1>6, PowersAssumption
<1>9. NothingLost'
      BY <1>1, <1>8 DEF IInv, NothingLost, B
<1>10. LoopsOK'
      BY <1>1, <1>2, <1>8 DEF LoopsOK
<1>11. MultiplyFloors' /\ DivideTruncates'
      BY <1>1 DEF MultiplyFloors, DivideTruncates
<1> QED BY <1>7, <1>9, <1>10, <1>11 DEF IInv

\* Of a sum of naturals equal to something below Top each part is below Top.
LEMMA PartFits ==
  ASSUME NEW a \in Nat, NEW b \in Nat \ {0}, NEW rest \in Nat, NEW whole \in Nat,
         whole = a * b + rest, whole < Top
  PROVE  a < Top /\ rest < Top /\ a \in Unsigned
<1>1. b >= 0 + 1 /\ Top \in Nat
      BY TopAssumption
<1>2. b * a >= 0 * a + a
      BY <1>1, ProductGrows
<1>3. a * b = b * a /\ a * b \in Nat
      BY SMT
<1>4. a <= a * b
      BY <1>2, <1>3, SMT
<1>5. a < Top /\ rest < Top
      BY <1>1, <1>3, <1>4, SMT
<1> QED BY <1>1, <1>5 DEF Unsigned

\* the end of the first loop keeps the invariant
LEMMA DoubleEndsInv ==
  ASSUME IInv, DoubleEnds
  PROVE  IInv'
<1> DEFINE A == Magnitude(numerator)
           B == Magnitude(denominator)
<1>1. /\ pc = "double" /\ pc' = "subtract" /\ ~(n >= d /\ d < Top)
      /\ UNCHANGED <<numerator, denominator, n, d, x, answer, l1, l2, quotient>>
      BY DEF DoubleEnds, GoesOn, operands
<1>2. denominator # 0 /\ x # 0 /\ A = answer * B + n
      BY <1>1 DEF IInv, LoopsOK, NothingLost
<1>3. A \in Nat /\ A < Top /\ B \in Nat \ {0} /\ n \in Nat /\ answer \in Nat /\ d \in Nat
      BY <1>2, OperandsInt DEF IInv, TypeOK, Unsigned
<1> HIDE DEF A, B
<1>4. n < Top
      BY <1>2, <1>3, PartFits
<1>5. n < 2 * d
      BY <1>1, <1>3, <1>4, TopAssumption
<1>6. TypeOK'
      BY <1>1 DEF IInv, TypeOK, Steps
<1>7. NothingLost' /\ MultiplyFloors' /\ DivideTruncates'
      BY <1>1 DEF IInv, NothingLost, MultiplyFloors, DivideTruncates
<1>8. LoopsOK'
      BY <1>1, <1>2, <1>5 DEF LoopsOK
<1> QED BY <1>6, <1>7, <1>8 DEF IInv

\* What a round of the second loop does to the rest and the answer.
LEMMA SubtractOnce ==
  ASSUME IInv, Subtract
  PROVE  /\ n' \in Nat /\ n' < d /\ answer' \in Unsigned
         /\ Magnitude(numerator) = answer' * Magnitude(denominator) + n'
<1> DEFINE A == Magnitude(numerator)
           B == Magnitude(denominator)
<1>1. /\ pc = "subtract" /\ x # 0
      /\ IF n >= d THEN n' = n - d /\ answer' = ToUnsigned(answer + x)
                   ELSE n' = n /\ answer' = answer
      BY DEF Subtract, Holds
<1>2. denominator # 0 /\ n < 2 * d /\ d = B * x /\ A = answer * B + n
      BY <1>1 DEF IInv, LoopsOK, NothingLost
<1>3. /\ A \in Nat /\ A < Top /\ B \in Nat \ {0} /\ n \in Nat /\ answer \in Nat /\ d \in Nat
      /\ x \in Nat /\ answer \in Unsigned
      BY <1>1, <1>2, OperandsInt, PowersAssumption DEF IInv, TypeOK, Unsigned
<1> HIDE DEF A, B
<1>4. CASE n >= d
  <2> DEFINE y == answer + x
             r == n - d
  <2>1. y \in Nat /\ r \in Nat /\ r < d
        BY <1>2, <1>3, <1>4
  <2>2. A = (answer + x) * B + (n - d)
        BY <1>2, <1>3, SMT
  <2>3. A = y * B + r
        BY <2>2
  <2> HIDE DEF y, r
  <2>4. y \in Unsigned
        BY <1>3, <2>1, <2>3, PartFits
  <2>5. answer' = y /\ n' = r
        BY <1>1, <1>4, <2>4, ToUnsignedOfUnsigned DEF y, r
  <2> QED BY <2>1, <2>3, <2>4, <2>5 DEF A, B
<1>5. CASE ~(n >= d)
      BY <1>1, <1>2, <1>3, <1>5 DEF A, B
<1> QED BY <1>4, <1>5

\* a product with a doubled factor is twice the product
LEMMA DoubledFactor ==
  ASSUME NEW b \in Nat, NEW y \in Nat
  PROVE  b * (2 * y) = 2 * (b * y) /\ b * y \in Nat
<1> QED BY SMT

\* a round of the second loop keeps the invariant
LEMMA SubtractInv ==
  ASSUME IInv, Subtract
  PROVE  IInv'
<1> DEFINE B == Magnitude(denominator)
<1>1. /\ pc = "subtract" /\ x # 0 /\ x' = x \div 2 /\ d' = d \div 2
      /\ UNCHANGED <<pc, numerator, denominator, l1, l2, quotient>>
      BY DEF Subtract, Shift, operands
<1>2. denominator # 0 /\ d = B * x
      BY <1>1 DEF IInv, LoopsOK, NothingLost
<1>3. B \in Nat \ {0} /\ x \in Powers /\ x \in Nat /\ d \in Unsigned
      BY <1>1, <1>2, OperandsInt, PowersAssumption DEF IInv, TypeOK
<1>4. d \div 2 \in Unsigned
      BY <1>3, TopAssumption DEF Unsigned
<1>5. n' \in Nat /\ n' < d /\ answer' \in Unsigned
      BY SubtractOnce
<1>6. x' \in Powers \cup {0}
      BY <1>1, <1>3, PowersAssumption
<1>7. TypeOK'
      BY <1>1, <1>4, <1>5, <1>6 DEF IInv, TypeOK
<1>8. MultiplyFloors' /\ DivideTruncates'
      BY <1>1 DEF MultiplyFloors, DivideTruncates
<1>9. Magnitude(numerator') = answer' * Magnitude(denominator') + n'
      BY <1>1, SubtractOnce
<1>10. CASE x = 1
  <2>1. x' = 0 /\ d = B
        BY <1>1, <1>2, <1>3, <1>10
  <2>2. NothingLost'
        BY <1>9, <2>1 DEF NothingLost
  <2>3. LoopsOK'
        BY <1>1, <1>2, <1>5, <2>1 DEF LoopsOK, Divisor
  <2> QED BY <1>7, <1>8, <2>2, <2>3 DEF IInv
<1>11. CASE x # 1
  <2>1. x' \in Nat \ {0} /\ x = 2 * x'
        BY <1>1, <1>3, <1>11, PowersAssumption
  <2> HIDE DEF B
  <2>2. d = 2 * (B * x') /\ B * x' \in Nat
    <3>1. d = B * (2 * x')
          BY <1>2, <2>1
    <3> QED BY <1>3, <2>1, <3>1, DoubledFactor
  <2>3. d' = B * x'
        BY <1>1, <2>2
  <2>4. NothingLost'
        BY <1>1, <1>9, <2>3 DEF NothingLost, B
  <2>5. n' < 2 * d'
        BY <1>5, <2>2, <2>3
  <2>6. LoopsOK'
        BY <1>1, <1>2, <2>1, <2>5 DEF LoopsOK
  <2> QED BY <1>7, <1>8, <2>4, <2>6 DEF IInv
<1> QED BY <1>10, <1>11

\* the end of the second loop keeps the invariant
LEMMA SubtractEndsInv ==
  ASSUME IInv, SubtractEnds
  PROVE  IInv'
<1> DEFINE A == Magnitude(numerator)
           B == Magnitude(denominator)
<1>1. /\ pc = "subtract" /\ x = 0 /\ pc' = "lower" /\ l1' = n /\ l2' = B
      /\ UNCHANGED <<numerator, denominator, n, d, x, answer, quotient>>
      BY DEF SubtractEnds, operands
<1>2. denominator # 0 /\ n < B
      BY <1>1 DEF IInv, LoopsOK, Divisor
<1>3. B \in Nat \ {0} /\ n \in Nat
      BY <1>2, OperandsInt DEF IInv, TypeOK
<1>4. TypeOK'
      BY <1>1, <1>3 DEF IInv, TypeOK, Steps
<1>5. NothingLost' /\ MultiplyFloors' /\ DivideTruncates'
      BY <1>1 DEF IInv, NothingLost, MultiplyFloors, DivideTruncates
<1>6. n <= B /\ B > 0
      BY <1>2, <1>3
<1>7. LoopsOK'
      BY <1>1, <1>2, <1>6 DEF LoopsOK, Divisor, Narrow
<1> QED BY <1>4, <1>5, <1>7 DEF IInv

\* The third loop only shifts values of at least two.
LEMMA WideIsTwo == (2 * Top) \div One \in Nat /\ (2 * Top) \div One >= 2
BY RoomIsTwo, OneAssumption, TopAssumption, WidthAssumption

\* a round of the third loop keeps the invariant
LEMMA ShiftBothInv ==
  ASSUME IInv, ShiftBoth
  PROVE  IInv'
<1> DEFINE W == (2 * Top) \div One
<1>1. /\ pc = "lower" /\ l1 >= W /\ l1' = l1 \div 2 /\ l2' = l2 \div 2
      /\ UNCHANGED <<pc, numerator, denominator, n, d, x, answer, quotient>>
      BY DEF ShiftBoth, TooWide, Overflows, operands
<1>2. /\ denominator # 0 /\ n < Divisor /\ l1 <= l2 /\ l2 > 0
      /\ Narrow => l1 = n /\ l2 = Divisor
      BY <1>1 DEF IInv, LoopsOK
<1>3. l1 \in Nat /\ l2 \in Nat /\ n \in Nat /\ Divisor \in Nat
      BY OperandsInt DEF IInv, TypeOK, Divisor
<1>4. W \in Nat /\ W >= 2
      BY WideIsTwo
<1>5. ~Narrow
  <2>1. Narrow => Divisor <= W
        BY DEF Narrow, Divisor
  <2> HIDE DEF W
  <2> QED BY <1>1, <1>2, <1>3, <1>4, <2>1
<1> HIDE DEF W
<1>6. /\ l1' \in Nat /\ l2' \in Nat /\ l1' <= l2' /\ l2' > 0
      BY <1>1, <1>2, <1>3, <1>4, SMT
<1>7. TypeOK'
      BY <1>1, <1>6 DEF IInv, TypeOK
<1>8. NothingLost' /\ MultiplyFloors' /\ DivideTruncates'
      BY <1>1 DEF IInv, NothingLost, MultiplyFloors, DivideTruncates
<1>9. Narrow' = Narrow /\ Divisor' = Divisor
      BY <1>1 DEF Narrow, Divisor
<1>10. LoopsOK'
      BY <1>1, <1>2, <1>5, <1>6, <1>9 DEF LoopsOK
<1> QED BY <1>7, <1>8, <1>10 DEF IInv

\* b goes a times into the whole and leaves a rest with room for its lower bits
Leaves(whole, a, b, rest) ==
  whole = a * b + rest /\ rest < b /\ rest < (2 * Top) \div One

\* The lower bits of a rest that has room for them: they are exact, fewer
\* than One, and make the quotient exact.
LEMMA LowerBits ==
  ASSUME NEW a \in Nat, NEW b \in Nat \ {0}, NEW rest \in Nat, NEW whole \in Nat,
         Leaves(whole, a, b, rest)
  PROVE  /\ rest * One \in Unsigned
         /\ (rest * One) \div b \in Nat
         /\ (rest * One) \div b < One
         /\ (whole * One) \div b = a * One + ((rest * One) \div b)
<1> DEFINE W == (2 * Top) \div One
           t == 2 * Top
           r == rest * One
           lo == r \div b
           s == r % b
<1> USE DEF Leaves
<1>1. One \in Nat \ {0} /\ t \in Int /\ Top \in Nat
      BY OneAssumption, TopAssumption
<1>2. W \in Int /\ t = W * One + (t % One) /\ 0 <= t % One /\ t % One \in Int
      BY <1>1, DivMod
<1>3. W * One >= rest * One + One
  <2>1. W >= rest + 1
        BY <1>2
  <2> HIDE DEF W
  <2> QED BY <1>1, <1>2, <2>1, ProductGrows
<1>4. W * One \in Int /\ rest * One \in Nat
      BY <1>1, <1>2, SMT
<1>5. rest * One < 2 * Top
  <2> HIDE DEF W
  <2> QED BY <1>1, <1>2, <1>3, <1>4, SMT
<1>6. rest * One \in Unsigned
      BY <1>1, <1>4, <1>5 DEF Unsigned
<1>7. /\ lo \in Int /\ s \in Int /\ r = lo * b + s /\ 0 <= s /\ s < b
  <2>1. r \in Int
        BY <1>4
  <2> HIDE DEF r
  <2> QED BY <2>1, DivMod
<1> HIDE DEF W, t, lo, s
<1>8. b * One >= rest * One + One
      BY <1>1, ProductGrows
<1>9. b * One = One * b /\ One * b \in Int /\ lo * b \in Int
      BY <1>1, <1>7, SMT
<1>10. ~(lo >= One)
  <2>1. SUFFICES ASSUME lo >= One PROVE FALSE
        OBVIOUS
  <2>2. lo + 1 >= One + 1 /\ lo + 1 \in Int
        BY <1>1, <1>7, <2>1
  <2>3. (lo + 1) * b >= One * b + b
        BY <1>1, <2>2, ProductGrows
  <2>4. (lo + 1) * b = lo * b + b
        BY <1>7, SMT
  <2> QED BY <1>1, <1>4, <1>7, <1>8, <1>9, <2>3, <2>4, SMT
<1>11. ~(0 >= lo + 1)
  <2>1. SUFFICES ASSUME 0 >= lo + 1 PROVE FALSE
        OBVIOUS
  <2>2. 0 * b >= lo * b + b
        BY <1>7, <2>1, ProductGrows
  <2> QED BY <1>4, <1>7, <1>9, <2>2, SMT
<1>12. lo \in Nat /\ lo < One
      BY <1>1, <1>7, <1>10, <1>11
<1>13. whole * One = (a * One) * b + rest * One
      BY <1>1, SMT
<1> DEFINE k == a * One
           v == whole * One
<1>14. k \in Int /\ r \in Int /\ v = k * b + r
      BY <1>1, <1>4, <1>13
<1> HIDE DEF k, r, v
<1>15. v \div b = k + (r \div b)
  <2>1. (k * b + r) \div b = k + (r \div b)
        BY <1>14, DivOfSum
  <2> QED BY <1>14, <2>1
<1> QED BY <1>6, <1>12, <1>15 DEF k, r, lo, v

\* the last step keeps the invariant: the quotient is the one that was promised
LEMMA FinishInv ==
  ASSUME IInv, Finish
  PROVE  IInv'
<1> DEFINE A == Magnitude(numerator)
           B == Magnitude(denominator)
           lo == ToUnsigned(l1 * One) \div l2
           u == ToRaw(Join(lo))
<1>1. /\ pc = "lower" /\ pc' = "done" /\ ~(l1 >= (2 * Top) \div One)
      /\ quotient' = IF Negative THEN ToRaw(-u) ELSE u
      /\ UNCHANGED <<numerator, denominator, n, d, x, answer, l1, l2>>
      BY DEF Finish, TooWide, Overflows, operands
<1>2. /\ denominator # 0 /\ n < B /\ l2 > 0
      /\ Narrow => l1 = n /\ l2 = B
      /\ A = answer * B + n
      BY <1>1 DEF IInv, LoopsOK, Divisor, NothingLost
<1>3. /\ A \in Nat /\ B \in Nat \ {0} /\ n \in Nat /\ answer \in Nat
      /\ l1 \in Nat /\ l2 \in Nat \ {0} /\ One \in Nat \ {0} /\ Top \in Nat \ {0}
      BY <1>2, OperandsInt, OneAssumption, TopAssumption DEF IInv, TypeOK, Unsigned
<1>4. lo \in Int
  <2>1. l1 * One \in Int /\ 2 * Top \in Nat \ {0}
        BY <1>3, SMT
  <2>2. ToUnsigned(l1 * One) \in Int
        BY <2>1, DivMod DEF ToUnsigned
  <2> QED BY <1>3, <2>2, DivMod
<1>5. Join(lo) \in Int
  <2> HIDE DEF lo
  <2>1. answer * One \in Int
        BY <1>3, SMT
  <2> QED BY <1>3, <1>4, <2>1 DEF Join, Joined
<1>6. u \in Raw /\ -u \in Int
  <2>1. u \in Raw
        BY <1>5, ToRawIsRaw
  <2> HIDE DEF u
  <2> QED BY <1>3, <2>1 DEF Raw
<1>7. quotient' \in Raw
  <2> HIDE DEF u
  <2> QED BY <1>1, <1>6, ToRawIsRaw
<1>8. TypeOK'
      BY <1>1, <1>7 DEF IInv, TypeOK, Steps
<1>9. NothingLost' /\ LoopsOK' /\ MultiplyFloors'
      BY <1>1 DEF IInv, NothingLost, LoopsOK, MultiplyFloors
<1>10. ASSUME Narrow, ExactQuotient(numerator, denominator) < Top
       PROVE  quotient' = IF Negative THEN -ExactQuotient(numerator, denominator)
                                      ELSE ExactQuotient(numerator, denominator)
  <2> DEFINE e == ExactQuotient(numerator, denominator)
             low == (n * One) \div B
  <2>1. l1 = n /\ l2 = B /\ n < (2 * Top) \div One
    <3>1. (2 * Top) \div One \in Nat
          BY WideIsTwo
    <3> QED BY <1>1, <1>2, <1>3, <1>10, <3>1
  <2>2. /\ n * One \in Unsigned /\ low \in Nat /\ low < One
        /\ (A * One) \div B = answer * One + low
    <3> HIDE DEF A, B
    <3> HIDE DEF lo, u, e, low
    <3>1. /\ A \in Nat /\ B \in Nat \ {0} /\ n \in Nat /\ answer \in Nat
          /\ Leaves(A, answer, B, n)
          BY <1>2, <1>3, <2>1 DEF Leaves
    <3>2. /\ n * One \in Unsigned
          /\ (n * One) \div B \in Nat
          /\ (n * One) \div B < One
          /\ (A * One) \div B = answer * One + ((n * One) \div B)
          BY <3>1, LowerBits
    <3> QED BY <3>2 DEF low
  <2>3. lo = low
        BY <2>1, <2>2, ToUnsignedOfUnsigned
  <2> HIDE DEF A, B
  <2>4. Join(lo) = answer * One + low
    <3> HIDE DEF lo, low
    <3>1. low # One
          BY <1>3, <2>2
    <3> QED BY <2>3, <3>1 DEF Join, Joined
  <2>5. e = answer * One + low
        BY <2>2 DEF ExactQuotient, A, B
  <2>6. e \in Nat
    <3> HIDE DEF low
    <3>1. answer * One \in Nat
          BY <1>3, SMT
    <3> HIDE DEF e
    <3> QED BY <2>2, <2>5, <3>1
  <2>7. e < Top
        BY <1>10
  <2> HIDE DEF e, low
  <2>8. e \in Raw /\ -e \in Raw
        BY <1>3, <2>6, <2>7 DEF Raw
  <2>9. u = e
        BY <2>4, <2>5, <2>8, ToRawOfRaw
  <2> HIDE DEF u
  <2>10. quotient' = IF Negative THEN -e ELSE e
        BY <1>1, <2>8, <2>9, ToRawOfRaw
  <2> QED BY <2>10 DEF e
<1>11. Narrow' = Narrow /\ Negative' = Negative
      BY <1>1 DEF Narrow, Negative
<1>12. DivideTruncates'
      BY <1>1, <1>10, <1>11 DEF DivideTruncates
<1> QED BY <1>8, <1>9, <1>12 DEF IInv

\* a step that changes nothing keeps the invariant
LEMMA StutterInv ==
  ASSUME IInv, UNCHANGED vars
  PROVE  IInv'
<1> QED BY DEF IInv, vars, TypeOK, NothingLost, LoopsOK, Divisor, MultiplyFloors, DivideTruncates, Narrow, Negative

\* every step keeps the invariant
LEMMA Inductive == IInv /\ [Next]_vars => IInv'
<1> QED BY ProductInv, DivideByZeroInv, TakeSignsInv, DoubleInv, DoubleEndsInv, SubtractInv,
           SubtractEndsInv, ShiftBothInv, FinishInv, StutterInv DEF Next

----------------------------------------------------------------------------
(* The formula for the loops. *)

\* a shift by k places divides by two as often
LEMMA TwoToDoubles == Doubling(TwoTo, One) /\ TwoTo[0] = 1
<1>1. TwoTo = CHOOSE g : Doubling(g, One)
  BY DEF TwoTo, Doubling, PowersOf
<1>2. One \in Nat
  BY OneAssumption
<1>3. Doubling(TwoTo, One)
  BY <1>1, <1>2, DoublingExists
<1>4. QED
  BY <1>2, <1>3, DoublingFacts

\* Shifts is the number of rounds after which a remainder has room.
LEMMA ShiftsAre ==
  ASSUME NEW rest \in Nat, NEW k \in 0 .. One,
         ~Overflows(rest \div TwoTo[k]), k > 0 => Overflows(rest \div TwoTo[k - 1])
  PROVE  Shifts(rest) = k
<1> DEFINE W == (2 * Top) \div One
           P(i) == BelowAfter(TwoTo, W, rest, i)
<1>1. One \in Nat /\ W \in Nat /\ Doubling(TwoTo, One)
  BY OneAssumption, WideIsTwo, TwoToDoubles
<1>2. Shifts(rest) = CHOOSE i \in 0 .. One : P(i)
  BY DEF Shifts, BelowAfter, Overflows
<1>3. P(k)
  BY DEF BelowAfter, Overflows
<1> HIDE DEF W
<1>4. \A i, j \in 0 .. One : P(i) /\ P(j) => i = j
  BY <1>1, HalvingsUnique
<1> HIDE DEF P
<1>5. QED
  BY <1>2, <1>3, <1>4

\* the third loop after k rounds
Lowered(k) ==
  /\ l1 = n \div TwoTo[k] /\ l2 = Divisor \div TwoTo[k]
  /\ k > 0 => Overflows(n \div TwoTo[k - 1])

\* What the third loop keeps: it has done some rounds, and each was needed.
Lowering == pc = "lower" => \E k \in 0 .. One : Lowered(k)

\* before the first round
LEMMA SubtractEndsLowers ==
  ASSUME IInv, SubtractEnds
  PROVE  Lowering'
<1>1. /\ l1' = n /\ l2' = Divisor
      /\ UNCHANGED <<numerator, denominator, n>>
  BY DEF SubtractEnds, operands, Divisor
<1>2. n \in Nat /\ Divisor \in Nat /\ 0 \in 0 .. One /\ TwoTo[0] = 1
  BY OperandsInt, OneAssumption, TwoToDoubles DEF IInv, TypeOK, Divisor
<1>3. n \div 1 = n /\ Divisor \div 1 = Divisor
  BY <1>2
<1>4. Divisor' = Divisor
  BY <1>1 DEF Divisor
<1>5. Lowered(0)'
  BY <1>1, <1>2, <1>3, <1>4 DEF Lowered
<1>6. QED
  BY <1>2, <1>5 DEF Lowering

\* a round of the third loop
LEMMA ShiftBothLowers ==
  ASSUME IInv, Lowering, ShiftBoth
  PROVE  Lowering'
<1>1. /\ pc = "lower" /\ Overflows(l1) /\ l1' = l1 \div 2 /\ l2' = l2 \div 2
      /\ UNCHANGED <<numerator, denominator, n>>
  BY DEF ShiftBoth, TooWide, operands
<1>2. PICK k \in 0 .. One : Lowered(k)
  BY <1>1 DEF Lowering
<1>3. n \in Nat /\ Divisor \in Nat /\ n < Top /\ One \in Nat
  <2>1. n < Divisor /\ Divisor < Top /\ Divisor \in Nat /\ n \in Nat
    BY <1>1, OperandsInt DEF IInv, TypeOK, LoopsOK, Divisor
  <2>2. QED
    BY <2>1, OneAssumption, TopAssumption
<1>4. k < One
  BY <1>1, <1>2, <1>3, FewHalvings, TwoToDoubles, OneAssumption, TopAssumption, WidthAssumption DEF Lowered, Overflows
<1>5. k \in 0 .. One - 1 /\ k + 1 \in 0 .. One /\ (k + 1) - 1 = k
  BY <1>3, <1>4
<1>6. l1' = n \div TwoTo[k + 1] /\ l2' = Divisor \div TwoTo[k + 1]
  BY <1>1, <1>2, <1>3, <1>5, HalvedOnce, TwoToDoubles DEF Lowered
<1>7. Overflows(n \div TwoTo[(k + 1) - 1])
  BY <1>1, <1>2, <1>5 DEF Lowered
<1>8. Divisor' = Divisor /\ n' = n
  BY <1>1 DEF Divisor
<1>9. Lowered(k + 1)'
  BY <1>6, <1>7, <1>8 DEF Lowered, Overflows
<1>10. QED
  BY <1>5, <1>9 DEF Lowering

\* The lower bits of a remainder with room for them stay in unsigned_type.
LEMMA RoomForBits ==
  ASSUME NEW v \in Nat, ~Overflows(v)
  PROVE  v * One \in Unsigned
<1> DEFINE W == (2 * Top) \div One
<1>1. One \in Nat \ {0} /\ Top \in Nat
  BY OneAssumption, TopAssumption
<1>2. W \in Int /\ 2 * Top = W * One + ((2 * Top) % One) /\ 0 <= (2 * Top) % One /\ (2 * Top) % One \in Int
  BY <1>1, DivMod
<1>3. W >= v + 1
  BY <1>2 DEF Overflows
<1> HIDE DEF W
<1>4. W * One >= v * One + One
  BY <1>1, <1>2, <1>3, ProductGrows
<1>5. W * One \in Int /\ v * One \in Nat
  BY <1>1, <1>2
<1>6. QED
  BY <1>1, <1>2, <1>4, <1>5 DEF Unsigned

\* the last step computes the formula
LEMMA FinishDivides ==
  ASSUME IInv, Lowering, Finish
  PROVE  LoopsAreDivide'
<1> DEFINE A == Magnitude(numerator)
           B == Magnitude(denominator)
<1>1. /\ pc = "lower" /\ ~Overflows(l1)
      /\ quotient' = LET lo == ToUnsigned(l1 * One) \div l2
                         unsigned == ToRaw(Join(lo))
                     IN  IF Negative THEN ToRaw(-unsigned) ELSE unsigned
      /\ UNCHANGED <<numerator, denominator>>
  BY DEF Finish, TooWide, operands
<1>2. /\ n < B /\ A = answer * B + n
      /\ n \in Nat /\ A \in Nat /\ B \in Nat \ {0} /\ answer \in Nat /\ l1 \in Nat
  BY <1>1, OperandsInt, TopAssumption
     DEF IInv, TypeOK, LoopsOK, NothingLost, Divisor, Unsigned
<1>3. A \div B = answer /\ A % B = n
  <2> HIDE DEF A, B
  <2>1. QED
    BY <1>2, DivUnique
<1>4. PICK k \in 0 .. One : Lowered(k)
  BY <1>1 DEF Lowering
<1>5. Shifts(n) = k
  BY <1>1, <1>2, <1>4, ShiftsAre DEF Lowered
<1>6. ToUnsigned(l1 * One) = l1 * One
  BY <1>1, <1>2, RoomForBits, ToUnsignedOfUnsigned
<1>7. l1 = n \div TwoTo[Shifts(n)] /\ l2 = B \div TwoTo[Shifts(n)]
  BY <1>4, <1>5 DEF Lowered, Divisor
<1>8. quotient' = Divide(numerator, denominator)
  BY <1>1, <1>3, <1>6, <1>7 DEF Divide, Join, Negative
<1>9. QED
  BY <1>1, <1>8 DEF LoopsAreDivide

\* the formula is what comes out of any step, and the third loop is followed
LEMMA DivideInductive == IInv /\ Lowering /\ LoopsAreDivide /\ [Next]_vars => Lowering' /\ LoopsAreDivide'
<1> SUFFICES ASSUME IInv, Lowering, LoopsAreDivide, [Next]_vars
             PROVE  Lowering' /\ LoopsAreDivide'
  OBVIOUS
<1>1. CASE SubtractEnds
  <2>1. pc' # "done"
    BY <1>1 DEF SubtractEnds
  <2>2. QED
    BY <1>1, <2>1, SubtractEndsLowers DEF LoopsAreDivide
<1>2. CASE ShiftBoth
  <2>1. pc' # "done"
    BY <1>2 DEF ShiftBoth
  <2>2. QED
    BY <1>2, <2>1, ShiftBothLowers DEF LoopsAreDivide
<1>3. CASE Finish
  <2>1. pc' # "lower"
    BY <1>3 DEF Finish
  <2>2. QED
    BY <1>3, <2>1, FinishDivides DEF Lowering
<1>4. CASE Product \/ DivideByZero \/ TakeSigns \/ Double \/ DoubleEnds \/ Subtract
  <2>1. pc' \notin {"lower", "done"}
    BY <1>4 DEF Product, DivideByZero, TakeSigns, Double, DoubleEnds, Subtract
  <2>2. QED
    BY <2>1 DEF Lowering, LoopsAreDivide
<1>5. CASE UNCHANGED vars
  BY <1>5 DEF vars, Lowering, Lowered, Divisor, LoopsAreDivide
<1>6. QED
  BY <1>1, <1>2, <1>3, <1>4, <1>5 DEF Next

----------------------------------------------------------------------------
(* The theorems. *)

(* The variables of an operation keep their types: nothing the loops       *)
(* compute leaves unsigned_type (fixedp.h:156-221, 246-271).               *)
THEOREM TypeCorrect == Spec => []TypeOK
<1>1. Init => IInv
      BY InitInv
<1>2. IInv => TypeOK
      BY DEF IInv
<1> QED BY <1>1, <1>2, Inductive, PTL DEF Spec

(* A product that is a value of the type is the exact one cut towards      *)
(* minus infinity (fixedp.h:246-271).                                      *)
THEOREM MultiplyCorrect == Spec => []MultiplyFloors
<1>1. Init => IInv
      BY InitInv
<1>2. IInv => MultiplyFloors
      BY DEF IInv
<1> QED BY <1>1, <1>2, Inductive, PTL DEF Spec

(* A quotient by a narrow denominator that is a value of the type is the   *)
(* exact one cut towards zero (fixedp.h:156-221).                          *)
THEOREM DivideCorrect == Spec => []DivideTruncates
<1>1. Init => IInv
      BY InitInv
<1>2. IInv => DivideTruncates
      BY DEF IInv
<1> QED BY <1>1, <1>2, Inductive, PTL DEF Spec

(* No round of the loops loses a part of the numerator (fixedp.h:187-201). *)
THEOREM LoopsCorrect == Spec => []NothingLost
<1>1. Init => IInv
      BY InitInv
<1>2. IInv => NothingLost
      BY DEF IInv
<1> QED BY <1>1, <1>2, Inductive, PTL DEF Spec

(* The loops compute what the rest of the library is modelled with, for    *)
(* wide denominators too, whose remainders lose bits (fixedp.h:155-222).   *)
THEOREM LoopsDivide == Spec => []LoopsAreDivide
<1>1. Init => IInv /\ Lowering /\ LoopsAreDivide
      BY InitInv DEF Init, Lowering, LoopsAreDivide
<1> QED BY <1>1, Inductive, DivideInductive, PTL DEF Spec
=============================================================================
