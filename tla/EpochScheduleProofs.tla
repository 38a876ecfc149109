------------------------ MODULE EpochScheduleProofs ------------------------
(***************************************************************************)
(* Proofs about EpochSchedule for any width of at most 64 bits and any     *)
(* schedules: nextPowerOfTwo, whose shifts fill a number with ones, finds  *)
(* the power it is named for, and so the epochs follow one another.        *)
(***************************************************************************)
EXTENDS EpochSchedule, CommonLemmas

----------------------------------------------------------------------------
(* Powers of two. *)

LEMMA BitsFacts == Bits \in Nat \ {0} /\ Bits <= 64
BY BitsAssumption

\* what a place is worth, and the next one
LEMMA PowersDouble ==
  /\ Doubling(TwoTo, Bits)
  /\ TwoTo[0] = 1
  /\ \A k \in 0 .. Bits - 1 : TwoTo[k + 1] = 2 * TwoTo[k]
  /\ \A k \in 0 .. Bits : TwoTo[k] \in Nat \ {0}
<1>1. TwoTo = CHOOSE g : Doubling(g, Bits)
  BY DEF TwoTo, Doubling, PowersOf
<1>2. Bits \in Nat
  BY BitsFacts
<1>3. Doubling(TwoTo, Bits)
  BY <1>1, <1>2, DoublingExists
<1>4. QED
  BY <1>2, <1>3, DoublingFacts

\* Two shifts are one.
LEMMA PowersMultiply ==
  ASSUME NEW i \in Nat, NEW j \in Nat, i + j <= Bits
  PROVE  TwoTo[i + j] = TwoTo[i] * TwoTo[j]
<1>1. Bits \in Nat /\ i \in 0 .. Bits /\ j \in 0 .. Bits - i
  BY BitsFacts
<1>2. PowersOf(TwoTo, 2, Bits)
  BY PowersDouble DEF Doubling
<1>3. QED
  BY <1>1, <1>2, PowersOfMultiply

\* A higher place is worth no less.
LEMMA PowersGrow ==
  ASSUME NEW i \in Nat, NEW j \in Nat, i <= j, j <= Bits
  PROVE  TwoTo[i] <= TwoTo[j]
<1> DEFINE d == j - i
<1>1. d \in Nat /\ i + d = j /\ i \in 0 .. Bits /\ d \in 0 .. Bits
  BY BitsFacts
<1> HIDE DEF d
<1>2. TwoTo[j] = TwoTo[i] * TwoTo[d] /\ TwoTo[i] \in Nat \ {0} /\ TwoTo[d] \in Nat \ {0}
  BY <1>1, PowersMultiply, PowersDouble
<1>3. 1 * TwoTo[i] <= TwoTo[d] * TwoTo[i]
  BY <1>2, ProductMonotone
<1>4. QED
  BY <1>2, <1>3

----------------------------------------------------------------------------
(* The bits of a number. *)

Numbers == 0 .. TwoTo[Bits] - 1
Places == 0 .. Bits - 1

\* a bit is zero or one
LEMMA BitTyped ==
  ASSUME NEW n \in Int, NEW k \in Places
  PROVE  n \div TwoTo[k] \in Int /\ Bit(n, k) \in {0, 1}
<1>1. TwoTo[k] \in Nat \ {0}
  BY PowersDouble, BitsFacts DEF Places
<1>2. n \div TwoTo[k] \in Int
  BY <1>1, DivMod
<1>3. QED
  BY <1>2 DEF Bit

\* f adds up the bits that b tells, each at what its place is worth
AddsUp(f, b) == f[0] = 0 /\ \A k \in Places : f[k + 1] = f[k] + b[k] * TwoTo[k]

\* There is such a function, in the form of the one Or defines.
LEMMA SumExists ==
  ASSUME NEW b \in [Places -> {0, 1}]
  PROVE  \E f : f = [k \in 0 .. Bits |-> IF k = 0 THEN 0 ELSE f[k - 1] + b[k - 1] * TwoTo[k - 1]]
<1> DEFINE h == [k \in 1 .. Bits |-> [v \in Int |-> v + b[k - 1] * TwoTo[k - 1]]]
<1>1. Bits \in Nat
  BY BitsFacts
<1>2. \A k \in 1 .. Bits : k - 1 \in Places /\ k - 1 \in 0 .. Bits
  BY <1>1 DEF Places
<1>3. \A k \in 1 .. Bits : b[k - 1] * TwoTo[k - 1] \in Int
  BY <1>2, PowersDouble
<1>4. h \in [1 .. Bits -> [Int -> Int]] /\ 0 \in Int
  BY <1>3
<1>5. \A k \in 1 .. Bits, v \in Int : h[k][v] = v + b[k - 1] * TwoTo[k - 1]
  OBVIOUS
<1> HIDE DEF h
<1>6. PICK f \in [0 .. Bits -> Int] : Iterates(f, 0, Bits, h)
  BY <1>1, <1>4, Recursion
<1>7. f[0] = 0 /\ \A k \in 1 .. Bits : f[k] = f[k - 1] + b[k - 1] * TwoTo[k - 1]
  <2>1. f[0] = 0 /\ \A k \in 1 .. Bits : f[k] = h[k][f[k - 1]]
    BY <1>6 DEF Iterates
  <2>2. \A k \in 1 .. Bits : f[k - 1] \in Int
    BY <1>2, <1>6
  <2>3. QED
    BY <1>5, <2>1, <2>2
<1>8. f = [k \in 0 .. Bits |-> IF k = 0 THEN 0 ELSE f[k - 1] + b[k - 1] * TwoTo[k - 1]]
  BY <1>1, <1>6, <1>7
<1>9. QED
  BY <1>8

\* Up to a place the sum is below what the place is worth.
LEMMA SumBelow ==
  ASSUME NEW f, NEW b \in [Places -> {0, 1}], AddsUp(f, b)
  PROVE  \A k \in 0 .. Bits : f[k] \in Nat /\ f[k] < TwoTo[k]
<1> DEFINE S == {k \in 0 .. Bits : f[k] \in Nat /\ f[k] < TwoTo[k]}
<1>1. Bits \in Nat
  BY BitsFacts
<1>2. 0 \in S
  BY <1>1, PowersDouble DEF AddsUp
<1>3. ASSUME NEW k \in 0 .. Bits - 1, k \in S
      PROVE  k + 1 \in S
  <2>1. k \in Places /\ k \in 0 .. Bits /\ k + 1 \in 0 .. Bits
    BY <1>1 DEF Places
  <2>2. TwoTo[k] \in Nat /\ TwoTo[k + 1] = 2 * TwoTo[k]
    BY <2>1, PowersDouble
  <2>3. f[k + 1] = f[k] + b[k] * TwoTo[k] /\ b[k] \in {0, 1}
    BY <2>1 DEF AddsUp
  <2>4. b[k] * TwoTo[k] = 0 \/ b[k] * TwoTo[k] = TwoTo[k]
    BY <2>2, <2>3
  <2>5. QED
    BY <1>3, <2>1, <2>2, <2>3, <2>4
<1> HIDE DEF S
<1>4. \A k \in 0 .. Bits : k \in S
  BY <1>1, <1>2, <1>3, FiniteInduction
<1>5. QED
  BY <1>4 DEF S

\* What is added above a place is a multiple of what it is worth.
LEMMA SumAbove ==
  ASSUME NEW f, NEW b \in [Places -> {0, 1}], AddsUp(f, b), NEW k \in 0 .. Bits
  PROVE  \E c \in Int : f[Bits] = f[k] + c * TwoTo[k]
<1> DEFINE m == Bits - k
           S == {d \in 0 .. m : \E c \in Int : f[k + d] = f[k] + c * TwoTo[k]}
<1>1. m \in Nat /\ k + m = Bits /\ m \in 0 .. m
  BY BitsFacts
<1>2. \A i \in 0 .. Bits : f[i] \in Int /\ TwoTo[i] \in Int
  BY SumBelow, PowersDouble
<1>3. 0 \in S
  <2>1. 0 \in Int /\ f[k + 0] = f[k] + 0 * TwoTo[k]
    BY <1>2
  <2>2. QED
    BY <1>1, <2>1
<1>4. ASSUME NEW d \in 0 .. m - 1, d \in S
      PROVE  d + 1 \in S
  <2>1. PICK c \in Int : f[k + d] = f[k] + c * TwoTo[k]
    BY <1>4
  <2>2. /\ k + d \in Places /\ k + d \in 0 .. Bits /\ d \in 0 .. Bits /\ k \in Nat /\ d \in Nat
        /\ (k + d) + 1 = k + (d + 1) /\ d + 1 \in 0 .. m
    BY BitsFacts DEF Places
  <2>3. f[k + (d + 1)] = f[k + d] + b[k + d] * TwoTo[k + d] /\ b[k + d] \in Int
    BY <2>2 DEF AddsUp
  <2>4. TwoTo[k + d] = TwoTo[k] * TwoTo[d] /\ TwoTo[d] \in Int /\ TwoTo[k] \in Int
    BY <1>2, <2>2, PowersMultiply
  <2> DEFINE e == c + b[k + d] * TwoTo[d]
  <2>5. e \in Int /\ e * TwoTo[k] = c * TwoTo[k] + b[k + d] * TwoTo[k + d]
    <3> DEFINE x == b[k + d]
               y == TwoTo[d]
               z == TwoTo[k]
    <3>1. x \in Int /\ y \in Int /\ z \in Int
      BY <2>3, <2>4
    <3> HIDE DEF x, y, z
    <3>2. c + x * y \in Int /\ (c + x * y) * z = c * z + x * (z * y)
      BY <3>1
    <3>3. QED
      BY <2>4, <3>2 DEF x, y, z
  <2>6. c * TwoTo[k] \in Int /\ b[k + d] * TwoTo[k + d] \in Int /\ f[k] \in Int
    BY <1>2, <2>2, <2>3
  <2> HIDE DEF e
  <2>7. f[k + (d + 1)] = f[k] + e * TwoTo[k]
    BY <2>1, <2>3, <2>5, <2>6
  <2>8. QED
    BY <2>2, <2>5, <2>7
<1> HIDE DEF S, m
<1>5. \A d \in 0 .. m : d \in S
  BY <1>1, <1>3, <1>4, FiniteInduction
<1>6. QED
  BY <1>1, <1>5 DEF S

\* So the sum is a number that has these bits.
LEMMA SumHasBits ==
  ASSUME NEW f, NEW b \in [Places -> {0, 1}], AddsUp(f, b)
  PROVE  f[Bits] \in Numbers /\ \A k \in Places : Bit(f[Bits], k) = b[k]
<1>1. \A k \in 0 .. Bits : f[k] \in Nat /\ f[k] < TwoTo[k] /\ TwoTo[k] \in Nat \ {0}
  BY SumBelow, PowersDouble
<1>2. f[Bits] \in Numbers
  <2>1. Bits \in 0 .. Bits
    BY BitsFacts
  <2>2. QED
    BY <1>1, <2>1 DEF Numbers
<1>3. ASSUME NEW k \in Places
      PROVE  Bit(f[Bits], k) = b[k]
  <2>1. k \in 0 .. Bits /\ k + 1 \in 0 .. Bits /\ k \in 0 .. Bits - 1
    BY BitsFacts DEF Places
  <2>2. PICK c \in Int : f[Bits] = f[k + 1] + c * TwoTo[k + 1]
    BY <2>1, SumAbove
  <2>3. f[k + 1] = f[k] + b[k] * TwoTo[k] /\ TwoTo[k + 1] = 2 * TwoTo[k]
    BY <2>1, PowersDouble DEF AddsUp
  <2> DEFINE t == TwoTo[k]
             q == 2 * c + b[k]
             r == f[k]
  <2>4. t \in Nat \ {0} /\ r \in Int /\ 0 <= r /\ r < t
    BY <1>1, <2>1
  <2>5. b[k] \in {0, 1} /\ q \in Int /\ q % 2 = b[k]
    OBVIOUS
  <2>6. f[Bits] = q * t + r
    <3> DEFINE x == b[k]
    <3>1. f[Bits] = (r + x * t) + c * (2 * t) /\ x \in Int
      BY <2>2, <2>3, <2>5
    <3> HIDE DEF t, r, x
    <3>2. (r + x * t) + c * (2 * t) = (2 * c + x) * t + r
      BY <2>4, <3>1
    <3>3. QED
      BY <3>1, <3>2 DEF x
  <2> HIDE DEF q
  <2>7. q * t + r \in Int
    BY <2>4, <2>5
  <2> DEFINE v == f[Bits]
  <2>8. v \in Int /\ v = q * t + r
    BY <2>6, <2>7
  <2> HIDE DEF v, t, r
  <2>9. v \div t = q
    BY <2>4, <2>5, <2>8, DivUnique
  <2>10. QED
    BY <2>5, <2>9 DEF Bit, v, t
<1>4. QED
  BY <1>2, <1>3

\* f adds up to x | y the bits b, which are those of both
OrAddsUp(f, b, x, y) ==
  /\ b \in [Places -> {0, 1}] /\ AddsUp(f, b) /\ f[Bits] = Or(x, y)
  /\ \A k \in Places : b[k] = IF Bit(x, k) = 1 \/ Bit(y, k) = 1 THEN 1 ELSE 0

\* x | y is the sum of the bits of both.
LEMMA OrSum ==
  ASSUME NEW x \in Int, NEW y \in Int
  PROVE  \E f, b : OrAddsUp(f, b, x, y)
<1> DEFINE b == [k \in Places |-> IF Bit(x, k) = 1 \/ Bit(y, k) = 1 THEN 1 ELSE 0]
           Step(f, k) == f[k - 1] + (IF Bit(x, k - 1) + Bit(y, k - 1) > 0 THEN TwoTo[k - 1] ELSE 0)
           Eq(f) == f = [k \in 0 .. Bits |-> IF k = 0 THEN 0 ELSE Step(f, k)]
<1>1. b \in [Places -> {0, 1}] /\ \A k \in Places : b[k] = IF Bit(x, k) = 1 \/ Bit(y, k) = 1 THEN 1 ELSE 0
  OBVIOUS
<1> HIDE DEF b
<1>2. \A k \in Places : TwoTo[k] \in Nat
  BY PowersDouble, BitsFacts DEF Places
<1>3. \A k \in Places : (IF Bit(x, k) + Bit(y, k) > 0 THEN TwoTo[k] ELSE 0) = b[k] * TwoTo[k]
  <2> SUFFICES ASSUME NEW k \in Places
               PROVE  (IF Bit(x, k) + Bit(y, k) > 0 THEN TwoTo[k] ELSE 0) = b[k] * TwoTo[k]
    OBVIOUS
  <2>1. Bit(x, k) \in {0, 1} /\ Bit(y, k) \in {0, 1} /\ TwoTo[k] \in Nat
    BY <1>2, BitTyped
  <2>2. Bit(x, k) + Bit(y, k) > 0 <=> b[k] = 1
    BY <1>1, <2>1
  <2>3. b[k] \in {0, 1} /\ 1 * TwoTo[k] = TwoTo[k] /\ 0 * TwoTo[k] = 0
    BY <1>1, <2>1
  <2>4. QED
    BY <2>2, <2>3
<1>4. \A k \in 0 .. Bits : k # 0 => k - 1 \in Places
  BY BitsFacts DEF Places
<1>5. \A f : Eq(f) <=> f = [k \in 0 .. Bits |-> IF k = 0 THEN 0 ELSE f[k - 1] + b[k - 1] * TwoTo[k - 1]]
  <2> SUFFICES ASSUME NEW f
               PROVE  [k \in 0 .. Bits |-> IF k = 0 THEN 0 ELSE Step(f, k)]
                        = [k \in 0 .. Bits |-> IF k = 0 THEN 0 ELSE f[k - 1] + b[k - 1] * TwoTo[k - 1]]
    OBVIOUS
  <2>1. \A k \in 0 .. Bits : k # 0 => Step(f, k) = f[k - 1] + b[k - 1] * TwoTo[k - 1]
    BY <1>3, <1>4
  <2> HIDE DEF Step
  <2>2. QED
    BY <2>1
<1>6. PICK f : Eq(f) /\ Or(x, y) = f[Bits]
  <2>1. \E f : Eq(f)
    <3>1. \E f : f = [k \in 0 .. Bits |-> IF k = 0 THEN 0 ELSE f[k - 1] + b[k - 1] * TwoTo[k - 1]]
      BY <1>1, SumExists
    <3> HIDE DEF Eq
    <3>2. QED
      BY <1>5, <3>1
  <2>2. Or(x, y) = (CHOOSE f : Eq(f))[Bits]
    BY Zenon DEF Or
  <2> HIDE DEF Eq
  <2>3. QED
    BY <2>1, <2>2
<1>7. f = [k \in 0 .. Bits |-> IF k = 0 THEN 0 ELSE f[k - 1] + b[k - 1] * TwoTo[k - 1]]
  <2> HIDE DEF Eq
  <2>1. QED
    BY <1>5, <1>6
<1> HIDE DEF Eq
<1>8. AddsUp(f, b)
  <2>1. 0 \in 0 .. Bits /\ \A k \in Places : k + 1 \in 0 .. Bits /\ k + 1 # 0 /\ (k + 1) - 1 = k
    BY BitsFacts DEF Places
  <2>2. \A k \in 0 .. Bits : f[k] = IF k = 0 THEN 0 ELSE f[k - 1] + b[k - 1] * TwoTo[k - 1]
    BY <1>7, Zenon
  <2>3. QED
    BY <2>1, <2>2 DEF AddsUp
<1>9. OrAddsUp(f, b, x, y)
  BY <1>1, <1>6, <1>8 DEF OrAddsUp
<1>10. QED
  BY <1>9

\* So it has the bits of both.
LEMMA OrBits ==
  ASSUME NEW x \in Int, NEW y \in Int
  PROVE  /\ Or(x, y) \in Numbers
         /\ \A k \in Places : Bit(Or(x, y), k) = IF Bit(x, k) = 1 \/ Bit(y, k) = 1 THEN 1 ELSE 0
<1>1. PICK f, b : OrAddsUp(f, b, x, y)
  BY OrSum
<1>2. /\ b \in [Places -> {0, 1}] /\ AddsUp(f, b) /\ f[Bits] = Or(x, y)
      /\ \A k \in Places : b[k] = IF Bit(x, k) = 1 \/ Bit(y, k) = 1 THEN 1 ELSE 0
  BY <1>1 DEF OrAddsUp
<1>3. f[Bits] \in Numbers /\ \A k \in Places : Bit(f[Bits], k) = b[k]
  BY <1>2, SumHasBits
<1>4. QED
  BY <1>2, <1>3

----------------------------------------------------------------------------
(* nextPowerOfTwo. *)

\* Nothing is left of a number by a shift beyond it.
LEMMA NothingLeft ==
  ASSUME NEW a \in Nat, NEW m \in Nat \ {0}
  PROVE  a \div m = 0 <=> a < m
<1>1. ASSUME a < m
      PROVE  a \div m = 0
  <2>1. a = 0 * m + a /\ 0 \in Int /\ a \in Int /\ 0 <= a
    OBVIOUS
  <2>2. QED
    BY <1>1, <2>1, DivUnique
<1>2. ASSUME a \div m = 0
      PROVE  a < m
  <2>1. a = 0 * m + (a % m) /\ a % m < m /\ a % m \in Int
    BY <1>2, DivMod
  <2>2. QED
    BY <2>1
<1>3. QED
  BY <1>1, <1>2

\* A shift moves the bits down, and none comes from above.
LEMMA ShrBits ==
  ASSUME NEW n \in Numbers, NEW j \in Nat, NEW i \in Places
  PROVE  /\ Shr(n, j) \in Nat
         /\ Bit(Shr(n, j), i) = IF i + j < Bits THEN Bit(n, i + j) ELSE 0
<1>1. Bits \in Nat /\ i \in Nat /\ i < Bits /\ i \in 0 .. Bits /\ Bits \in 0 .. Bits
  BY BitsFacts DEF Places
<1>2. \A k \in 0 .. Bits : TwoTo[k] \in Nat \ {0}
  BY PowersDouble
<1>3. n \in Nat /\ n < TwoTo[Bits]
  BY <1>1, <1>2 DEF Numbers
<1>4. CASE j >= Bits
  <2>1. Shr(n, j) = 0 /\ ~(i + j < Bits)
    BY <1>1, <1>4 DEF Shr
  <2>2. 0 \div TwoTo[i] = 0
    BY <1>1, <1>2, NothingLeft
  <2>3. QED
    BY <2>1, <2>2 DEF Bit
<1>5. CASE j < Bits
  <2> DEFINE q == n \div TwoTo[j]
  <2>1. j \in 0 .. Bits /\ Shr(n, j) = q
    BY <1>1, <1>5 DEF Shr
  <2>2. q \in Nat
    BY <1>1, <1>3, <2>1, PowersDouble, HalvedNat
  <2>3. ASSUME NEW k \in Nat, k + j <= Bits
        PROVE  q \div TwoTo[k] = n \div TwoTo[k + j]
    <3>1. k \in 0 .. Bits
      BY <1>1, <2>1, <2>3
    <3>2. q \div TwoTo[k] = n \div (TwoTo[j] * TwoTo[k])
      BY <1>2, <1>3, <2>1, <3>1, DivDiv
    <3>3. TwoTo[j + k] = TwoTo[j] * TwoTo[k] /\ j + k = k + j
      BY <2>1, <2>3, PowersMultiply
    <3>4. QED
      BY <3>2, <3>3
  <2> HIDE DEF q
  <2>4. CASE i + j < Bits
    <3>1. q \div TwoTo[i] = n \div TwoTo[i + j]
      BY <1>1, <2>3, <2>4
    <3>2. QED
      BY <2>1, <2>2, <2>4, <3>1 DEF Bit
  <2>5. CASE ~(i + j < Bits)
    <3> DEFINE k == Bits - j
    <3>1. k \in Nat /\ k + j = Bits /\ k <= i /\ i <= Bits /\ k \in 0 .. Bits
      BY <1>1, <1>5, <2>5
    <3> HIDE DEF k
    <3>2. q \div TwoTo[k] = 0
      <4>1. q \div TwoTo[k] = n \div TwoTo[Bits]
        BY <1>1, <2>3, <3>1
      <4>2. n \div TwoTo[Bits] = 0
        BY <1>1, <1>2, <1>3, NothingLeft
      <4>3. QED
        BY <4>1, <4>2
    <3>3. q < TwoTo[k] /\ TwoTo[k] <= TwoTo[i]
      BY <1>1, <1>2, <2>2, <3>1, <3>2, NothingLeft, PowersGrow
    <3>4. q \div TwoTo[i] = 0
      <4>1. q < TwoTo[i]
        BY <1>1, <1>2, <2>2, <3>1, <3>3
      <4>2. QED
        BY <1>1, <1>2, <2>2, <4>1, NothingLeft
    <3>5. QED
      BY <2>1, <2>2, <2>5, <3>4 DEF Bit
  <2>6. QED
    BY <2>4, <2>5
<1>6. QED
  BY <1>1, <1>4, <1>5

\* x has a one where n has one there or in one of the next places, m in all
Spread(x, n, m) ==
  /\ x \in Numbers
  /\ \A i \in Places :
       Bit(x, i) = 1 <=> \E j \in 0 .. m - 1 : i + j < Bits /\ Bit(n, i + j) = 1

\* Each of the shifts doubles how far the ones are spread.
LEMMA SmearSpreads ==
  ASSUME NEW n \in Numbers, NEW m \in Nat \ {0}, NEW x, Spread(x, n, m)
  PROVE  Spread(Smear(x, m), n, 2 * m)
<1> DEFINE y == Smear(x, m)
           Found(i, l) == \E j \in 0 .. l - 1 : i + j < Bits /\ Bit(n, i + j) = 1
<1>1. Bits \in Nat /\ x \in Numbers /\ \A i \in Places : Bit(x, i) = 1 <=> Found(i, m)
  BY BitsFacts DEF Spread
<1>2. x \in Int /\ m \in Nat
  BY <1>1, PowersDouble, BitsFacts DEF Numbers
<1>3. \A i \in Places : Bit(Shr(x, m), i) = IF i + m < Bits THEN Bit(x, i + m) ELSE 0
  BY <1>1, <1>2, ShrBits
<1>4. /\ y \in Numbers
      /\ \A i \in Places : Bit(y, i) = IF Bit(x, i) = 1 \/ Bit(Shr(x, m), i) = 1 THEN 1 ELSE 0
  <2>1. Shr(x, m) \in Int
    <3>1. 0 \in Places
      BY BitsFacts DEF Places
    <3>2. QED
      BY <1>1, <1>2, <3>1, ShrBits
  <2>2. QED
    BY <1>2, <2>1, OrBits DEF Smear
<1> HIDE DEF y
<1>5. ASSUME NEW i \in Places
      PROVE  Bit(y, i) = 1 <=> Found(i, 2 * m)
  <2>1. i \in Nat /\ i < Bits
    BY <1>1 DEF Places
  <2>2. Bit(y, i) = 1 <=> Found(i, m) \/ (i + m < Bits /\ Bit(x, i + m) = 1)
    <3> HIDE DEF Found
    <3>1. Bit(y, i) = 1 <=> Bit(x, i) = 1 \/ Bit(Shr(x, m), i) = 1
      BY <1>4
    <3>2. Bit(Shr(x, m), i) = 1 <=> i + m < Bits /\ Bit(x, i + m) = 1
      BY <1>3
    <3>3. QED
      BY <1>1, <3>1, <3>2
  <2>3. i + m < Bits => (Bit(x, i + m) = 1 <=> Found(i + m, m))
    <3> HIDE DEF Found
    <3>1. i + m < Bits => i + m \in Places
      BY <1>1, <1>2, <2>1 DEF Places
    <3>2. QED
      BY <1>1, <3>1
  <2>4. ASSUME Found(i, m)
        PROVE  Found(i, 2 * m)
    <3>1. PICK j \in 0 .. m - 1 : i + j < Bits /\ Bit(n, i + j) = 1
      BY <2>4
    <3>2. j \in 0 .. 2 * m - 1
      BY <1>2
    <3>3. QED
      BY <3>1, <3>2
  <2>5. ASSUME Found(i + m, m)
        PROVE  Found(i, 2 * m)
    <3>1. PICK j \in 0 .. m - 1 : (i + m) + j < Bits /\ Bit(n, (i + m) + j) = 1
      BY <2>5
    <3>2. m + j \in 0 .. 2 * m - 1 /\ (i + m) + j = i + (m + j)
      BY <1>2, <2>1
    <3>3. QED
      BY <3>1, <3>2
  <2>6. ASSUME Found(i, 2 * m)
        PROVE  Found(i, m) \/ (i + m < Bits /\ Found(i + m, m))
    <3>1. PICK j \in 0 .. 2 * m - 1 : i + j < Bits /\ Bit(n, i + j) = 1
      BY <2>6
    <3>2. CASE j < m
      <4>1. j \in 0 .. m - 1
        BY <1>2, <3>2
      <4>2. QED
        BY <3>1, <4>1
    <3>3. CASE j >= m
      <4> DEFINE k == j - m
      <4>1. k \in 0 .. m - 1 /\ (i + m) + k = i + j /\ i + m <= i + j
        BY <1>2, <2>1, <3>3
      <4> HIDE DEF k
      <4>2. i + m < Bits
        BY <1>1, <1>2, <2>1, <3>1, <4>1
      <4>3. Found(i + m, m)
        BY <3>1, <4>1
      <4>4. QED
        BY <4>2, <4>3
    <3>4. QED
      BY <1>2, <3>2, <3>3
  <2> HIDE DEF Found
  <2>7. QED
    BY <2>2, <2>3, <2>4, <2>5, <2>6
<1>6. QED
  BY <1>4, <1>5 DEF y, Spread

\* A number from 2^k on and below 2^(k + 1) has its top one at place k.
LEMMA TopBit ==
  ASSUME NEW k \in Places, NEW n \in Nat, TwoTo[k] <= n, n < TwoTo[k + 1]
  PROVE  n \in Numbers /\ Bit(n, k) = 1 /\ \A i \in Places : i > k => Bit(n, i) = 0
<1>1. Bits \in Nat /\ k \in 0 .. Bits - 1 /\ k \in 0 .. Bits /\ k + 1 \in 0 .. Bits /\ Bits \in 0 .. Bits
  BY BitsFacts DEF Places
<1>2. /\ TwoTo[k + 1] = 2 * TwoTo[k]
      /\ \A i \in 0 .. Bits : TwoTo[i] \in Nat \ {0} /\ (i > k => TwoTo[k + 1] <= TwoTo[i])
  BY <1>1, PowersDouble, PowersGrow
<1>3. n \in Numbers
  <2>1. Bits > k
    BY <1>1
  <2>2. QED
    BY <1>1, <1>2, <2>1 DEF Numbers
<1>4. Bit(n, k) = 1
  <2> DEFINE t == TwoTo[k]
             r == n - t
  <2>1. t \in Nat \ {0} /\ r \in Int /\ n = 1 * t + r /\ 0 <= r /\ r < t
    BY <1>1, <1>2
  <2> HIDE DEF t, r
  <2>2. 1 \in Int /\ n \in Int
    OBVIOUS
  <2>3. n \div t = 1
    BY <2>1, <2>2, DivUnique
  <2>4. QED
    BY <2>3 DEF Bit, t
<1>5. ASSUME NEW i \in Places, i > k
      PROVE  Bit(n, i) = 0
  <2>1. i \in 0 .. Bits
    BY <1>1 DEF Places
  <2>2. n < TwoTo[i] /\ TwoTo[i] \in Nat \ {0}
    BY <1>1, <1>2, <1>5, <2>1
  <2>3. n \div TwoTo[i] = 0
    BY <2>2, NothingLeft
  <2>4. QED
    BY <2>3 DEF Bit
<1>6. QED
  BY <1>3, <1>4, <1>5

\* Ones up to place k add up to one less than the next power.
LEMMA AllOnes ==
  ASSUME NEW f, NEW b \in [Places -> {0, 1}], AddsUp(f, b),
         NEW k \in Places, \A i \in Places : b[i] = 1 <=> i <= k
  PROVE  f[Bits] = TwoTo[k + 1] - 1
<1> DEFINE full == TwoTo[k + 1] - 1
           S == {i \in 0 .. Bits : f[i] = IF i <= k THEN TwoTo[i] - 1 ELSE full}
<1>1. Bits \in Nat \ {0} /\ k \in Nat /\ k < Bits /\ k + 1 \in 0 .. Bits
  BY BitsFacts DEF Places
<1>2. full \in Int /\ \A i \in 0 .. Bits : TwoTo[i] \in Int
  BY <1>1, PowersDouble
<1>3. 0 \in S
  BY <1>1, PowersDouble DEF AddsUp
<1>4. ASSUME NEW i \in 0 .. Bits - 1, i \in S
      PROVE  i + 1 \in S
  <2>1. i \in Places /\ i \in 0 .. Bits /\ i + 1 \in 0 .. Bits
    BY <1>1 DEF Places
  <2>2. f[i + 1] = f[i] + b[i] * TwoTo[i] /\ TwoTo[i + 1] = 2 * TwoTo[i] /\ TwoTo[i] \in Int
    BY <1>2, <2>1, PowersDouble DEF AddsUp
  <2>3. CASE i < k
    <3>1. b[i] = 1 /\ f[i] = TwoTo[i] - 1
      BY <1>1, <1>4, <2>1, <2>3
    <3>2. f[i + 1] = TwoTo[i + 1] - 1
      BY <2>2, <3>1
    <3>3. QED
      BY <1>1, <2>1, <2>3, <3>2
  <2>4. CASE i = k
    <3>1. b[i] = 1 /\ f[i] = TwoTo[i] - 1
      BY <1>1, <1>4, <2>1, <2>4
    <3>2. f[i + 1] = TwoTo[i + 1] - 1
      BY <2>2, <3>1
    <3>3. QED
      BY <1>1, <2>1, <2>4, <3>2
  <2>5. CASE i > k
    <3>1. b[i] = 0 /\ f[i] = full
      BY <1>1, <1>4, <2>1, <2>5
    <3> HIDE DEF full
    <3>2. f[i + 1] = full
      BY <1>2, <2>2, <3>1
    <3>3. QED
      BY <1>1, <2>1, <2>5, <3>2
  <2>6. QED
    BY <1>1, <2>1, <2>3, <2>4, <2>5
<1> HIDE DEF S, full
<1>5. \A i \in 0 .. Bits : i \in S
  BY <1>1, <1>3, <1>4, FiniteInduction
<1>6. Bits \in 0 .. Bits /\ ~(Bits <= k)
  BY <1>1
<1>7. QED
  BY <1>5, <1>6 DEF S, full

\* The six shifts spread the ones over 64 places.
LEMMA AllShifts ==
  ASSUME NEW n \in Numbers
  PROVE  /\ Spread(Smear(Smear(Smear(Smear(Smear(n, 1), 2), 4), 8), 16), n, 32)
         /\ Spread(Smear(Smear(Smear(Smear(Smear(Smear(n, 1), 2), 4), 8), 16), 32), n, 64)
<1> DEFINE a == Smear(n, 1)
           b == Smear(a, 2)
           c == Smear(b, 4)
           d == Smear(c, 8)
           e == Smear(d, 16)
<1>1. Spread(n, n, 1)
  <2> SUFFICES ASSUME NEW i \in Places
               PROVE  Bit(n, i) = 1
                        <=> \E j \in 0 .. 1 - 1 : i + j < Bits /\ Bit(n, i + j) = 1
    BY DEF Spread
  <2>1. i + 0 = i /\ i < Bits
    BY BitsFacts DEF Places
  <2>2. QED
    BY <2>1
<1>2. /\ 1 \in Nat \ {0} /\ 2 \in Nat \ {0} /\ 4 \in Nat \ {0} /\ 8 \in Nat \ {0}
      /\ 16 \in Nat \ {0} /\ 32 \in Nat \ {0}
      /\ 2 * 1 = 2 /\ 2 * 2 = 4 /\ 2 * 4 = 8 /\ 2 * 8 = 16 /\ 2 * 16 = 32 /\ 2 * 32 = 64
  OBVIOUS
<1>3. Spread(a, n, 2)
  <2>1. Spread(a, n, 2 * 1)
    BY <1>1, <1>2, SmearSpreads
  <2>2. QED
    BY <1>2, <2>1
<1> HIDE DEF a
<1>4. Spread(b, n, 4)
  <2>1. Spread(b, n, 2 * 2)
    BY <1>2, <1>3, SmearSpreads
  <2>2. QED
    BY <1>2, <2>1
<1> HIDE DEF b
<1>5. Spread(c, n, 8)
  <2>1. Spread(c, n, 2 * 4)
    BY <1>2, <1>4, SmearSpreads
  <2>2. QED
    BY <1>2, <2>1
<1> HIDE DEF c
<1>6. Spread(d, n, 16)
  <2>1. Spread(d, n, 2 * 8)
    BY <1>2, <1>5, SmearSpreads
  <2>2. QED
    BY <1>2, <2>1
<1> HIDE DEF d
<1>7. Spread(e, n, 32)
  <2>1. Spread(e, n, 2 * 16)
    BY <1>2, <1>6, SmearSpreads
  <2>2. QED
    BY <1>2, <2>1
<1> HIDE DEF e
<1>8. Spread(Smear(e, 32), n, 64)
  <2>1. Spread(Smear(e, 32), n, 2 * 32)
    BY <1>2, <1>7, SmearSpreads
  <2>2. QED
    BY <1>2, <2>1
<1>9. QED
  BY <1>7, <1>8 DEF a, b, c, d, e

\* So nextPowerOfTwo finds the next power of two.
LEMMA NextPower ==
  ASSUME NEW k \in Places, NEW n \in Nat, TwoTo[k] <= n, n < TwoTo[k + 1]
  PROVE  nextPowerOfTwo(n + 1) = TwoTo[k + 1]
<1> DEFINE e == Smear(Smear(Smear(Smear(Smear(n, 1), 2), 4), 8), 16)
           y == Smear(e, 32)
<1>1. n \in Numbers /\ Bit(n, k) = 1 /\ \A i \in Places : i > k => Bit(n, i) = 0
  BY TopBit
<1>2. Spread(e, n, 32) /\ Spread(y, n, 64)
  BY <1>1, AllShifts
<1>3. nextPowerOfTwo(n + 1) = y + 1
  <2>1. n + 1 # 0 /\ Predecessor(n + 1) = n
    BY DEF Predecessor
  <2>2. QED
    BY <2>1 DEF nextPowerOfTwo
<1>4. \E f, b : OrAddsUp(f, b, e, Shr(e, 32))
  <2>1. e \in Int /\ Shr(e, 32) \in Int
    <3>1. e \in Numbers /\ 0 \in Places /\ 32 \in Nat
      BY <1>2, BitsFacts DEF Spread, Places
    <3>2. Shr(e, 32) \in Nat
      BY <3>1, ShrBits
    <3>3. QED
      BY <3>1, <3>2, PowersDouble, BitsFacts DEF Numbers
  <2>2. QED
    BY <2>1, OrSum
<1> HIDE DEF e
<1>5. PICK f, b : OrAddsUp(f, b, e, Shr(e, 32))
  BY <1>4
<1>6. /\ b \in [Places -> {0, 1}] /\ AddsUp(f, b) /\ f[Bits] = y
  BY <1>5 DEF OrAddsUp, Smear
<1> HIDE DEF y
<1>7. \A i \in Places : b[i] = Bit(y, i)
  BY <1>6, SumHasBits
<1>8. ASSUME NEW i \in Places
      PROVE  b[i] = 1 <=> i <= k
  <2>1. i \in Nat /\ k \in Nat /\ i < Bits /\ k < Bits /\ Bits \in Nat /\ Bits <= 64
    BY BitsFacts DEF Places
  <2>2. b[i] = 1 <=> \E j \in 0 .. 64 - 1 : i + j < Bits /\ Bit(n, i + j) = 1
    BY <1>2, <1>7, ZenonT(60) DEF Spread
  <2>3. ASSUME i <= k
        PROVE  \E j \in 0 .. 64 - 1 : i + j < Bits /\ Bit(n, i + j) = 1
    <3>1. k - i \in 0 .. 64 - 1 /\ i + (k - i) = k
      BY <2>1, <2>3
    <3>2. QED
      BY <1>1, <2>1, <3>1
  <2>4. ASSUME ~(i <= k), NEW j \in 0 .. 64 - 1, i + j < Bits
        PROVE  Bit(n, i + j) # 1
    <3>1. i + j \in Places /\ i + j > k
      BY <2>1, <2>4 DEF Places
    <3>2. QED
      BY <1>1, <3>1
  <2>5. QED
    BY <2>2, <2>3, <2>4
<1>9. f[Bits] = TwoTo[k + 1] - 1
  BY <1>6, <1>8, AllOnes
<1>10. TwoTo[k + 1] \in Int
  BY PowersDouble, BitsFacts DEF Places
<1>11. QED
  BY <1>3, <1>6, <1>9, <1>10

----------------------------------------------------------------------------
(* trailingZeros. *)

\* It finds the exponent of a power of two.
LEMMA TrailingPower ==
  ASSUME NEW k \in 0 .. Bits
  PROVE  trailingZeros(TwoTo[k]) = k
<1> DEFINE P(j) == ~(TwoTo[k] \div TwoTo[j] > 1) /\ (j > 0 => TwoTo[k] \div TwoTo[j - 1] > 1)
<1>1. Bits \in Nat /\ Doubling(TwoTo, Bits) /\ \A j \in 0 .. Bits : TwoTo[j] \in Nat \ {0}
  BY BitsFacts, PowersDouble
<1>2. ASSUME NEW j \in 0 .. Bits
      PROVE  P(j) <=> BelowAfter(TwoTo, 2, TwoTo[k], j)
  <2>1. TwoTo[k] \div TwoTo[j] \in Int
    BY <1>1, DivMod
  <2>2. j > 0 => TwoTo[k] \div TwoTo[j - 1] \in Int
    <3>1. j > 0 => j - 1 \in 0 .. Bits
      BY <1>1
    <3>2. QED
      BY <1>1, <3>1, DivMod
  <2>3. QED
    BY <2>1, <2>2 DEF BelowAfter
<1>3. P(k)
  <2>1. TwoTo[k] \div TwoTo[k] = 1
    <3> DEFINE t == TwoTo[k]
    <3>1. t \in Nat \ {0} /\ t = 1 * t + 0 /\ 1 \in Int /\ 0 \in Int /\ t \in Int
      BY <1>1
    <3> HIDE DEF t
    <3>2. t \div t = 1
      BY <3>1, DivUnique
    <3>3. QED
      BY <3>2 DEF t
  <2>2. ASSUME k > 0
        PROVE  TwoTo[k] \div TwoTo[k - 1] = 2
    <3> DEFINE t == TwoTo[k - 1]
               a == TwoTo[k]
    <3>1. k - 1 \in 0 .. Bits - 1 /\ k - 1 \in 0 .. Bits /\ (k - 1) + 1 = k
      BY <1>1, <2>2
    <3>2. a = 2 * t /\ t \in Nat \ {0}
      BY <1>1, <3>1, PowersDouble
    <3> HIDE DEF t, a
    <3>3. a = 2 * t + 0 /\ 2 \in Int /\ 0 \in Int /\ a \in Int
      BY <3>2
    <3>4. a \div t = 2
      BY <3>2, <3>3, DivUnique
    <3>5. QED
      BY <3>4 DEF t, a
  <2>3. QED
    BY <2>1, <2>2
<1>4. ASSUME NEW j \in 0 .. Bits, P(j)
      PROVE  j = k
  <2>1. 2 \in Nat /\ TwoTo[k] \in Nat
    BY <1>1
  <2>2. BelowAfter(TwoTo, 2, TwoTo[k], j) /\ BelowAfter(TwoTo, 2, TwoTo[k], k)
    BY <1>2, <1>3, <1>4
  <2>3. QED
    BY <1>1, <2>1, <2>2, HalvingsUnique
<1>5. trailingZeros(TwoTo[k]) = CHOOSE j \in 0 .. Bits : P(j)
  BY DEF trailingZeros
<1> HIDE DEF P
<1>6. QED
  BY <1>3, <1>4, <1>5

----------------------------------------------------------------------------
(* Epochs. *)

\* what is known of the schedule
LEMMA ScheduleFacts ==
  ASSUME schedule \in Schedules
  PROVE  /\ schedule.firstNormalEpoch \in Nat /\ schedule.firstNormalEpoch + 5 < Bits
         /\ schedule.firstNormalSlot = (TwoTo[schedule.firstNormalEpoch] - 1) * 32
         /\ schedule.slotsPerEpoch \in Nat \ {0}
         /\ Bits \in Nat /\ MINIMUM_SLOT_PER_EPOCH = 32
         /\ TwoTo[5] = 32 /\ trailingZeros(32) = 5
<1>1. /\ schedule.firstNormalEpoch \in Nat /\ schedule.firstNormalEpoch + 5 < Bits
      /\ schedule.firstNormalSlot = (TwoTo[schedule.firstNormalEpoch] - 1) * 32
      /\ schedule.slotsPerEpoch \in Nat \ {0}
      /\ Bits \in Nat /\ MINIMUM_SLOT_PER_EPOCH = 32
  BY SchedulesAssumption, BitsFacts DEF MINIMUM_SLOT_PER_EPOCH
<1>2. TwoTo[5] = 32
  <2>1. /\ 0 \in 0 .. Bits - 1 /\ 1 \in 0 .. Bits - 1 /\ 2 \in 0 .. Bits - 1
        /\ 3 \in 0 .. Bits - 1 /\ 4 \in 0 .. Bits - 1
        /\ 0 + 1 = 1 /\ 1 + 1 = 2 /\ 2 + 1 = 3 /\ 3 + 1 = 4 /\ 4 + 1 = 5
    BY <1>1
  <2>2. TwoTo[0] = 1 /\ TwoTo[1] = 2 * TwoTo[0] /\ TwoTo[2] = 2 * TwoTo[1]
    BY <2>1, PowersDouble
  <2>3. TwoTo[3] = 2 * TwoTo[2] /\ TwoTo[4] = 2 * TwoTo[3] /\ TwoTo[5] = 2 * TwoTo[4]
    BY <2>1, PowersDouble
  <2>4. QED
    BY <2>2, <2>3
<1>3. trailingZeros(32) = 5
  <2>1. 5 \in 0 .. Bits
    BY <1>1
  <2>2. QED
    BY <1>2, <2>1, TrailingPower
<1>4. QED
  BY <1>1, <1>2, <1>3

\* A warm-up epoch, from its first slot on.
LEMMA WarmupFirst ==
  ASSUME schedule \in Schedules, NEW e \in Nat, e <= schedule.firstNormalEpoch
  PROVE  /\ e \in 0 .. Bits /\ e + 5 \in 0 .. Bits /\ e + 5 < Bits
         /\ TwoTo[e] \in Nat \ {0} /\ TwoTo[e + 5] = 32 * TwoTo[e]
         /\ getFirstSlotInEpoch(e) = 32 * TwoTo[e] - 32
<1>1. e \in 0 .. Bits /\ e + 5 \in 0 .. Bits /\ e + 5 < Bits /\ 5 \in Nat /\ e + 5 <= Bits
  BY ScheduleFacts
<1>2. TwoTo[e] \in Nat \ {0} /\ TwoTo[e + 5] = TwoTo[e] * TwoTo[5] /\ TwoTo[5] = 32
  BY <1>1, PowersDouble, PowersMultiply, ScheduleFacts
<1>3. getFirstSlotInEpoch(e) = (TwoTo[e] - 1) * 32
  BY ScheduleFacts DEF getFirstSlotInEpoch
<1>4. QED
  BY <1>1, <1>2, <1>3

\* A normal epoch, from its first slot on.
LEMMA NormalFirst ==
  ASSUME schedule \in Schedules, NEW e \in Nat, e >= schedule.firstNormalEpoch
  PROVE  /\ schedule.firstNormalSlot \in Nat
         /\ getFirstSlotInEpoch(e)
              = (e - schedule.firstNormalEpoch) * schedule.slotsPerEpoch + schedule.firstNormalSlot
         /\ getSlotsInEpoch(e) = schedule.slotsPerEpoch
<1> DEFINE E == schedule.firstNormalEpoch
           L == schedule.slotsPerEpoch
           F == schedule.firstNormalSlot
<1>1. E \in Nat /\ L \in Nat \ {0} /\ E <= E
  BY ScheduleFacts
<1>2. F = getFirstSlotInEpoch(E) /\ F = 32 * TwoTo[E] - 32 /\ TwoTo[E] \in Nat \ {0}
  <2>1. getFirstSlotInEpoch(E) = F
    BY <1>1, ScheduleFacts DEF getFirstSlotInEpoch
  <2>2. QED
    BY <1>1, <2>1, WarmupFirst
<1>3. F \in Nat
  BY <1>2
<1>4. getFirstSlotInEpoch(e) = (e - E) * L + F
  <2>1. CASE e = E
    <3>1. e - E = 0 /\ 0 * L = 0 /\ 0 + F = F
      BY <1>1, <1>3, <2>1
    <3>2. (e - E) * L + F = F
      BY <3>1
    <3>3. QED
      BY <1>2, <2>1, <3>2
  <2>2. CASE e # E
    <3>1. ~(e <= E)
      BY <1>1, <2>2
    <3>2. QED
      BY <3>1 DEF getFirstSlotInEpoch
  <2>3. QED
    BY <2>1, <2>2
<1>5. getSlotsInEpoch(e) = L
  BY DEF getSlotsInEpoch, IsNormal
<1>6. QED
  BY <1>3, <1>4, <1>5

\* An epoch begins where the one before it ends.
LEMMA EpochsAdjoin ==
  ASSUME schedule \in Schedules, NEW e \in Nat
  PROVE  /\ getFirstSlotInEpoch(e) \in Nat /\ getSlotsInEpoch(e) \in Nat \ {0}
         /\ getFirstSlotInEpoch(e + 1) = getFirstSlotInEpoch(e) + getSlotsInEpoch(e)
<1> DEFINE E == schedule.firstNormalEpoch
           L == schedule.slotsPerEpoch
           F == schedule.firstNormalSlot
<1>1. E \in Nat /\ L \in Nat \ {0}
  BY ScheduleFacts
<1>2. CASE e < E
  <2>1. e <= E /\ e + 1 <= E /\ e + 1 \in Nat
    BY <1>1, <1>2
  <2>2. /\ getFirstSlotInEpoch(e) = 32 * TwoTo[e] - 32
        /\ TwoTo[e] \in Nat \ {0} /\ e \in 0 .. Bits - 1
        /\ TwoTo[e + 5] = 32 * TwoTo[e]
    BY <2>1, WarmupFirst, ScheduleFacts
  <2>3. getFirstSlotInEpoch(e + 1) = 32 * TwoTo[e + 1] - 32
    BY <2>1, WarmupFirst
  <2>4. TwoTo[e + 1] = 2 * TwoTo[e]
    BY <2>2, PowersDouble
  <2>5. getSlotsInEpoch(e) = TwoTo[e + 5]
    <3>1. ~(e >= E)
      BY <1>1, <1>2
    <3>2. QED
      BY <3>1, ScheduleFacts DEF getSlotsInEpoch, IsNormal
  <2>6. QED
    BY <2>2, <2>3, <2>4, <2>5
<1>3. CASE e >= E
  <2>1. e + 1 >= E /\ e + 1 \in Nat
    BY <1>1, <1>3
  <2>2. /\ F \in Nat /\ getFirstSlotInEpoch(e) = (e - E) * L + F /\ getSlotsInEpoch(e) = L
        /\ getFirstSlotInEpoch(e + 1) = ((e + 1) - E) * L + F
    BY <1>3, <2>1, NormalFirst
  <2>3. (e - E) * L \in Nat /\ ((e + 1) - E) * L = (e - E) * L + L
    <3> DEFINE k == e - E
    <3>1. k \in Nat /\ (e + 1) - E = k + 1
      BY <1>1, <1>3
    <3> HIDE DEF k, L
    <3>2. k * L \in Nat /\ (k + 1) * L = k * L + L
      BY <1>1, <3>1
    <3>3. QED
      BY <3>1, <3>2 DEF k
  <2> HIDE DEF E, L, F
  <2>4. QED
    BY <1>1, <2>2, <2>3
<1>4. QED
  BY <1>1, <1>2, <1>3

\* The first epochs are over before the first normal slot.
LEMMA WarmupBefore ==
  ASSUME schedule \in Schedules, NEW e \in Nat, e < schedule.firstNormalEpoch
  PROVE  getFirstSlotInEpoch(e) + getSlotsInEpoch(e) <= schedule.firstNormalSlot
<1> DEFINE E == schedule.firstNormalEpoch
<1>1. E \in Nat /\ e + 1 \in Nat /\ e + 1 <= E /\ E <= E
  BY ScheduleFacts
<1>2. /\ getFirstSlotInEpoch(e + 1) = 32 * TwoTo[e + 1] - 32 /\ TwoTo[e + 1] \in Nat
      /\ TwoTo[E] \in Nat /\ E <= Bits
  BY <1>1, WarmupFirst
<1>3. TwoTo[e + 1] <= TwoTo[E]
  BY <1>1, <1>2, PowersGrow
<1>4. schedule.firstNormalSlot = (TwoTo[E] - 1) * 32
  BY ScheduleFacts
<1>5. QED
  BY <1>2, <1>3, <1>4, EpochsAdjoin

\* What is computed of a slot is its epoch, and its place there.
LEMMA InfoIs ==
  ASSUME schedule \in Schedules, NEW e \in Nat, NEW x \in 0 .. getSlotsInEpoch(e) - 1
  PROVE  getEpochAndSlotIndex(getFirstSlotInEpoch(e) + x) = <<e, x>>
<1> DEFINE E == schedule.firstNormalEpoch
           L == schedule.slotsPerEpoch
           F == schedule.firstNormalSlot
           s == getFirstSlotInEpoch(e) + x
<1>1. E \in Nat /\ L \in Nat \ {0} /\ MINIMUM_SLOT_PER_EPOCH = 32 /\ trailingZeros(32) = 5
  BY ScheduleFacts
<1>2. getFirstSlotInEpoch(e) \in Nat /\ getSlotsInEpoch(e) \in Nat \ {0} /\ x \in Nat
  BY EpochsAdjoin
<1>3. CASE e < E
  <2> DEFINE k == e + 5
             n == s + 32
  <2>1. /\ k \in 0 .. Bits /\ k < Bits /\ TwoTo[e] \in Nat \ {0} /\ TwoTo[k] = 32 * TwoTo[e]
        /\ getFirstSlotInEpoch(e) = 32 * TwoTo[e] - 32
    BY <1>1, <1>3, WarmupFirst
  <2>2. getSlotsInEpoch(e) = TwoTo[k]
    <3>1. ~(e >= E)
      BY <1>1, <1>3
    <3>2. QED
      BY <1>1, <3>1 DEF getSlotsInEpoch, IsNormal
  <2>3. k \in Places /\ k + 1 \in 0 .. Bits /\ TwoTo[k + 1] = 2 * TwoTo[k] /\ k + 1 = e + 6
    <3>1. k \in Places /\ k + 1 \in 0 .. Bits /\ k \in 0 .. Bits - 1 /\ k + 1 = e + 6
      BY <2>1, BitsFacts DEF Places
    <3>2. QED
      BY <3>1, PowersDouble
  <2>4. n = TwoTo[k] + x /\ n \in Nat /\ TwoTo[k] <= n /\ n < TwoTo[k + 1]
    BY <1>2, <2>1, <2>2, <2>3
  <2>5. s \in Nat /\ s + 32 + 1 = n + 1
    BY <1>2
  <2>6. s < F
    <3>1. getFirstSlotInEpoch(e) + getSlotsInEpoch(e) <= F
      BY <1>3, WarmupBefore
    <3>2. F \in Int
      BY <1>1, ScheduleFacts, NormalFirst
    <3>3. QED
      BY <1>2, <3>1, <3>2
  <2> HIDE DEF n, k
  <2>7. WarmupEpoch(s) = e
    <3>1. nextPowerOfTwo(n + 1) = TwoTo[k + 1]
      BY <2>3, <2>4, NextPower
    <3>2. trailingZeros(TwoTo[k + 1]) = k + 1
      BY <2>3, TrailingPower
    <3>3. WarmupEpoch(s) = trailingZeros(nextPowerOfTwo(s + 32 + 1)) - trailingZeros(32) - 1
      BY <1>1 DEF WarmupEpoch
    <3>4. WarmupEpoch(s) = (e + 6) - 5 - 1
      BY <1>1, <2>3, <2>5, <3>1, <3>2, <3>3
    <3>5. QED
      BY <3>4
  <2>8. getEpochAndSlotIndex(s) = <<e, s - (TwoTo[k] - 32)>>
    <3> HIDE DEF s
    <3>1. QED
      BY <1>1, <2>2, <2>6, <2>7 DEF getEpochAndSlotIndex
  <2>9. s - (TwoTo[k] - 32) = x
    BY <1>2, <2>1
  <2>10. QED
    BY <2>8, <2>9
<1>4. CASE e >= E
  <2> DEFINE q == e - E
             a == s - F
  <2>1. /\ F \in Nat /\ getFirstSlotInEpoch(e) = q * L + F /\ getSlotsInEpoch(e) = L
    BY <1>4, NormalFirst
  <2>2. q \in Nat /\ E + q = e
    BY <1>1, <1>4
  <2>3. q * L \in Nat
    <3> HIDE DEF q, L
    <3>1. QED
      BY <1>1, <2>2
  <2>4. a = q * L + x /\ a \in Nat /\ ~(s < F) /\ 0 <= x /\ x < L
    <3> DEFINE p == q * L
               g == getFirstSlotInEpoch(e)
    <3>1. p \in Nat /\ F \in Nat /\ g = p + F /\ x \in Nat /\ x < L
      BY <1>1, <1>2, <2>1, <2>3
    <3> HIDE DEF p, F, g, L
    <3>2. (g + x) - F = p + x /\ ~(g + x < F)
      BY <3>1
    <3>3. QED
      BY <3>1, <3>2 DEF p, g, L, F
  <2>5. getEpochAndSlotIndex(s) = <<E + (a \div L), a % L>>
    <3> HIDE DEF s
    <3>1. QED
      BY <2>4 DEF getEpochAndSlotIndex
  <2> HIDE DEF a, q, s, E, L, F
  <2>6. a \div L = q /\ a % L = x
    <3>1. L \in Nat \ {0} /\ q \in Int /\ x \in Int /\ a \in Int
      BY <1>1, <1>2, <2>2, <2>4
    <3>2. QED
      BY <2>4, <3>1, DivUnique
  <2>7. QED
    BY <2>2, <2>5, <2>6 DEF s
<1>5. QED
  BY <1>1, <1>3, <1>4

----------------------------------------------------------------------------
(* The clock. *)

\* The slot is one of an epoch.
InEpoch ==
  /\ schedule \in Schedules
  /\ \E e \in Nat : \E x \in 0 .. getSlotsInEpoch(e) - 1 : slot = getFirstSlotInEpoch(e) + x

\* So it is found there.
LEMMA SlotFound == InEpoch => SlotInItsEpoch
<1> SUFFICES ASSUME InEpoch
             PROVE  SlotInItsEpoch
  OBVIOUS
<1>1. schedule \in Schedules
  BY DEF InEpoch
<1>2. PICK e \in Nat : \E x \in 0 .. getSlotsInEpoch(e) - 1 : slot = getFirstSlotInEpoch(e) + x
  BY DEF InEpoch
<1>3. PICK x \in 0 .. getSlotsInEpoch(e) - 1 : slot = getFirstSlotInEpoch(e) + x
  BY <1>2
<1>4. getEpochAndSlotIndex(slot) = <<e, x>>
  BY <1>1, <1>3, InfoIs
<1>5. getFirstSlotInEpoch(e) \in Nat /\ getSlotsInEpoch(e) \in Nat
  BY <1>1, EpochsAdjoin
<1>6. getLastSlotInEpoch(e) = getFirstSlotInEpoch(e) + getSlotsInEpoch(e) - 1
  BY DEF getLastSlotInEpoch
<1>7. /\ getFirstSlotInEpoch(e) <= slot /\ slot <= getLastSlotInEpoch(e)
      /\ x = slot - getFirstSlotInEpoch(e)
  BY <1>3, <1>5, <1>6
<1>8. QED
  BY <1>4, <1>7 DEF SlotInItsEpoch

\* the step of EpochsFollow
Follows ==
  LET now == getEpochAndSlotIndex(slot)
      then == getEpochAndSlotIndex(slot + 1)
  IN  \/ then = <<now[1], now[2] + 1>> /\ then[2] < getSlotsInEpoch(then[1])
      \/ then = <<now[1] + 1, 0>> /\ now[2] + 1 = getSlotsInEpoch(now[1])

\* The next slot is the next of the epoch, or the first of the next.
LEMMA NextFollows ==
  ASSUME InEpoch
  PROVE  /\ Follows
         /\ \E e \in Nat : \E x \in 0 .. getSlotsInEpoch(e) - 1 : slot + 1 = getFirstSlotInEpoch(e) + x
<1>1. schedule \in Schedules
  BY DEF InEpoch
<1>2. PICK e \in Nat : \E x \in 0 .. getSlotsInEpoch(e) - 1 : slot = getFirstSlotInEpoch(e) + x
  BY DEF InEpoch
<1>3. PICK x \in 0 .. getSlotsInEpoch(e) - 1 : slot = getFirstSlotInEpoch(e) + x
  BY <1>2
<1>4. getEpochAndSlotIndex(slot) = <<e, x>>
  BY <1>1, <1>3, InfoIs
<1>5. /\ getFirstSlotInEpoch(e) \in Nat /\ getSlotsInEpoch(e) \in Nat \ {0}
      /\ getFirstSlotInEpoch(e + 1) = getFirstSlotInEpoch(e) + getSlotsInEpoch(e)
      /\ e + 1 \in Nat /\ getSlotsInEpoch(e + 1) \in Nat \ {0}
  BY <1>1, EpochsAdjoin
<1>6. CASE x + 1 < getSlotsInEpoch(e)
  <2>1. x + 1 \in 0 .. getSlotsInEpoch(e) - 1 /\ slot + 1 = getFirstSlotInEpoch(e) + (x + 1)
    BY <1>3, <1>5, <1>6
  <2>2. getEpochAndSlotIndex(slot + 1) = <<e, x + 1>>
    BY <1>1, <2>1, InfoIs
  <2>3. Follows
    BY <1>4, <1>6, <2>2 DEF Follows
  <2>4. QED
    BY <2>1, <2>3
<1>7. CASE ~(x + 1 < getSlotsInEpoch(e))
  <2>1. /\ x + 1 = getSlotsInEpoch(e) /\ 0 \in 0 .. getSlotsInEpoch(e + 1) - 1
        /\ slot + 1 = getFirstSlotInEpoch(e + 1) + 0
    BY <1>3, <1>5, <1>7
  <2>2. getEpochAndSlotIndex(slot + 1) = <<e + 1, 0>>
    BY <1>1, <1>5, <2>1, InfoIs
  <2>3. Follows
    BY <1>4, <2>1, <2>2 DEF Follows
  <2>4. QED
    BY <1>5, <2>1, <2>3
<1>8. QED
  BY <1>6, <1>7

(* The clock starts in epoch zero and every step leads to a slot of an     *)
(* epoch again: the invariant of both theorems below (solana.hpp:102-147). *)
THEOREM InEpochCorrect == Spec => []InEpoch
<1>1. Init => InEpoch
  <2> SUFFICES ASSUME Init
               PROVE  InEpoch
    OBVIOUS
  <2>1. schedule \in Schedules /\ slot = 0
    BY DEF Init
  <2>2. getFirstSlotInEpoch(0) = 0 /\ getSlotsInEpoch(0) \in Nat \ {0}
    <3>1. 0 \in Nat /\ 0 <= schedule.firstNormalEpoch
      BY <2>1, ScheduleFacts
    <3>2. getFirstSlotInEpoch(0) = 32 * TwoTo[0] - 32 /\ TwoTo[0] = 1
      BY <2>1, <3>1, WarmupFirst, PowersDouble
    <3>3. QED
      BY <2>1, <3>1, <3>2, EpochsAdjoin
  <2>3. 0 \in 0 .. getSlotsInEpoch(0) - 1 /\ slot = getFirstSlotInEpoch(0) + 0 /\ 0 \in Nat
    BY <2>1, <2>2
  <2>4. QED
    BY <2>1, <2>3 DEF InEpoch
<1>2. InEpoch /\ [NextSlot]_vars => InEpoch'
  <2> SUFFICES ASSUME InEpoch, [NextSlot]_vars
               PROVE  InEpoch'
    OBVIOUS
  <2>1. CASE NextSlot
    <3>1. schedule' = schedule /\ slot' = slot + 1
      BY <2>1 DEF NextSlot
    <3>2. PICK e \in Nat : \E x \in 0 .. getSlotsInEpoch(e) - 1 : slot + 1 = getFirstSlotInEpoch(e) + x
      BY NextFollows
    <3>3. PICK x \in 0 .. getSlotsInEpoch(e) - 1 : slot + 1 = getFirstSlotInEpoch(e) + x
      BY <3>2
    <3>4. (x \in 0 .. getSlotsInEpoch(e) - 1)' /\ (slot = getFirstSlotInEpoch(e) + x)'
      BY <3>1, <3>3 DEF getSlotsInEpoch, getFirstSlotInEpoch, IsNormal
    <3>5. (schedule \in Schedules)'
      BY <3>1 DEF InEpoch
    <3>6. QED
      BY <3>4, <3>5 DEF InEpoch
  <2>2. CASE UNCHANGED vars
    BY <2>2 DEF vars, InEpoch, getSlotsInEpoch, getFirstSlotInEpoch, IsNormal
  <2>3. QED
    BY <2>1, <2>2
<1>3. QED
  BY <1>1, <1>2, PTL DEF Spec

(* Every slot lies in the epoch it is said to lie in, at the index it is   *)
(* said to have (solana.hpp:102-147).                                      *)
THEOREM SlotCorrect == Spec => []SlotInItsEpoch
<1>1. InEpoch => SlotInItsEpoch
  BY SlotFound
<1>2. QED
  BY <1>1, InEpochCorrect, PTL

(* No slot is skipped or counted twice where an epoch ends                 *)
(* (solana.hpp:102-127).                                                   *)
THEOREM EpochsFollowCorrect == Spec => EpochsFollow
<1>1. InEpoch /\ [NextSlot]_vars => [Follows]_vars
  BY NextFollows
<1>2. QED
  BY <1>1, InEpochCorrect, PTL DEF Spec, EpochsFollow, Follows
=============================================================================
