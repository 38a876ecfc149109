---------------------------- MODULE CommonLemmas ----------------------------
(***************************************************************************)
(* Facts that the proofs about several components need: induction and      *)
(* recursion, the division and the wrapping around of integers, and what   *)
(* shifting down leaves.                                                   *)
(***************************************************************************)
EXTENDS Integers, FiniteSetTheorems, TLAPS

----------------------------------------------------------------------------
(* Induction.  The library states it of a property, an operator, which the  *)
(* provers cannot instantiate; here it is stated of a set.                  *)

(* A set of naturals has a least element: among the intervals 1 .. n of its *)
(* elements one is minimal for strict inclusion.                            *)
LEMMA LeastElement ==
  ASSUME NEW S \in SUBSET Nat, S # {}
  PROVE  \E m \in S : \A k \in S : m <= k
<1> DEFINE T == {1 .. n : n \in S}
           R == StrictSubsetOrdering(Nat)
<1>1. T \subseteq FiniteSubsetsOf(Nat) /\ T # {}
  <2>1. \A n \in S : 1 .. n \in FiniteSubsetsOf(Nat)
    BY FS_Interval DEF FiniteSubsetsOf
  <2>2. T \subseteq FiniteSubsetsOf(Nat)
    BY <2>1
  <2>3. PICK n \in S : TRUE
    OBVIOUS
  <2>4. 1 .. n \in T
    BY <2>3
  <2>5. QED
    BY <2>2, <2>4
<1>2. PICK x \in T : \A y \in T : ~(<<y, x>> \in R)
  <2> HIDE DEF T, R
  <2>1. IsWellFoundedOn(R, FiniteSubsetsOf(Nat))
    BY FS_StrictSubsetOrderingWellFounded DEF R
  <2>2. QED
    BY <1>1, <2>1, WFMin
<1>3. PICK m \in S : x = 1 .. m
  OBVIOUS
<1>4. ASSUME NEW k \in S, k < m
      PROVE  FALSE
  <2>1. 1 .. k \in SUBSET Nat /\ 1 .. m \in SUBSET Nat
    OBVIOUS
  <2>2. 1 .. k \subseteq 1 .. m /\ m \in 1 .. m /\ m \notin 1 .. k
    BY <1>4
  <2>3. <<1 .. k, 1 .. m>> \in R
    BY <2>1, <2>2 DEF StrictSubsetOrdering
  <2>4. QED
    BY <1>2, <1>3, <2>3
<1>5. QED
  BY <1>4

(* Induction, for the set of the numbers that have the property.            *)
LEMMA SetInduction ==
  ASSUME NEW S, 0 \in S, \A n \in Nat : n \in S => n + 1 \in S
  PROVE  \A n \in Nat : n \in S
<1> SUFFICES ASSUME NEW n \in Nat, n \notin S
             PROVE  FALSE
  OBVIOUS
<1> DEFINE T == {k \in Nat : k \notin S}
<1>1. T \in SUBSET Nat /\ T # {}
  OBVIOUS
<1>2. PICK m \in T : \A k \in T : m <= k
  <2> HIDE DEF T
  <2>1. QED BY <1>1, LeastElement
<1>3. m # 0 /\ m - 1 \in Nat /\ m - 1 \notin T
  BY <1>2
<1>4. QED
  BY <1>3

(* Induction up to a bound.                                                 *)
LEMMA FiniteInduction ==
  ASSUME NEW m \in Nat, NEW S, 0 \in S, \A n \in 0 .. m - 1 : n \in S => n + 1 \in S
  PROVE  \A n \in 0 .. m : n \in S
<1> DEFINE T == {n \in Nat : n <= m => n \in S}
<1>1. 0 \in T /\ \A n \in Nat : n \in T => n + 1 \in T
  OBVIOUS
<1>2. \A n \in Nat : n \in T
  <2> HIDE DEF T
  <2>1. QED BY <1>1, SetInduction
<1>3. QED
  BY <1>2

\* g starts with z, and h gives each value from the one before it
Iterates(g, z, n, h) == g[0] = z /\ \A k \in 1 .. n : g[k] = h[k][g[k - 1]]

\* A function defined by recursion exists.
LEMMA Recursion ==
  ASSUME NEW V, NEW z \in V, NEW n \in Nat, NEW h \in [1 .. n -> [V -> V]]
  PROVE  \E g \in [0 .. n -> V] : Iterates(g, z, n, h)
<1> USE DEF Iterates
<1> DEFINE S == {m \in 0 .. n : \E g \in [0 .. m -> V] : g[0] = z /\ \A k \in 1 .. m : g[k] = h[k][g[k - 1]]}
<1>1. 0 \in S
  <2> DEFINE g == [k \in 0 .. 0 |-> z]
  <2>1. g \in [0 .. 0 -> V] /\ g[0] = z /\ \A k \in 1 .. 0 : g[k] = h[k][g[k - 1]]
    OBVIOUS
  <2> HIDE DEF g
  <2>2. QED
    BY <2>1
<1>2. ASSUME NEW m \in 0 .. n - 1, m \in S
      PROVE  m + 1 \in S
  <2>1. PICK g \in [0 .. m -> V] : g[0] = z /\ \A k \in 1 .. m : g[k] = h[k][g[k - 1]]
    BY <1>2
  <2>2. m \in Nat /\ m + 1 \in 1 .. n /\ h[m + 1][g[m]] \in V
    OBVIOUS
  <2> DEFINE x == h[m + 1][g[m]]
             more == [k \in 0 .. m + 1 |-> IF k <= m THEN g[k] ELSE x]
  <2>3. \A k \in 0 .. m : g[k] \in V
    OBVIOUS
  <2>4. /\ more \in [0 .. m + 1 -> V] /\ more[m + 1] = x
        /\ \A k \in 0 .. m : more[k] = g[k]
    <3> HIDE DEF x
    <3>1. x \in V
      BY <2>2 DEF x
    <3>2. QED
      BY <2>2, <2>3, <3>1
  <2> HIDE DEF more
  <2>5. ASSUME NEW k \in 1 .. m + 1
        PROVE  more[k] = h[k][more[k - 1]]
    <3>1. k \in 1 .. m \/ k = m + 1
      BY <2>2
    <3>2. k - 1 \in 0 .. m
      BY <2>2
    <3>3. CASE k \in 1 .. m
      BY <2>1, <2>4, <3>2, <3>3
    <3>4. CASE k = m + 1
      BY <2>2, <2>4, <3>2, <3>4
    <3>5. QED
      BY <3>1, <3>3, <3>4
  <2>6. more[0] = z
    BY <2>1, <2>2, <2>4
  <2>7. QED
    BY <2>2, <2>4, <2>5, <2>6
<1>3. n \in S
  <2>1. \A m \in 0 .. n : m \in S
    <3> HIDE DEF S
    <3>1. QED
      BY <1>1, <1>2, FiniteInduction
  <2>2. QED
    BY <2>1
<1>4. QED
  BY <1>3

\* The same between any two numbers.
LEMMA RangeInduction ==
  ASSUME NEW a \in Int, NEW b \in Int, NEW S, a \in S,
         \A k \in a .. b - 1 : k \in S => k + 1 \in S
  PROVE  \A k \in a .. b : k \in S
<1> SUFFICES ASSUME a <= b
             PROVE  \A k \in a .. b : k \in S
  OBVIOUS
<1> DEFINE n == b - a
           T == {d \in 0 .. n : a + d \in S}
<1>1. n \in Nat /\ 0 \in T
  OBVIOUS
<1>2. ASSUME NEW d \in 0 .. n - 1, d \in T
      PROVE  d + 1 \in T
  <2>1. a + d \in a .. b - 1 /\ (a + d) + 1 = a + (d + 1) /\ d + 1 \in 0 .. n
    BY <1>1
  <2>2. a + d \in S
    BY <1>2
  <2>3. (a + d) + 1 \in S
    BY <2>1, <2>2
  <2>4. QED
    BY <2>1, <2>3
<1> HIDE DEF T
<1>3. \A d \in 0 .. n : d \in T
  BY <1>1, <1>2, FiniteInduction
<1>4. ASSUME NEW k \in a .. b
      PROVE  k \in S
  <2>1. k - a \in 0 .. n /\ a + (k - a) = k
    OBVIOUS
  <2>2. k - a \in T
    BY <1>3, <2>1
  <2>3. QED
    BY <2>1, <2>2 DEF T
<1>5. QED
  BY <1>4

\* And downwards.
LEMMA BackInduction ==
  ASSUME NEW n \in Nat, NEW S, n + 1 \in S, \A j \in 1 .. n : j + 1 \in S => j \in S
  PROVE  \A j \in 1 .. n + 1 : j \in S
<1> DEFINE T == {d \in 0 .. n : (n + 1) - d \in S}
<1>1. 0 \in T
  OBVIOUS
<1>2. ASSUME NEW d \in 0 .. n - 1, d \in T
      PROVE  d + 1 \in T
  <2>1. (n + 1) - (d + 1) \in 1 .. n /\ ((n + 1) - (d + 1)) + 1 = (n + 1) - d /\ d + 1 \in 0 .. n
    OBVIOUS
  <2>2. (n + 1) - d \in S
    BY <1>2
  <2>3. (n + 1) - (d + 1) \in S
    BY <2>1, <2>2
  <2>4. QED
    BY <2>1, <2>3
<1> HIDE DEF T
<1>3. \A d \in 0 .. n : d \in T
  BY <1>1, <1>2, FiniteInduction
<1>4. ASSUME NEW j \in 1 .. n + 1
      PROVE  j \in S
  <2>1. (n + 1) - j \in 0 .. n /\ (n + 1) - ((n + 1) - j) = j
    OBVIOUS
  <2>2. (n + 1) - j \in T
    BY <1>3, <2>1
  <2>3. QED
    BY <2>1, <2>2 DEF T
<1>5. QED
  BY <1>4

\* g comes from z by steps of h from n down
IteratesBack(g, z, n, h) == g[n + 1] = z /\ \A j \in 1 .. n : g[j] = h[j][g[j + 1]]

\* A function defined by recursion from its last argument down exists, too.
LEMMA BackRecursion ==
  ASSUME NEW V, NEW z \in V, NEW n \in Nat, NEW h \in [1 .. n -> [V -> V]]
  PROVE  \E g \in [1 .. n + 1 -> V] : IteratesBack(g, z, n, h)
<1> USE DEF IteratesBack
<1> DEFINE e == [k \in 1 .. n |-> h[(n + 1) - k]]
<1>1. e \in [1 .. n -> [V -> V]] /\ \A k \in 1 .. n : e[k] = h[(n + 1) - k]
  OBVIOUS
<1> HIDE DEF e
<1>2. PICK f \in [0 .. n -> V] : Iterates(f, z, n, e)
  BY <1>1, Recursion
<1> DEFINE g == [j \in 1 .. n + 1 |-> f[(n + 1) - j]]
<1>3. \A j \in 1 .. n + 1 : (n + 1) - j \in 0 .. n
  OBVIOUS
<1>4. g \in [1 .. n + 1 -> V] /\ \A j \in 1 .. n + 1 : g[j] = f[(n + 1) - j]
  BY <1>2, <1>3
<1> HIDE DEF g
<1>5. g[n + 1] = z
  BY <1>2, <1>4 DEF Iterates
<1>6. ASSUME NEW j \in 1 .. n
      PROVE  g[j] = h[j][g[j + 1]]
  <2> DEFINE k == (n + 1) - j
  <2>1. k \in 1 .. n /\ (n + 1) - k = j /\ k - 1 = (n + 1) - (j + 1) /\ j + 1 \in 1 .. n + 1 /\ j \in 1 .. n + 1
    OBVIOUS
  <2>2. g[j] = f[k] /\ g[j + 1] = f[k - 1]
    BY <1>4, <2>1
  <2> HIDE DEF k
  <2>3. f[k] = e[k][f[k - 1]] /\ e[k] = h[j]
    BY <1>1, <1>2, <2>1 DEF Iterates
  <2>4. QED
    BY <2>2, <2>3
<1>7. QED
  BY <1>4, <1>5, <1>6

\* g comes from z by steps of h between a and b
IteratesFrom(g, z, a, b, h) == g[a] = z /\ \A k \in a + 1 .. b : g[k] = h[k][g[k - 1]]

\* So does one between any two numbers.
LEMMA RangeRecursion ==
  ASSUME NEW V, NEW z \in V, NEW a \in Int, NEW b \in Int, a <= b,
         NEW h \in [a + 1 .. b -> [V -> V]]
  PROVE  \E g \in [a .. b -> V] : IteratesFrom(g, z, a, b, h)
<1> USE DEF IteratesFrom
<1> DEFINE n == b - a
           e == [k \in 1 .. n |-> h[a + k]]
<1>1. n \in Nat /\ \A k \in 1 .. n : a + k \in a + 1 .. b
  OBVIOUS
<1>2. e \in [1 .. n -> [V -> V]] /\ \A k \in 1 .. n : e[k] = h[a + k]
  BY <1>1
<1> HIDE DEF e, n
<1>3. PICK f \in [0 .. n -> V] : Iterates(f, z, n, e)
  BY <1>1, <1>2, Recursion
<1> DEFINE g == [k \in a .. b |-> f[k - a]]
<1>4. \A k \in a .. b : k - a \in 0 .. n
  BY DEF n
<1>5. g \in [a .. b -> V] /\ \A k \in a .. b : g[k] = f[k - a]
  BY <1>3, <1>4
<1> HIDE DEF g
<1>6. g[a] = z
  <2>1. a \in a .. b /\ a - a = 0
    OBVIOUS
  <2>2. QED
    BY <1>3, <1>5, <2>1 DEF Iterates
<1>7. ASSUME NEW k \in a + 1 .. b
      PROVE  g[k] = h[k][g[k - 1]]
  <2> DEFINE d == k - a
  <2>1. d \in 1 .. n /\ a + d = k /\ d - 1 = (k - 1) - a /\ k - 1 \in a .. b /\ k \in a .. b
    BY DEF n
  <2>2. g[k] = f[d] /\ g[k - 1] = f[d - 1]
    BY <1>5, <2>1
  <2> HIDE DEF d
  <2>3. f[d] = e[d][f[d - 1]] /\ e[d] = h[k]
    BY <1>2, <1>3, <2>1 DEF Iterates
  <2>4. QED
    BY <2>2, <2>3
<1>8. QED
  BY <1>5, <1>6, <1>7

----------------------------------------------------------------------------
(* Integers. *)

\* A product grows with its first factor.
LEMMA ProductGrows ==
  ASSUME NEW p \in Int, NEW q \in Int, NEW m \in Nat, p >= q + 1
  PROVE  p * m >= q * m + m
<1>1. PICK k \in Nat : p = q + 1 + k
      BY SMT
<1>2. p * m = q * m + m + k * m
      BY <1>1, SMT
<1>3. k * m >= 0
      BY <1>1, SMT
<1> QED BY <1>2, <1>3, SMT

\* Quotient and remainder make up the number.
LEMMA DivMod ==
  ASSUME NEW a \in Int, NEW m \in Nat \ {0}
  PROVE  /\ a \div m \in Int /\ a % m \in Int
         /\ a = (a \div m) * m + (a % m) /\ 0 <= a % m /\ a % m < m
<1> QED BY SMTT(30)

\* They are the only ones that do.
LEMMA DivUnique ==
  ASSUME NEW q \in Int, NEW r \in Int, NEW m \in Nat \ {0}, NEW a \in Int,
         a = q * m + r, 0 <= r, r < m
  PROVE  a \div m = q /\ a % m = r
<1> DEFINE p == a \div m
           s == a % m
<1>1. p \in Int /\ s \in Int /\ a = p * m + s /\ 0 <= s /\ s < m
      BY DivMod
<1> HIDE DEF p, s
<1>2. ~(p >= q + 1)
  <2>1. SUFFICES ASSUME p >= q + 1 PROVE FALSE
        OBVIOUS
  <2>2. p * m >= q * m + m
        BY <1>1, <2>1, ProductGrows, SMT
  <2>3. p * m \in Int /\ q * m \in Int
        BY <1>1, SMT
  <2> QED BY <1>1, <2>2, <2>3, SMT
<1>3. ~(q >= p + 1)
  <2>1. SUFFICES ASSUME q >= p + 1 PROVE FALSE
        OBVIOUS
  <2>2. q * m >= p * m + m
        BY <1>1, <2>1, ProductGrows, SMT
  <2>3. p * m \in Int /\ q * m \in Int
        BY <1>1, SMT
  <2> QED BY <1>1, <2>2, <2>3, SMT
<1>4. p = q
      BY <1>1, <1>2, <1>3, SMT
<1>5. s = r
      BY <1>1, <1>4, SMT
<1> QED BY <1>4, <1>5 DEF p, s

\* A multiple of the divisor comes through a division whole.
LEMMA DivOfSum ==
  ASSUME NEW k \in Int, NEW r \in Int, NEW m \in Nat \ {0}
  PROVE  (k * m + r) \div m = k + (r \div m)
<1> DEFINE q == r \div m
           s == r % m
<1>1. q \in Int /\ s \in Int /\ r = q * m + s /\ 0 <= s /\ s < m
      BY DivMod
<1> HIDE DEF q, s
<1>2. k * m + r = (k + q) * m + s
      BY <1>1, SMT
<1>3. k * m + r \in Int /\ k + q \in Int
      BY <1>1, SMT
<1> DEFINE a == k * m + r
           b == k + q
<1>4. a \in Int /\ b \in Int /\ a = b * m + s
      BY <1>2, <1>3
<1> HIDE DEF a, b
<1>5. a \div m = b
      BY <1>1, <1>4, DivUnique
<1> QED BY <1>5 DEF a, b, q

\* Cutting the fraction of the product of the fractions is cutting the
\* fraction of the product.
LEMMA SplitProduct ==
  ASSUME NEW ah \in Int, NEW al \in Int, NEW bh \in Int, NEW bl \in Int, NEW m \in Nat
  PROVE  (ah * m + al) * (bh * m + bl)
           = (ah * bh * m + (al * bh + ah * bl)) * m + al * bl
<1> QED BY SMTT(30)

(* Multiplying two numbers by their integer and fractional parts, of which *)
(* only the product of the fractions is cut, is cutting the product.       *)
LEMMA ProductByParts ==
  ASSUME NEW a \in Int, NEW b \in Int, NEW m \in Nat \ {0}
  PROVE  /\ (a * b) \div m \in Int
         /\ (a * b) \div m
              = (a \div m) * (b \div m) * m + ((a % m) * (b \div m) + (a \div m) * (b % m))
                  + (((a % m) * (b % m)) \div m)
<1> DEFINE ah == a \div m
           al == a % m
           bh == b \div m
           bl == b % m
           k == ah * bh * m + (al * bh + ah * bl)
           r == al * bl
<1>1. ah \in Int /\ al \in Int /\ a = ah * m + al
  BY DivMod
<1>2. bh \in Int /\ bl \in Int /\ b = bh * m + bl
  BY DivMod
<1> HIDE DEF ah, al, bh, bl
<1>3. a * b = k * m + r
  BY <1>1, <1>2, SplitProduct
<1>4. k \in Int /\ r \in Int
  BY <1>1, <1>2
<1> HIDE DEF k, r
<1>5. (k * m + r) \div m = k + (r \div m)
  BY <1>4, DivOfSum
<1>6. a * b \in Int
  OBVIOUS
<1>7. (a * b) \div m \in Int
  BY <1>6, DivMod
<1>8. (a * b) \div m = k + (r \div m)
  BY <1>3, <1>5
<1>9. QED
  BY <1>7, <1>8 DEF ah, al, bh, bl, k, r

\* A number of a type is not changed by being put into it.
LEMMA WrapInside ==
  ASSUME NEW t \in Nat \ {0}, NEW v \in -t .. t - 1
  PROVE  ((v + t) % (2 * t)) - t = v
<1> DEFINE a == v + t
           m == 2 * t
<1>1. a \in Int /\ m \in Nat \ {0} /\ a = 0 * m + a /\ 0 <= a /\ a < m /\ 0 \in Int
  OBVIOUS
<1>2. a % m = a
  <2> HIDE DEF a, m
  <2>1. QED BY <1>1, DivUnique
<1>3. QED
  BY <1>2

\* Whatever is put into the type is a number of it.
LEMMA WrapIntoRange ==
  ASSUME NEW t \in Nat \ {0}, NEW v \in Int
  PROVE  ((v + t) % (2 * t)) - t \in -t .. t - 1
<1>1. v + t \in Int /\ 2 * t \in Nat \ {0}
  OBVIOUS
<1> DEFINE r == (v + t) % (2 * t)
<1>2. r \in Int /\ 0 <= r /\ r < 2 * t
  BY <1>1, DivMod
<1> HIDE DEF r
<1>3. r - t \in -t .. t - 1
  BY <1>2
<1>4. QED
  BY <1>3 DEF r

\* Cutting keeps the order.
LEMMA CutMonotone ==
  ASSUME NEW a \in Int, NEW b \in Int, NEW m \in Nat \ {0}, a <= b
  PROVE  a \div m <= b \div m
<1> DEFINE p == a \div m
           q == b \div m
<1>1. p \in Int /\ a = p * m + (a % m) /\ 0 <= a % m /\ a % m \in Int
  BY DivMod
<1>2. q \in Int /\ b = q * m + (b % m) /\ b % m < m /\ b % m \in Int
  BY DivMod
<1> HIDE DEF p, q
<1>3. SUFFICES ASSUME p >= q + 1
               PROVE  FALSE
  BY <1>1, <1>2 DEF p, q
<1>4. p * m >= q * m + m
  BY <1>1, <1>2, <1>3, ProductGrows
<1>5. p * m \in Int /\ q * m \in Int
  BY <1>1, <1>2
<1>6. QED
  BY <1>1, <1>2, <1>4, <1>5

\* A product keeps the order of its first factors.
LEMMA ProductMonotone ==
  ASSUME NEW a \in Int, NEW b \in Int, NEW w \in Nat, a <= b
  PROVE  a * w <= b * w
<1>1. PICK k \in Nat : b = a + k
  <2>1. b - a \in Nat /\ b = a + (b - a)
    OBVIOUS
  <2>2. QED
    BY <2>1
<1>2. b * w = a * w + k * w
  BY <1>1
<1>3. k * w \in Nat /\ a * w \in Int
  BY <1>1
<1>4. QED
  BY <1>2, <1>3

\* Cutting twice is cutting once: a number is shifted down in parts.
LEMMA DivDiv ==
  ASSUME NEW a \in Int, NEW m \in Nat \ {0}, NEW n \in Nat \ {0}
  PROVE  (a \div m) \div n = a \div (m * n)
<1> DEFINE q == a \div m
           r == a % m
           p == q \div n
           s == q % n
           t == s * m + r
           d == m * n
<1>1. q \in Int /\ r \in Int /\ a = q * m + r /\ 0 <= r /\ r < m
  BY DivMod
<1> HIDE DEF q, r
<1>2. p \in Int /\ s \in Int /\ q = p * n + s /\ 0 <= s /\ s < n
  BY <1>1, DivMod
<1> HIDE DEF p, s
<1>3. d \in Nat \ {0}
  OBVIOUS
<1>4. a = p * d + t
  <2>1. q * m = p * (m * n) + s * m
    BY <1>1, <1>2
  <2>2. q * m \in Int /\ p * (m * n) \in Int /\ s * m \in Int
    BY <1>1, <1>2
  <2>3. QED
    BY <1>1, <2>1, <2>2
<1>5. t \in Int /\ 0 <= t /\ t < d
  <2>1. 0 * m <= s * m /\ s * m <= (n - 1) * m
    BY <1>2, ProductMonotone
  <2>2. 0 * m = 0 /\ (n - 1) * m = m * n - m /\ s * m \in Int /\ m * n \in Int
    BY <1>2
  <2>3. QED
    BY <1>1, <2>1, <2>2
<1> HIDE DEF t, d
<1>6. a \div d = p
  BY <1>2, <1>3, <1>4, <1>5, DivUnique
<1>7. QED
  BY <1>6 DEF p, q, d

\* So is halving.
LEMMA DivTwice ==
  ASSUME NEW a \in Int, NEW m \in Nat \ {0}
  PROVE  (a \div m) \div 2 = a \div (2 * m)
<1>1. 2 \in Nat \ {0} /\ m * 2 = 2 * m
  OBVIOUS
<1>2. QED
  BY <1>1, DivDiv

----------------------------------------------------------------------------
(* Powers, and halving: a number that is shifted down a place at a time     *)
(* until it is below a limit.                                               *)

\* f[k] is b to the k
PowersOf(f, b, m) == f = [k \in 0 .. m |-> IF k = 0 THEN 1 ELSE b * f[k - 1]]

\* There is such a function.
LEMMA PowersOfExist ==
  ASSUME NEW b \in Nat \ {0}, NEW m \in Nat
  PROVE  \E f : PowersOf(f, b, m)
<1> DEFINE V == Nat \ {0}
           h == [k \in 1 .. m |-> [v \in V |-> b * v]]
<1>1. h \in [1 .. m -> [V -> V]] /\ 1 \in V
  <2>1. \A v \in V : b * v \in V
    OBVIOUS
  <2> HIDE DEF V
  <2>2. 1 \in V
    BY DEF V
  <2>3. QED
    BY <2>1, <2>2
<1>2. \A k \in 1 .. m, v \in V : h[k][v] = b * v
  OBVIOUS
<1> HIDE DEF V, h
<1>3. PICK g \in [0 .. m -> V] : Iterates(g, 1, m, h)
  BY <1>1, Recursion
<1>4. \A k \in 1 .. m : g[k] = b * g[k - 1]
  BY <1>2, <1>3 DEF Iterates
<1>5. PowersOf(g, b, m)
  BY <1>3, <1>4 DEF PowersOf, Iterates
<1>6. QED
  BY <1>5

\* Its values are positive, and one more place is a factor of b.
LEMMA PowersOfFacts ==
  ASSUME NEW b \in Nat \ {0}, NEW m \in Nat, NEW f, PowersOf(f, b, m)
  PROVE  /\ f[0] = 1
         /\ \A k \in 0 .. m - 1 : f[k + 1] = b * f[k]
         /\ \A k \in 0 .. m : f[k] \in Nat \ {0}
<1>1. \A k \in 0 .. m : f[k] = IF k = 0 THEN 1 ELSE b * f[k - 1]
  BY Zenon DEF PowersOf
<1>2. 0 \in 0 .. m /\ \A k \in 0 .. m - 1 : k + 1 \in 0 .. m /\ k + 1 # 0 /\ (k + 1) - 1 = k
  OBVIOUS
<1>3. f[0] = 1 /\ \A k \in 0 .. m - 1 : f[k + 1] = b * f[k]
  BY <1>1, <1>2
<1> DEFINE S == {k \in 0 .. m : f[k] \in Nat \ {0}}
<1>4. 0 \in S
  BY <1>3
<1>5. ASSUME NEW k \in 0 .. m - 1, k \in S
      PROVE  k + 1 \in S
  <2>1. f[k] \in Nat \ {0} /\ k + 1 \in 0 .. m /\ f[k + 1] = b * f[k]
    BY <1>3, <1>5
  <2>2. QED
    BY <2>1
<1> HIDE DEF S
<1>6. \A k \in 0 .. m : k \in S
  BY <1>4, <1>5, FiniteInduction
<1>7. QED
  BY <1>3, <1>6 DEF S

\* The product of two powers is the power of the sum.
LEMMA PowersOfMultiply ==
  ASSUME NEW b \in Nat \ {0}, NEW m \in Nat, NEW f, PowersOf(f, b, m), NEW j \in 0 .. m
  PROVE  \A k \in 0 .. m - j : f[j] * f[k] = f[j + k]
<1> DEFINE S == {k \in 0 .. m - j : f[j] * f[k] = f[j + k]}
<1>1. f[0] = 1 /\ f[j] \in Nat
  BY PowersOfFacts
<1>2. 0 \in S
  BY <1>1
<1>3. ASSUME NEW k \in 0 .. (m - j) - 1, k \in S
      PROVE  k + 1 \in S
  <2>1. k \in 0 .. m - 1 /\ j + k \in 0 .. m - 1 /\ k \in 0 .. m /\ j + (k + 1) = (j + k) + 1
        /\ k + 1 \in 0 .. m - j
    OBVIOUS
  <2>2. f[k + 1] = b * f[k] /\ f[(j + k) + 1] = b * f[j + k] /\ f[k] \in Nat
    BY <2>1, PowersOfFacts
  <2>3. f[j] * f[k] = f[j + k]
    BY <1>3
  <2>4. f[j] * (b * f[k]) = b * (f[j] * f[k])
    BY <1>1, <2>2
  <2>5. QED
    BY <2>1, <2>2, <2>3, <2>4
<1> HIDE DEF S
<1>4. m - j \in Nat
  OBVIOUS
<1>5. \A k \in 0 .. m - j : k \in S
  BY <1>2, <1>3, <1>4, FiniteInduction
<1>6. QED
  BY <1>5 DEF S

\* f[k] is what a shift by k places divides by
Doubling(f, m) == PowersOf(f, 2, m)

\* There is such a function.
LEMMA DoublingExists ==
  ASSUME NEW m \in Nat
  PROVE  \E f : Doubling(f, m)
BY PowersOfExist DEF Doubling

\* Its values are positive, and larger than their places.
LEMMA DoublingFacts ==
  ASSUME NEW m \in Nat, NEW f, Doubling(f, m)
  PROVE  /\ f[0] = 1
         /\ \A k \in 0 .. m - 1 : f[k + 1] = 2 * f[k]
         /\ \A k \in 0 .. m : f[k] \in Nat \ {0} /\ k < f[k]
<1>1. \A k \in 0 .. m : f[k] = IF k = 0 THEN 1 ELSE 2 * f[k - 1]
  BY Zenon DEF Doubling, PowersOf
<1>2. 0 \in 0 .. m /\ \A k \in 0 .. m - 1 : k + 1 \in 0 .. m /\ k + 1 # 0 /\ (k + 1) - 1 = k
  OBVIOUS
<1>3. f[0] = 1 /\ \A k \in 0 .. m - 1 : f[k + 1] = 2 * f[k]
  BY <1>1, <1>2
<1> DEFINE S == {k \in 0 .. m : f[k] \in Nat \ {0} /\ k < f[k]}
<1>4. 0 \in S
  BY <1>3
<1>5. ASSUME NEW k \in 0 .. m - 1, k \in S
      PROVE  k + 1 \in S
  BY <1>3, <1>5
<1> HIDE DEF S
<1>6. \A k \in 0 .. m : k \in S
  BY <1>4, <1>5, FiniteInduction
<1>7. QED
  BY <1>3, <1>6 DEF S

\* a place more
LEMMA HalvedOnce ==
  ASSUME NEW m \in Nat, NEW f, Doubling(f, m), NEW a \in Nat, NEW k \in 0 .. m - 1
  PROVE  (a \div f[k]) \div 2 = a \div f[k + 1]
<1>1. k \in 0 .. m /\ f[k] \in Nat \ {0} /\ f[k + 1] = 2 * f[k]
  BY DoublingFacts
<1>2. QED
  BY <1>1, DivTwice

\* What is left of a natural is a natural.
LEMMA HalvedNat ==
  ASSUME NEW m \in Nat, NEW f, Doubling(f, m), NEW a \in Nat, NEW k \in 0 .. m
  PROVE  a \div f[k] \in Nat
<1>1. f[k] \in Nat \ {0}
  BY DoublingFacts
<1>2. 0 \div f[k] <= a \div f[k]
  BY <1>1, CutMonotone
<1>3. 0 \div f[k] = 0 /\ a \div f[k] \in Int
  BY <1>1, DivMod, DivUnique
<1>4. QED
  BY <1>2, <1>3

\* Once it is below a limit it stays there.
LEMMA BelowStays ==
  ASSUME NEW m \in Nat, NEW f, Doubling(f, m), NEW a \in Nat, NEW limit \in Nat,
         NEW j \in 0 .. m, a \div f[j] < limit
  PROVE  \A k \in j .. m : a \div f[k] < limit
<1> DEFINE n == m - j
           S == {i \in 0 .. n : a \div f[j + i] < limit}
<1>1. n \in Nat
  OBVIOUS
<1>2. 0 \in S
  OBVIOUS
<1>3. ASSUME NEW i \in 0 .. n - 1, i \in S
      PROVE  i + 1 \in S
  <2> DEFINE v == a \div f[j + i]
  <2>1. j + i \in 0 .. m - 1 /\ j + i \in 0 .. m /\ i + 1 \in 0 .. n /\ j + (i + 1) = (j + i) + 1
    OBVIOUS
  <2>2. v \in Nat /\ v \div 2 = a \div f[(j + i) + 1]
    BY <2>1, HalvedOnce, HalvedNat
  <2>3. v < limit
    BY <1>3
  <2> HIDE DEF v
  <2>4. v \div 2 < limit
    BY <2>2, <2>3
  <2>5. QED
    BY <2>1, <2>2, <2>4
<1> HIDE DEF S
<1>4. \A i \in 0 .. n : i \in S
  BY <1>1, <1>2, <1>3, FiniteInduction
<1>5. QED
  <2> SUFFICES ASSUME NEW k \in j .. m
               PROVE  a \div f[k] < limit
    OBVIOUS
  <2>1. k - j \in 0 .. n /\ j + (k - j) = k
    OBVIOUS
  <2>2. QED
    BY <1>4, <2>1 DEF S

\* after k halvings it is below the limit, and was not after one less
BelowAfter(f, limit, a, k) ==
  ~(a \div f[k] >= limit) /\ (k > 0 => a \div f[k - 1] >= limit)

\* This is so of one number of halvings only.
LEMMA HalvingsUnique ==
  ASSUME NEW m \in Nat, NEW f, Doubling(f, m), NEW a \in Nat, NEW limit \in Nat,
         NEW j \in 0 .. m, NEW k \in 0 .. m, BelowAfter(f, limit, a, j), BelowAfter(f, limit, a, k)
  PROVE  j = k
<1>1. ASSUME NEW b \in 0 .. m, NEW c \in 0 .. m, BelowAfter(f, limit, a, b), BelowAfter(f, limit, a, c)
      PROVE  ~(b < c)
  <2>1. SUFFICES ASSUME b < c
                 PROVE  FALSE
    OBVIOUS
  <2>2. c - 1 \in b .. m /\ c - 1 \in 0 .. m /\ c > 0
    BY <2>1
  <2>3. a \div f[b] \in Nat /\ a \div f[c - 1] \in Nat
    BY <2>2, HalvedNat
  <2>4. a \div f[b] < limit /\ ~(a \div f[c - 1] < limit)
    BY <1>1, <2>2, <2>3 DEF BelowAfter
  <2>5. QED
    BY <2>2, <2>4, BelowStays
<1>2. ~(j < k) /\ ~(k < j)
  BY <1>1
<1>3. QED
  BY <1>2

\* The limit of the two lemmas that follow is not too small.
LEMMA RoomIsTwo ==
  ASSUME NEW one \in Nat \ {0}, NEW top \in Nat, one <= top
  PROVE  (2 * top) \div one \in Nat /\ (2 * top) \div one >= 2
<1>1. 2 * one \in Int /\ 2 * top \in Int /\ 2 * one <= 2 * top
  OBVIOUS
<1>2. (2 * one) \div one = 2
  BY <1>1, DivUnique
<1>3. (2 * one) \div one <= (2 * top) \div one /\ (2 * top) \div one \in Int
  BY <1>1, CutMonotone, DivMod
<1>4. QED
  BY <1>2, <1>3

\* A number below top is below twice top over one after fewer than one halvings.
LEMMA FewHalvings ==
  ASSUME NEW one \in Nat \ {0}, NEW top \in Nat, one <= top, NEW f, Doubling(f, one),
         NEW a \in Nat, a < top, NEW k \in 0 .. one, a \div f[k] >= (2 * top) \div one
  PROVE  k < one
<1> DEFINE W == (2 * top) \div one
           t == f[k]
           q == a \div t
<1>1. t \in Nat \ {0} /\ k < t
  BY DoublingFacts
<1>2. SUFFICES ASSUME one < t
               PROVE  FALSE
  BY <1>1
<1> HIDE DEF t
<1>3. q \in Int /\ a = q * t + (a % t) /\ 0 <= a % t /\ a % t \in Int
  BY <1>1, DivMod
<1>4. W \in Int /\ 2 * top = W * one + ((2 * top) % one) /\ (2 * top) % one < one /\ (2 * top) % one \in Int
  BY DivMod
<1>5. q >= W /\ W >= 2
  BY RoomIsTwo DEF t
<1> HIDE DEF q, W
<1>6. q * one >= W * one
  BY <1>3, <1>4, <1>5, ProductMonotone
<1>7. t * q >= one * q
  BY <1>1, <1>2, <1>3, <1>4, <1>5, ProductMonotone
<1>8. t * q = q * t /\ one * q = q * one /\ q * t \in Int /\ q * one \in Int /\ W * one \in Int
  BY <1>1, <1>3, <1>4
<1>9. q * t >= W * one
  BY <1>6, <1>7, <1>8
<1>10. one \in Nat /\ top \in Nat /\ one <= top /\ a \in Nat /\ a < top
  OBVIOUS
<1>11. W * one > top
  <2> DEFINE r == (2 * top) % one
             y == W * one
  <2>1. y \in Int /\ r \in Int /\ 2 * top = y + r /\ r < one
    BY <1>4, <1>8
  <2> HIDE DEF r, y
  <2>2. y > top
    BY <1>10, <2>1
  <2>3. QED
    BY <2>2 DEF y
<1>12. q * t <= a
  <2> DEFINE r == a % t
             y == q * t
  <2>1. y \in Int /\ r \in Int /\ a = y + r /\ 0 <= r
    BY <1>3, <1>8
  <2> HIDE DEF r, y
  <2>2. y <= a
    BY <1>10, <2>1
  <2>3. QED
    BY <2>2 DEF y
<1>13. QED
  BY <1>8, <1>9, <1>10, <1>11, <1>12

\* So some number of halvings brings it there.
LEMMA HalvingsExist ==
  ASSUME NEW one \in Nat \ {0}, NEW top \in Nat, one <= top, NEW f, Doubling(f, one),
         NEW a \in Nat, a < top
  PROVE  \E k \in 0 .. one : BelowAfter(f, (2 * top) \div one, a, k)
<1> DEFINE W == (2 * top) \div one
           S == {k \in 0 .. one : ~(a \div f[k] >= W)}
<1>1. one \in S
  BY FewHalvings
<1>2. S \in SUBSET Nat /\ S # {}
  BY <1>1
<1>3. PICK k \in S : \A j \in S : k <= j
  <2> HIDE DEF S
  <2>1. QED
    BY <1>2, LeastElement
<1>4. k \in 0 .. one /\ ~(a \div f[k] >= W)
  OBVIOUS
<1>5. ASSUME k > 0
      PROVE  a \div f[k - 1] >= W
  <2>1. k - 1 \in 0 .. one /\ ~(k <= k - 1)
    BY <1>4, <1>5
  <2>2. QED
    BY <1>3, <2>1
<1>6. QED
  BY <1>4, <1>5 DEF BelowAfter
=============================================================================
