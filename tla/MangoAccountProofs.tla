-------------------------- MODULE MangoAccountProofs --------------------------
(***************************************************************************)
(* Proofs about MangoAccount for any accounts, groups, caches and number   *)
(* of markets: what is loaded is what was answered, and the computations   *)
(* of health and value agree with each other as long as the numbers stay  *)
(* in their type.                                                          *)
(***************************************************************************)
EXTENDS MangoAccount, CommonLemmas

----------------------------------------------------------------------------
(* Sums.  SumFunction folds a function over its domain, in an order that   *)
(* only CHOOSE knows.                                                      *)

\* the element that is added next
Picked(s) == CHOOSE x \in s : TRUE

\* g has the sum of f over every subset of S
IsSum(g, S, f) ==
  g = [s \in SUBSET S |-> IF s = {} THEN 0 ELSE f[Picked(s)] + g[s \ {Picked(s)}]]

\* What holds of the empty set, and of a set if it holds without the element
\* that is picked, holds of every subset.
LEMMA SubsetInduction ==
  ASSUME NEW S, IsFiniteSet(S), NEW P, {} \in P,
         \A s \in SUBSET S : s # {} /\ s \ {Picked(s)} \in P => s \in P
  PROVE  \A s \in SUBSET S : s \in P
<1> DEFINE N == Cardinality(S)
           T == {n \in 0 .. N : \A s \in SUBSET S : Cardinality(s) = n => s \in P}
<1>1. N \in Nat /\ \A s \in SUBSET S : IsFiniteSet(s) /\ Cardinality(s) \in 0 .. N
  BY FS_CardinalityType, FS_Subset
<1>2. 0 \in T
  BY <1>1, FS_EmptySet
<1>3. ASSUME NEW n \in 0 .. N - 1, n \in T
      PROVE  n + 1 \in T
  <2>1. SUFFICES ASSUME NEW s \in SUBSET S, Cardinality(s) = n + 1
                 PROVE  s \in P
    BY <1>1
  <2>2. s # {} /\ IsFiniteSet(s)
    BY <1>1, <2>1, FS_EmptySet
  <2>3. Picked(s) \in s
    BY <2>2 DEF Picked
  <2> DEFINE t == s \ {Picked(s)}
  <2>4. t \in SUBSET S /\ Cardinality(t) = n
    <3>1. Cardinality(t) = Cardinality(s) - 1
      BY <2>2, <2>3, FS_RemoveElement
    <3>2. QED
      BY <1>1, <2>1, <3>1
  <2>5. t \in P
    BY <1>3, <2>4
  <2>6. QED
    BY <2>2, <2>5
<1>4. \A n \in 0 .. N : n \in T
  <2> HIDE DEF N, T
  <2>1. QED
    BY <1>1, <1>2, <1>3, FiniteInduction
<1>5. QED
  BY <1>1, <1>4

\* Such a function exists: sums over the sets of up to n elements give those
\* over the sets of one element more.
LEMMA SumsExist ==
  ASSUME NEW S, IsFiniteSet(S), NEW f \in [S -> Int]
  PROVE  \E g : IsSum(g, S, f)
<1> DEFINE N == Cardinality(S)
           Upto(n) == {s \in SUBSET S : Cardinality(s) <= n}
           Sums(g, n) == \A s \in Upto(n) : g[s] = IF s = {} THEN 0 ELSE f[Picked(s)] + g[s \ {Picked(s)}]
           T == {n \in 0 .. N : \E g \in [SUBSET S -> Int] : Sums(g, n)}
<1>1. N \in Nat /\ \A s \in SUBSET S : IsFiniteSet(s) /\ Cardinality(s) \in 0 .. N
  BY FS_CardinalityType, FS_Subset
<1>2. 0 \in T
  <2> DEFINE g == [s \in SUBSET S |-> 0]
  <2>1. \A s \in Upto(0) : s = {}
    BY <1>1, FS_EmptySet
  <2>2. g \in [SUBSET S -> Int] /\ Sums(g, 0)
    BY <2>1
  <2>3. 0 \in 0 .. N
    BY <1>1
  <2> HIDE DEF g, N
  <2>4. QED
    BY <2>2, <2>3
<1>3. ASSUME NEW n \in 0 .. N - 1, n \in T
      PROVE  n + 1 \in T
  <2>1. PICK g \in [SUBSET S -> Int] : Sums(g, n)
    BY <1>3
  <2> DEFINE h == [s \in SUBSET S |-> IF s = {} THEN 0 ELSE f[Picked(s)] + g[s \ {Picked(s)}]]
  <2>2. \A s \in SUBSET S : s # {} => Picked(s) \in s /\ Picked(s) \in S /\ s \ {Picked(s)} \in SUBSET S
    BY DEF Picked
  <2>3. h \in [SUBSET S -> Int]
    BY <2>2
  <2>4. \A s \in Upto(n) : h[s] = g[s]
    BY <2>1
  <2>5. \A s \in Upto(n + 1) : s # {} => s \ {Picked(s)} \in Upto(n)
    BY <1>1, <2>2, FS_RemoveElement
  <2>6. Sums(h, n + 1)
    <3> SUFFICES ASSUME NEW s \in Upto(n + 1)
                 PROVE  h[s] = IF s = {} THEN 0 ELSE f[Picked(s)] + h[s \ {Picked(s)}]
      OBVIOUS
    <3>1. CASE s = {}
      BY <3>1
    <3>2. CASE s # {}
      <4>1. h[s] = f[Picked(s)] + g[s \ {Picked(s)}]
        BY <3>2
      <4>2. h[s \ {Picked(s)}] = g[s \ {Picked(s)}]
        <5> HIDE DEF h
        <5>1. QED
          BY <2>4, <2>5, <3>2
      <4> HIDE DEF h
      <4>3. QED
        BY <3>2, <4>1, <4>2
    <3>3. QED
      BY <3>1, <3>2
  <2>7. n + 1 \in 0 .. N
    BY <1>1
  <2> HIDE DEF h
  <2>8. QED
    BY <2>3, <2>6, <2>7
<1>4. N \in T
  <2>1. \A n \in 0 .. N : n \in T
    <3> HIDE DEF N, T
    <3>1. QED
      BY <1>1, <1>2, <1>3, FiniteInduction
  <2>2. QED
    BY <1>1, <2>1
<1>5. PICK g \in [SUBSET S -> Int] : Sums(g, N)
  BY <1>4
<1>6. \A s \in SUBSET S : g[s] = IF s = {} THEN 0 ELSE f[Picked(s)] + g[s \ {Picked(s)}]
  <2>1. \A s \in SUBSET S : s \in Upto(N)
    BY <1>1
  <2> HIDE DEF Upto
  <2>2. QED
    BY <1>5, <2>1
<1>7. g = [s \in SUBSET S |-> IF s = {} THEN 0 ELSE f[Picked(s)] + g[s \ {Picked(s)}]]
  BY <1>6
<1>8. QED
  BY <1>7 DEF IsSum

\* What SumFunction takes is one.
LEMMA SumIs ==
  ASSUME NEW S, IsFiniteSet(S), NEW f \in [S -> Int]
  PROVE  \E g : IsSum(g, S, f) /\ SumFunction(f) = g[S]
<1>1. DOMAIN f = S
  OBVIOUS
<1>2. SumFunction(f) = (CHOOSE g : IsSum(g, S, f))[S]
  BY <1>1, Zenon DEF SumFunction, SumFunctionOnSet, FoldFunctionOnSet, MapThenFoldSet, IsSum, Picked
<1>3. QED
  BY <1>2, SumsExist

\* The equations of a sum, and its type.
LEMMA SumFacts ==
  ASSUME NEW S, IsFiniteSet(S), NEW f \in [S -> Int], NEW g, IsSum(g, S, f)
  PROVE  /\ g[{}] = 0
         /\ \A s \in SUBSET S : s # {} => /\ Picked(s) \in s /\ s \ {Picked(s)} \in SUBSET S
                                          /\ g[s] = f[Picked(s)] + g[s \ {Picked(s)}]
         /\ \A s \in SUBSET S : g[s] \in Int
<1>1. \A s \in SUBSET S : g[s] = IF s = {} THEN 0 ELSE f[Picked(s)] + g[s \ {Picked(s)}]
  BY DEF IsSum
<1>2. \A s \in SUBSET S : s # {} => Picked(s) \in s /\ s \ {Picked(s)} \in SUBSET S
  BY DEF Picked
<1>3. g[{}] = 0
  BY <1>1
<1> DEFINE P == {s \in SUBSET S : g[s] \in Int}
<1>4. {} \in P
  BY <1>3
<1>5. \A s \in SUBSET S : s # {} /\ s \ {Picked(s)} \in P => s \in P
  BY <1>1, <1>2
<1>6. \A s \in SUBSET S : s \in P
  <2> HIDE DEF P
  <2>1. QED
    BY <1>4, <1>5, SubsetInduction
<1>7. QED
  BY <1>1, <1>2, <1>3, <1>6

\* The sum of the differences is the difference of the sums.
LEMMA SumOfDifferences ==
  ASSUME NEW S, IsFiniteSet(S), NEW f \in [S -> Int], NEW g \in [S -> Int]
  PROVE  /\ SumFunction(f) \in Int /\ SumFunction(g) \in Int
         /\ SumFunction([i \in S |-> f[i] - g[i]]) = SumFunction(f) - SumFunction(g)
<1> DEFINE d == [i \in S |-> f[i] - g[i]]
<1>1. d \in [S -> Int]
  OBVIOUS
<1>2. PICK F : IsSum(F, S, f) /\ SumFunction(f) = F[S]
  BY SumIs
<1>3. PICK G : IsSum(G, S, g) /\ SumFunction(g) = G[S]
  BY SumIs
<1>4. PICK D : IsSum(D, S, d) /\ SumFunction(d) = D[S]
  <2> HIDE DEF d
  <2>1. QED
    BY <1>1, SumIs
<1>5. /\ F[{}] = 0
      /\ \A s \in SUBSET S : s # {} => /\ Picked(s) \in s /\ s \ {Picked(s)} \in SUBSET S
                                       /\ F[s] = f[Picked(s)] + F[s \ {Picked(s)}]
      /\ \A s \in SUBSET S : F[s] \in Int
  BY <1>2, SumFacts
<1>6. /\ G[{}] = 0
      /\ \A s \in SUBSET S : s # {} => /\ Picked(s) \in s /\ s \ {Picked(s)} \in SUBSET S
                                       /\ G[s] = g[Picked(s)] + G[s \ {Picked(s)}]
      /\ \A s \in SUBSET S : G[s] \in Int
  BY <1>3, SumFacts
<1>7. /\ D[{}] = 0
      /\ \A s \in SUBSET S : s # {} => /\ Picked(s) \in s /\ s \ {Picked(s)} \in SUBSET S
                                       /\ D[s] = d[Picked(s)] + D[s \ {Picked(s)}]
      /\ \A s \in SUBSET S : D[s] \in Int
  <2> HIDE DEF d
  <2>1. QED
    BY <1>1, <1>4, SumFacts
<1> DEFINE P == {s \in SUBSET S : D[s] = F[s] - G[s]}
<1>8. {} \in P
  BY <1>5, <1>6, <1>7
<1>9. ASSUME NEW s \in SUBSET S, s # {}, s \ {Picked(s)} \in P
      PROVE  s \in P
  <2> DEFINE t == s \ {Picked(s)}
             x == Picked(s)
  <2>1. x \in S /\ t \in SUBSET S /\ D[t] = F[t] - G[t]
    BY <1>5, <1>9
  <2>2. F[s] = f[x] + F[t] /\ G[s] = g[x] + G[t] /\ D[s] = d[x] + D[t]
    BY <1>5, <1>6, <1>7, <1>9
  <2>3. f[x] \in Int /\ g[x] \in Int /\ d[x] = f[x] - g[x] /\ F[t] \in Int /\ G[t] \in Int
    BY <1>5, <1>6, <2>1
  <2> HIDE DEF t, x, d
  <2>4. D[s] = F[s] - G[s]
    BY <2>1, <2>2, <2>3
  <2>5. QED
    BY <2>4
<1>10. \A s \in SUBSET S : s \in P
  <2> HIDE DEF P
  <2>1. QED
    BY <1>8, <1>9, SubsetInduction
<1>11. D[S] = F[S] - G[S] /\ F[S] \in Int /\ G[S] \in Int
  BY <1>5, <1>6, <1>10
<1>12. QED
  BY <1>2, <1>3, <1>4, <1>11 DEF d

\* A sum is as many times a bound of its terms as it has terms, at least.
LEMMA SumAtLeast ==
  ASSUME NEW S, IsFiniteSet(S), NEW f \in [S -> Int], NEW low \in Int, \A i \in S : f[i] >= low
  PROVE  SumFunction(f) >= Cardinality(S) * low
<1>1. PICK F : IsSum(F, S, f) /\ SumFunction(f) = F[S]
  BY SumIs
<1>2. /\ F[{}] = 0
      /\ \A s \in SUBSET S : s # {} => /\ Picked(s) \in s /\ s \ {Picked(s)} \in SUBSET S
                                       /\ F[s] = f[Picked(s)] + F[s \ {Picked(s)}]
      /\ \A s \in SUBSET S : F[s] \in Int
  BY <1>1, SumFacts
<1> DEFINE P == {s \in SUBSET S : F[s] >= Cardinality(s) * low}
<1>3. {} \in P
  BY <1>2, FS_EmptySet
<1>4. ASSUME NEW s \in SUBSET S, s # {}, s \ {Picked(s)} \in P
      PROVE  s \in P
  <2> DEFINE t == s \ {Picked(s)}
             x == Picked(s)
             m == Cardinality(t)
  <2>1. x \in s /\ x \in S /\ t \in SUBSET S /\ F[t] >= m * low /\ F[s] = f[x] + F[t] /\ F[t] \in Int
    BY <1>2, <1>4
  <2>2. IsFiniteSet(s) /\ IsFiniteSet(t)
    BY FS_Subset
  <2>3. m \in Nat /\ Cardinality(s) \in Nat /\ m = Cardinality(s) - 1
    BY <2>1, <2>2, FS_CardinalityType, FS_RemoveElement
  <2>4. f[x] \in Int /\ f[x] >= low
    BY <2>1
  <2> HIDE DEF t, x, m
  <2>5. Cardinality(s) = m + 1
    BY <2>3
  <2>6. (m + 1) * low = m * low + low
    BY <2>3
  <2>7. m * low \in Int
    BY <2>3
  <2>8. F[s] >= Cardinality(s) * low
    BY <2>1, <2>4, <2>5, <2>6, <2>7
  <2>9. QED
    BY <2>8
<1>5. \A s \in SUBSET S : s \in P
  <2> HIDE DEF P
  <2>1. QED
    BY <1>3, <1>4, SubsetInduction
<1>6. F[S] >= Cardinality(S) * low
  BY <1>5
<1>7. QED
  BY <1>1, <1>6

\* So sums are as far apart as all their terms are.
LEMMA SumsApart ==
  ASSUME NEW S, IsFiniteSet(S), NEW f \in [S -> Int], NEW g \in [S -> Int],
         NEW low \in Int, \A i \in S : f[i] >= g[i] + low
  PROVE  /\ SumFunction(f) \in Int /\ SumFunction(g) \in Int
         /\ SumFunction(f) >= SumFunction(g) + Cardinality(S) * low
<1> DEFINE d == [i \in S |-> f[i] - g[i]]
<1>1. d \in [S -> Int] /\ \A i \in S : d[i] >= low
  OBVIOUS
<1>2. SumFunction(d) >= Cardinality(S) * low
  <2> HIDE DEF d
  <2>1. QED
    BY <1>1, SumAtLeast
<1>3. SumFunction(f) \in Int /\ SumFunction(g) \in Int /\ SumFunction(d) = SumFunction(f) - SumFunction(g)
  BY SumOfDifferences
<1>4. Cardinality(S) * low \in Int
  BY FS_CardinalityType
<1> HIDE DEF d
<1>5. QED
  BY <1>2, <1>3, <1>4

----------------------------------------------------------------------------
(* Numbers. *)

\* multiply is the exact product, cut down and wrapped around
LEMMA MultiplyExact ==
  ASSUME NEW a \in Int, NEW b \in Int
  PROVE  /\ (a * b) \div One \in Int /\ Multiply(a, b) \in Raw
         /\ Exact(a, b) => Multiply(a, b) = (a * b) \div One
<1>1. One \in Nat \ {0} /\ Top \in Nat \ {0}
  BY OneAssumption, TopAssumption
<1>2. (a * b) \div One \in Int /\ Multiply(a, b) = ToRaw((a * b) \div One)
  BY <1>1, ProductByParts DEF Multiply, HighProduct, CrossProducts, Hi, Lo
<1>3. \A v \in Int : ToRaw(v) \in Raw
  BY <1>1, WrapIntoRange DEF ToRaw, Raw
<1>4. \A v \in Raw : ToRaw(v) = v
  BY <1>1, WrapInside DEF ToRaw, Raw
<1>5. QED
  BY <1>2, <1>3, <1>4 DEF Exact

\* An integer that is not too large is the number it stands for.
LEMMA FixedExact ==
  ASSUME NEW n \in Int, -Top <= n * One, n * One < Top
  PROVE  Fixed(n) = n * One
<1>1. One \in Nat \ {0} /\ Top \in Nat \ {0}
  BY OneAssumption, TopAssumption
<1>2. n * One \in -Top .. Top - 1
  BY <1>1
<1>3. QED
  BY <1>1, <1>2, WrapInside DEF Fixed, ToRaw

\* A number is an integer.
LEMMA RawIsInt == \A v \in Raw : v \in Int
BY TopAssumption DEF Raw

\* Multiplying keeps the order and the sign.
LEMMA MultiplyMonotone ==
  ASSUME NEW a \in Int, NEW b \in Int, NEW w \in Int, 0 <= w, a <= b, Exact(a, w), Exact(b, w)
  PROVE  Multiply(a, w) <= Multiply(b, w)
<1>1. One \in Nat \ {0} /\ w \in Nat
  BY OneAssumption
<1>2. a * w <= b * w /\ a * w \in Int /\ b * w \in Int
  BY <1>1, ProductMonotone
<1>3. (a * w) \div One <= (b * w) \div One
  BY <1>1, <1>2, CutMonotone
<1>4. QED
  BY <1>3, MultiplyExact

\* zero makes zero
LEMMA MultiplyZero ==
  ASSUME NEW w \in Int
  PROVE  Exact(0, w) /\ Multiply(0, w) = 0
<1>1. (0 * w) \div One = 0
  BY OneAssumption
<1>2. 0 \in Raw
  BY TopAssumption DEF Raw
<1>3. QED
  BY <1>1, <1>2, MultiplyExact DEF Exact

\* The second factor: what is owned is worth more with it, what is owed less.
LEMMA MultiplyWeights ==
  ASSUME NEW a \in Int, NEW v \in Int, NEW w \in Int, v <= w, Exact(a, v), Exact(a, w)
  PROVE  /\ a >= 0 => Multiply(a, v) <= Multiply(a, w)
         /\ a <= 0 => Multiply(a, w) <= Multiply(a, v)
<1>1. One \in Nat \ {0}
  BY OneAssumption
<1>2. a * v \in Int /\ a * w \in Int
  OBVIOUS
<1>3. ASSUME a >= 0
      PROVE  a * v <= a * w
  <2>1. v * a <= w * a
    BY <1>3, ProductMonotone
  <2>2. a * v = v * a /\ a * w = w * a
    OBVIOUS
  <2>3. QED
    BY <2>1, <2>2
<1>4. ASSUME a <= 0
      PROVE  a * w <= a * v
  <2>1. -a \in Nat
    BY <1>4
  <2>2. v * (-a) <= w * (-a)
    BY <2>1, ProductMonotone
  <2>3. v * (-a) = -(a * v) /\ w * (-a) = -(a * w)
    OBVIOUS
  <2>4. QED
    BY <1>2, <2>2, <2>3
<1>5. a >= 0 => (a * v) \div One <= (a * w) \div One
  BY <1>1, <1>2, <1>3, CutMonotone
<1>6. a <= 0 => (a * w) \div One <= (a * v) \div One
  BY <1>1, <1>2, <1>4, CutMonotone
<1>7. QED
  BY <1>5, <1>6, MultiplyExact

\* one leaves a number as it is
LEMMA MultiplyOne ==
  ASSUME NEW a \in Raw
  PROVE  Exact(a, One) /\ Multiply(a, One) = a
<1>1. One \in Nat \ {0} /\ a \in Int
  BY OneAssumption, RawIsInt
<1>2. (a * One) \div One = a
  <2>1. a * One \in Int /\ 0 \in Int /\ a * One = a * One + 0 /\ 0 < One
    BY <1>1
  <2>2. QED
    BY <1>1, <2>1, DivUnique
<1>3. QED
  BY <1>1, <1>2, MultiplyExact DEF Exact

----------------------------------------------------------------------------
(* One position. *)

\* what the owner has is what can be read from the chain
Typed == info \in Accounts /\ group \in Groups /\ cache \in Caches

\* prices, markets and their weights
LEMMA MarketsTyped ==
  ASSUME Typed, NEW i \in Markets
  PROVE  price(i) \in Int /\ group.spot[i] \in MarketInfo /\ group.perp[i] \in MarketInfo
<1>1. cache \in MangoCache /\ group \in MangoGroup
  BY LayoutAssumption DEF Typed
<1>2. price(i) \in Raw
  BY <1>1 DEF MangoCache, price
<1>3. group.spot \in [Markets -> MarketInfo] /\ group.perp \in [Markets -> MarketInfo]
  BY <1>1 DEF MangoGroup
<1>4. QED
  BY <1>2, <1>3, RawIsInt

\* each weight, by the type of health
LEMMA WeightsAre ==
  ASSUME NEW market \in MarketInfo
  PROVE  /\ Weights(market, "Unknown").asset = One /\ Weights(market, "Unknown").liab = One
         /\ Weights(market, "Init").asset = market.initAssetWeight
         /\ Weights(market, "Init").liab = market.initLiabWeight
         /\ Weights(market, "Maint").asset = market.maintAssetWeight
         /\ Weights(market, "Maint").liab = market.maintLiabWeight
         /\ \A type \in HealthTypes : Weights(market, type).asset \in Int /\ Weights(market, type).liab \in Int
<1>1. One \in Int
  BY OneAssumption
<1>2. /\ market.initAssetWeight \in Int /\ market.initLiabWeight \in Int
      /\ market.maintAssetWeight \in Int /\ market.maintLiabWeight \in Int
  BY RawIsInt DEF MarketInfo
<1>3. /\ Weights(market, "Unknown") = [asset |-> One, liab |-> One]
      /\ Weights(market, "Init") = [asset |-> market.initAssetWeight, liab |-> market.initLiabWeight]
      /\ Weights(market, "Maint") = [asset |-> market.maintAssetWeight, liab |-> market.maintLiabWeight]
  BY DEF Weights
<1>4. QED
  BY <1>1, <1>2, <1>3 DEF HealthTypes

\* Numbers that can be weighed: the position and what it is worth, the same
\* with the other sign, and the weights.
Sane(pos, p, a, l) ==
  /\ pos \in Raw /\ -pos \in Raw /\ pos \in Int /\ p \in Nat /\ a \in Nat /\ l \in Nat
  /\ Multiply(pos, p) \in Raw /\ Multiply(-pos, p) \in Raw
  /\ Multiply(pos, p) \in Int /\ Multiply(-pos, p) \in Int
  /\ Exact(pos, p) /\ Exact(-pos, p)
  /\ Exact(Multiply(pos, p), a) /\ Exact(Multiply(pos, p), l)
  /\ Exact(Multiply(-pos, p), a) /\ Exact(Multiply(-pos, p), l)

LEMMA WeighableSane ==
  ASSUME NEW i, price(i) \in Int, price(i) > 0, NEW market \in MarketInfo, NEW pos,
         Weighable(pos, i, market), NEW type \in HealthTypes
  PROVE  Sane(pos, price(i), Weights(market, type).asset, Weights(market, type).liab)
<1> DEFINE a == Weights(market, type).asset
           l == Weights(market, type).liab
<1>1. \A p \in {pos, -pos} : /\ p \in Raw /\ Exact(p, price(i))
                             /\ 0 <= a /\ Exact(Multiply(p, price(i)), a)
                             /\ 0 <= l /\ Exact(Multiply(p, price(i)), l)
  BY DEF Weighable
<1>2. a \in Int /\ l \in Int
  BY WeightsAre
<1> HIDE DEF a, l
<1>3. pos \in Raw /\ -pos \in Raw /\ pos \in Int /\ -pos \in Int
  BY <1>1, RawIsInt
<1>4. \A p \in {pos, -pos} : Multiply(p, price(i)) \in Raw
  BY <1>3, MultiplyExact
<1>5. \A p \in {pos, -pos} : Multiply(p, price(i)) \in Int
  BY <1>4, RawIsInt
<1>6. QED
  BY <1>1, <1>2, <1>3, <1>4, <1>5 DEF Sane, a, l

\* what a position is worth has its sign
LEMMA WorthSigned ==
  ASSUME NEW pos, NEW p, NEW a, NEW l, Sane(pos, p, a, l)
  PROVE  /\ pos >= 0 => Multiply(pos, p) >= 0
         /\ pos <= 0 => Multiply(pos, p) <= 0
<1>1. pos \in Int /\ p \in Int /\ 0 <= p /\ Exact(pos, p)
  BY DEF Sane
<1>2. Exact(0, p) /\ Multiply(0, p) = 0
  BY <1>1, MultiplyZero
<1>3. QED
  BY <1>1, <1>2, MultiplyMonotone

\* so has it when it is weighed
LEMMA WeighedSigned ==
  ASSUME NEW pos, NEW p, NEW a, NEW l, Sane(pos, p, a, l), NEW w \in {a, l}
  PROVE  /\ Multiply(Multiply(pos, p), w) \in Int
         /\ pos >= 0 => Multiply(Multiply(pos, p), w) >= 0
         /\ pos <= 0 => Multiply(Multiply(pos, p), w) <= 0
<1> DEFINE v == Multiply(pos, p)
<1>1. v \in Int /\ w \in Int /\ 0 <= w /\ Exact(v, w)
  BY DEF Sane
<1>2. (pos >= 0 => v >= 0) /\ (pos <= 0 => v <= 0)
  BY WorthSigned
<1> HIDE DEF v
<1>3. Exact(0, w) /\ Multiply(0, w) = 0 /\ Multiply(v, w) \in Raw
  BY <1>1, MultiplyZero, MultiplyExact
<1>4. Multiply(v, w) \in Int
  BY <1>3, RawIsInt
<1>5. (pos >= 0 => Multiply(v, w) >= 0) /\ (pos <= 0 => Multiply(v, w) <= 0)
  BY <1>1, <1>2, <1>3, MultiplyMonotone
<1>6. QED
  BY <1>4, <1>5 DEF v

\* A larger position adds more to the health, on either side of zero and
\* across it.
LEMMA LargerIsHealthier ==
  ASSUME NEW i, price(i) \in Int, price(i) > 0, NEW market \in MarketInfo, NEW type \in HealthTypes,
         NEW p, NEW q, p <= q, Weighable(p, i, market), Weighable(q, i, market)
  PROVE  /\ Weighed(p, i, market, type) \in Int /\ Weighed(q, i, market, type) \in Int
         /\ Weighed(p, i, market, type) <= Weighed(q, i, market, type)
<1> DEFINE a == Weights(market, type).asset
           l == Weights(market, type).liab
           m == price(i)
<1>1. Sane(p, m, a, l) /\ Sane(q, m, a, l)
  BY WeighableSane
<1>2. /\ Weighed(p, i, market, type) = Multiply(Multiply(p, m), IF p > 0 THEN a ELSE l)
      /\ Weighed(q, i, market, type) = Multiply(Multiply(q, m), IF q > 0 THEN a ELSE l)
  BY DEF Weighed
<1> HIDE DEF a, l, m
<1>3. p \in Int /\ q \in Int
  BY <1>1 DEF Sane
<1>4. \A w \in {a, l} : Multiply(Multiply(p, m), w) \in Int /\ Multiply(Multiply(q, m), w) \in Int
  BY <1>1, WeighedSigned
<1>5. \A w \in {a, l} : Multiply(Multiply(p, m), w) <= Multiply(Multiply(q, m), w)
  <2>1. Multiply(p, m) <= Multiply(q, m)
    BY <1>1, MultiplyMonotone DEF Sane
  <2>2. \A w \in {a, l} : w \in Int /\ 0 <= w /\ Exact(Multiply(p, m), w) /\ Exact(Multiply(q, m), w)
    BY <1>1 DEF Sane
  <2>3. Multiply(p, m) \in Int /\ Multiply(q, m) \in Int
    BY <1>1 DEF Sane
  <2>4. QED
    BY <2>1, <2>2, <2>3, MultiplyMonotone
<1>6. CASE p > 0 \/ ~(q > 0)
  BY <1>2, <1>3, <1>4, <1>5, <1>6
<1>7. CASE ~(p > 0) /\ q > 0
  <2>1. Multiply(Multiply(p, m), l) <= 0 /\ Multiply(Multiply(q, m), a) >= 0
    BY <1>1, <1>3, <1>7, WeighedSigned
  <2>2. QED
    BY <1>2, <1>4, <1>7, <2>1
<1>8. QED
  BY <1>6, <1>7

\* With stricter weights a position adds less, or takes more away.
LEMMA StricterIsLess ==
  ASSUME NEW i, price(i) \in Int, price(i) > 0, NEW market \in MarketInfo,
         NEW pos, Weighable(pos, i, market), Stricter(market)
  PROVE  /\ \A type \in HealthTypes : Weighed(pos, i, market, type) \in Int
         /\ Weighed(pos, i, market, "Init") <= Weighed(pos, i, market, "Maint")
         /\ Weighed(pos, i, market, "Maint") <= Weighed(pos, i, market, "Unknown")
<1> DEFINE v == Multiply(pos, price(i))
           a(type) == Weights(market, type).asset
           l(type) == Weights(market, type).liab
<1>1. \A type \in HealthTypes : Sane(pos, price(i), a(type), l(type))
  BY WeighableSane
<1>2. \A type \in HealthTypes : Weighed(pos, i, market, type) = Multiply(v, IF pos > 0 THEN a(type) ELSE l(type))
  BY DEF Weighed
<1>3. /\ a("Init") <= a("Maint") /\ a("Maint") <= a("Unknown")
      /\ l("Unknown") <= l("Maint") /\ l("Maint") <= l("Init")
  BY WeightsAre DEF Stricter
<1>4. "Init" \in HealthTypes /\ "Maint" \in HealthTypes /\ "Unknown" \in HealthTypes
  BY DEF HealthTypes
<1> HIDE DEF a, l
<1>5. \A type \in HealthTypes : a(type) \in Int /\ l(type) \in Int /\ Exact(v, a(type)) /\ Exact(v, l(type))
  BY <1>1 DEF Sane
<1>6. pos \in Int /\ v \in Int /\ (pos >= 0 => v >= 0) /\ (pos <= 0 => v <= 0)
  BY <1>1, <1>4, WorthSigned DEF Sane
<1>7. \A type \in HealthTypes : Weighed(pos, i, market, type) \in Int
  <2>1. \A type \in HealthTypes : Multiply(v, a(type)) \in Raw /\ Multiply(v, l(type)) \in Raw
    BY <1>5, <1>6, MultiplyExact
  <2> HIDE DEF v
  <2>2. QED
    BY <1>2, <2>1, RawIsInt
<1> HIDE DEF v
<1>8. CASE pos > 0
  <2>1. v >= 0
    BY <1>6, <1>8
  <2>2. Multiply(v, a("Init")) <= Multiply(v, a("Maint"))
    BY <1>3, <1>4, <1>5, <1>6, <2>1, MultiplyWeights
  <2>3. Multiply(v, a("Maint")) <= Multiply(v, a("Unknown"))
    BY <1>3, <1>4, <1>5, <1>6, <2>1, MultiplyWeights
  <2>4. QED
    BY <1>2, <1>4, <1>7, <1>8, <2>2, <2>3
<1>9. CASE ~(pos > 0)
  <2>1. v <= 0
    BY <1>6, <1>9
  <2>2. Multiply(v, l("Init")) <= Multiply(v, l("Maint"))
    BY <1>3, <1>4, <1>5, <1>6, <2>1, MultiplyWeights
  <2>3. Multiply(v, l("Maint")) <= Multiply(v, l("Unknown"))
    BY <1>3, <1>4, <1>5, <1>6, <2>1, MultiplyWeights
  <2>4. QED
    BY <1>2, <1>4, <1>7, <1>9, <2>2, <2>3
<1>10. QED
  BY <1>7, <1>8, <1>9

----------------------------------------------------------------------------
(* Health. *)

\* the number of markets is that of the terms of a sum over them
LEMMA MarketsFinite == IsFiniteSet(Markets) /\ Cardinality(Markets) = NumOracles
<1>1. NumOracles \in Int
  BY OraclesAssumption
<1>2. QED
  BY <1>1, OraclesAssumption, FS_Interval DEF Markets

\* what the positions in each market add
Terms(c, type) ==
  [i \in Markets |-> Weighed(c.spot[i], i, group.spot[i], type) + Weighed(c.perps[i], i, group.perp[i], type)]

\* Health by its type is in the order of the weights.
LEMMA HealthOrdered ==
  ASSUME Typed, NEW c, NothingWraps(c),
         \A i \in Markets : Stricter(group.spot[i]) /\ Stricter(group.perp[i])
  PROVE  /\ \A type \in HealthTypes : getHealthFromComponents(c, type) \in Int
         /\ getHealthFromComponents(c, "Init") <= getHealthFromComponents(c, "Maint")
         /\ getHealthFromComponents(c, "Maint") <= getHealthFromComponents(c, "Unknown")
<1>1. \A type : getHealthFromComponents(c, type) = c.quote + SumFunction(Terms(c, type))
  BY DEF getHealthFromComponents, Terms
<1>2. ASSUME NEW i \in Markets
      PROVE  /\ \A type \in HealthTypes : Terms(c, type)[i] \in Int
             /\ Terms(c, "Init")[i] <= Terms(c, "Maint")[i]
             /\ Terms(c, "Maint")[i] <= Terms(c, "Unknown")[i]
  <2>1. /\ price(i) \in Int /\ price(i) > 0 /\ group.spot[i] \in MarketInfo /\ group.perp[i] \in MarketInfo
        /\ Weighable(c.spot[i], i, group.spot[i]) /\ Weighable(c.perps[i], i, group.perp[i])
    BY MarketsTyped DEF NothingWraps
  <2>2. /\ \A type \in HealthTypes : Weighed(c.spot[i], i, group.spot[i], type) \in Int
        /\ Weighed(c.spot[i], i, group.spot[i], "Init") <= Weighed(c.spot[i], i, group.spot[i], "Maint")
        /\ Weighed(c.spot[i], i, group.spot[i], "Maint") <= Weighed(c.spot[i], i, group.spot[i], "Unknown")
    BY <2>1, StricterIsLess
  <2>3. /\ \A type \in HealthTypes : Weighed(c.perps[i], i, group.perp[i], type) \in Int
        /\ Weighed(c.perps[i], i, group.perp[i], "Init") <= Weighed(c.perps[i], i, group.perp[i], "Maint")
        /\ Weighed(c.perps[i], i, group.perp[i], "Maint") <= Weighed(c.perps[i], i, group.perp[i], "Unknown")
    BY <2>1, StricterIsLess
  <2>4. \A type : Terms(c, type)[i] = Weighed(c.spot[i], i, group.spot[i], type)
                                        + Weighed(c.perps[i], i, group.perp[i], type)
    BY DEF Terms
  <2>5. "Init" \in HealthTypes /\ "Maint" \in HealthTypes /\ "Unknown" \in HealthTypes
    BY DEF HealthTypes
  <2>6. QED
    BY <2>2, <2>3, <2>4, <2>5
<1>3. \A type \in HealthTypes : Terms(c, type) \in [Markets -> Int]
  BY <1>2 DEF Terms
<1>4. \A type \in HealthTypes : SumFunction(Terms(c, type)) \in Int
  BY <1>3, MarketsFinite, SumOfDifferences
<1>5. "Init" \in HealthTypes /\ "Maint" \in HealthTypes /\ "Unknown" \in HealthTypes
  BY DEF HealthTypes
<1>6. ASSUME NEW s \in HealthTypes, NEW t \in HealthTypes, \A i \in Markets : Terms(c, s)[i] <= Terms(c, t)[i]
      PROVE  SumFunction(Terms(c, s)) <= SumFunction(Terms(c, t))
  <2>1. 0 \in Int /\ \A i \in Markets : Terms(c, t)[i] >= Terms(c, s)[i] + 0
    BY <1>2, <1>6
  <2>2. SumFunction(Terms(c, t)) >= SumFunction(Terms(c, s)) + Cardinality(Markets) * 0
    BY <1>3, <2>1, MarketsFinite, SumsApart
  <2>3. Cardinality(Markets) * 0 = 0
    BY MarketsFinite, OraclesAssumption
  <2>4. QED
    BY <1>4, <2>2, <2>3
<1>7. /\ SumFunction(Terms(c, "Init")) <= SumFunction(Terms(c, "Maint"))
      /\ SumFunction(Terms(c, "Maint")) <= SumFunction(Terms(c, "Unknown"))
  BY <1>2, <1>5, <1>6
<1>8. c.quote \in Int
  BY RawIsInt DEF NothingWraps
<1>9. QED
  BY <1>1, <1>4, <1>5, <1>7, <1>8

\* So are its owner's, and liquidation ends with the last that is negative.
LEMMA OrderedFollows ==
  ASSUME Typed
  PROVE  HealthTypesOrdered
<1> SUFFICES ASSUME NothingWraps(getHealthComponents(orders)),
                    \A i \in Markets : Stricter(group.spot[i]) /\ Stricter(group.perp[i])
             PROVE  /\ getHealth(orders, "Init") <= getHealth(orders, "Maint")
                    /\ getHealth(orders, "Maint") <= getHealth(orders, "Unknown")
                    /\ info.beingLiquidated /\ ~isLiquidatable(orders) =>
                         \A type \in HealthTypes : getHealth(orders, type) >= 0
  BY DEF HealthTypesOrdered
<1>1. /\ \A type \in HealthTypes : getHealth(orders, type) \in Int
      /\ getHealth(orders, "Init") <= getHealth(orders, "Maint")
      /\ getHealth(orders, "Maint") <= getHealth(orders, "Unknown")
  BY HealthOrdered DEF getHealth
<1>2. ASSUME info.beingLiquidated, ~isLiquidatable(orders)
      PROVE  ~(getHealth(orders, "Init") < 0)
  BY <1>2 DEF isLiquidatable
<1>3. "Init" \in HealthTypes /\ "Maint" \in HealthTypes /\ "Unknown" \in HealthTypes
      /\ \A type \in HealthTypes : type = "Init" \/ type = "Maint" \/ type = "Unknown"
  BY DEF HealthTypes
<1>4. QED
  BY <1>1, <1>2, <1>3

----------------------------------------------------------------------------
(* Health and net of assets and liabilities. *)

\* the product with minus one
LEMMA Negated ==
  ASSUME NEW v \in Raw, -v \in Raw
  PROVE  Multiply(v, Fixed(-1)) = -v
<1>1. One \in Nat \ {0} /\ Top \in Nat \ {0} /\ One <= Top /\ v \in Int /\ -v \in Int
  BY OneAssumption, TopAssumption, WidthAssumption, RawIsInt
<1>2. Fixed(-1) = -One
  <2>1. -Top <= (-1) * One /\ (-1) * One < Top /\ (-1) * One = -One /\ -1 \in Int
    BY <1>1
  <2>2. QED
    BY <2>1, FixedExact
<1>3. (v * (-One)) \div One = -v
  <2>1. v * (-One) \in Int /\ 0 \in Int /\ v * (-One) = (-v) * One + 0 /\ 0 < One
    BY <1>1
  <2>2. QED
    BY <1>1, <2>1, DivUnique
<1>4. -One \in Int
  BY <1>1
<1>5. QED
  BY <1>1, <1>2, <1>3, <1>4, MultiplyExact DEF Exact

\* Cutting two numbers loses as much as cutting their sum, or one more.
LEMMA CutSum ==
  ASSUME NEW a \in Int, NEW b \in Int, NEW m \in Nat \ {0}
  PROVE  /\ (a \div m) + (b \div m) <= (a + b) \div m
         /\ (a \div m) + (b \div m) >= ((a + b) \div m) - 1
<1> DEFINE p == a \div m
           q == b \div m
           r == a % m
           s == b % m
<1>1. p \in Int /\ r \in Int /\ a = p * m + r /\ 0 <= r /\ r < m
  BY DivMod
<1>2. q \in Int /\ s \in Int /\ b = q * m + s /\ 0 <= s /\ s < m
  BY DivMod
<1> HIDE DEF p, q, r, s
<1>3. a + b = (p + q) * m + (r + s)
  BY <1>1, <1>2
<1>4. CASE r + s < m
  <2>1. a + b \in Int /\ p + q \in Int /\ r + s \in Int /\ 0 <= r + s
    BY <1>1, <1>2
  <2> DEFINE u == a + b
             k == p + q
             t == r + s
  <2>2. u \in Int /\ k \in Int /\ t \in Int /\ u = k * m + t /\ 0 <= t /\ t < m
    BY <1>3, <1>4, <2>1
  <2> HIDE DEF u, k, t
  <2>3. u \div m = k
    BY <2>2, DivUnique
  <2>4. QED
    BY <1>1, <1>2, <2>3 DEF p, q, u, k
<1>5. CASE ~(r + s < m)
  <2>1. a + b \in Int /\ p + q + 1 \in Int /\ r + s - m \in Int /\ 0 <= r + s - m /\ r + s - m < m
    BY <1>1, <1>2, <1>5
  <2>2. (p + q + 1) * m = (p + q) * m + m /\ (p + q) * m \in Int
    BY <1>1, <1>2
  <2>3. a + b = (p + q + 1) * m + (r + s - m)
    BY <1>1, <1>2, <1>3, <2>2
  <2> DEFINE u == a + b
             k == p + q + 1
             t == r + s - m
  <2>4. u \in Int /\ k \in Int /\ t \in Int /\ u = k * m + t /\ 0 <= t /\ t < m
    BY <2>1, <2>3
  <2> HIDE DEF u, k, t
  <2>5. u \div m = k
    BY <2>4, DivUnique
  <2>6. QED
    BY <1>1, <1>2, <2>5 DEF p, q, u, k
<1>6. QED
  BY <1>4, <1>5

\* a weight of up to two takes up to two from a bit
LEMMA CutWeight ==
  ASSUME NEW m \in Nat \ {0}, NEW l \in Nat, l <= 2 * m
  PROVE  (-l) \div m >= -2 /\ (-l) \div m <= 0 /\ 0 \div m = 0
<1>1. (-(2 * m)) \div m = -2
  <2>1. -(2 * m) \in Int /\ -2 \in Int /\ 0 \in Int /\ -(2 * m) = (-2) * m + 0 /\ 0 < m
    OBVIOUS
  <2>2. QED
    BY <2>1, DivUnique
<1>2. 0 \div m = 0
  OBVIOUS
<1>3. -(2 * m) \in Int /\ -l \in Int /\ 0 \in Int /\ -(2 * m) <= -l /\ -l <= 0
  OBVIOUS
<1>4. (-(2 * m)) \div m <= (-l) \div m /\ (-l) \div m <= 0 \div m
  BY <1>3, CutMonotone
<1>5. QED
  BY <1>1, <1>2, <1>4

\* What a position adds to the health is what it adds to the assets, less what
\* it adds to the liabilities, but for the cutting of a liability.
LEMMA PositionNet ==
  ASSUME NEW i, price(i) \in Int, price(i) > 0, NEW market \in MarketInfo, NEW type \in HealthTypes,
         NEW pos, Weighable(pos, i, market), Weights(market, type).liab <= 2 * One
  PROVE  /\ Weighed(pos, i, market, type) \in Int /\ AssetOf(pos, i, market, type) \in Int
         /\ LiabOf(pos, i, market, type) \in Int
         /\ AssetOf(pos, i, market, type) >= 0
         /\ Weighed(pos, i, market, type) <= AssetOf(pos, i, market, type) - LiabOf(pos, i, market, type)
         /\ Weighed(pos, i, market, type) >= AssetOf(pos, i, market, type) - LiabOf(pos, i, market, type) - 3
<1> DEFINE a == Weights(market, type).asset
           l == Weights(market, type).liab
           p == price(i)
           x == Multiply(pos, p)
           y == Multiply(-pos, p)
<1>1. Sane(pos, p, a, l) /\ l <= 2 * One
  BY WeighableSane
<1>2. Multiply(pos, Fixed(-1)) = -pos
  BY <1>1, Negated DEF Sane
<1>3. /\ Weighed(pos, i, market, type) = Multiply(x, IF pos > 0 THEN a ELSE l)
      /\ AssetOf(pos, i, market, type) = IF pos > 0 THEN Multiply(x, a) ELSE 0
      /\ LiabOf(pos, i, market, type) = IF pos > 0 THEN 0 ELSE Multiply(y, l)
  BY <1>2 DEF Weighed, AssetOf, LiabOf
<1> HIDE DEF a, l, p
<1>4. /\ One \in Nat \ {0} /\ pos \in Int /\ -pos \in Int /\ p \in Nat /\ a \in Nat /\ l \in Nat
      /\ x \in Int /\ y \in Int /\ Exact(pos, p) /\ Exact(-pos, p)
      /\ Exact(x, a) /\ Exact(x, l) /\ Exact(y, l)
  <2>1. pos \in Int /\ p \in Nat /\ a \in Nat /\ l \in Nat
    BY <1>1 DEF Sane
  <2>2. x \in Int /\ y \in Int /\ Exact(pos, p) /\ Exact(-pos, p) /\ Exact(x, a) /\ Exact(x, l) /\ Exact(y, l)
    BY <1>1 DEF Sane
  <2>3. QED
    BY <2>1, <2>2, OneAssumption
<1>5. x = (pos * p) \div One /\ y = ((-pos) * p) \div One
  BY <1>4, MultiplyExact
<1> HIDE DEF x, y
<1>6. /\ Multiply(x, a) \in Int /\ Multiply(x, l) \in Int /\ Multiply(y, l) \in Int
      /\ Multiply(x, l) = (x * l) \div One /\ Multiply(y, l) = (y * l) \div One
  BY <1>4, MultiplyExact, RawIsInt
<1>7. x + y = 0 \/ x + y = -1
  <2>1. pos * p \in Int /\ (-pos) * p \in Int /\ pos * p + (-pos) * p = 0
    BY <1>4
  <2>2. 0 \div One = 0
    BY <1>4
  <2>3. x + y <= (pos * p + (-pos) * p) \div One /\ x + y >= ((pos * p + (-pos) * p) \div One) - 1
    BY <1>4, <1>5, <2>1, CutSum
  <2>4. QED
    BY <1>4, <2>1, <2>2, <2>3
<1>8. Multiply(x, l) + Multiply(y, l) <= 0 /\ Multiply(x, l) + Multiply(y, l) >= -3
  <2>1. x * l \in Int /\ y * l \in Int /\ x * l + y * l = (x + y) * l
    BY <1>4
  <2>2. x * l + y * l = 0 \/ x * l + y * l = -l
    BY <1>4, <1>7, <2>1
  <2>3. (-l) \div One >= -2 /\ (-l) \div One <= 0 /\ 0 \div One = 0
    BY <1>1, <1>4, CutWeight
  <2>4. /\ Multiply(x, l) + Multiply(y, l) <= (x * l + y * l) \div One
        /\ Multiply(x, l) + Multiply(y, l) >= ((x * l + y * l) \div One) - 1
    BY <1>4, <1>6, <2>1, CutSum
  <2> DEFINE k == (x * l + y * l) \div One
             j == (-l) \div One
  <2>5. k = 0 \/ k = j
    BY <2>2, <2>3
  <2>6. j \in Int
    BY <1>4
  <2>7. j >= -2 /\ j <= 0
    BY <2>3
  <2>8. Multiply(x, l) + Multiply(y, l) <= k /\ Multiply(x, l) + Multiply(y, l) >= k - 1
    BY <2>4
  <2> HIDE DEF k, j
  <2>9. QED
    BY <1>6, <2>5, <2>6, <2>7, <2>8
<1>9. pos > 0 => Multiply(x, a) >= 0
  BY <1>1, <1>4, WeighedSigned DEF x
<1>10. QED
  BY <1>3, <1>4, <1>6, <1>8, <1>9

\* what the positions in each market add to the assets and to the liabilities
AssetTerms(c, type) ==
  [i \in Markets |-> AssetOf(c.spot[i], i, group.spot[i], type) + AssetOf(c.perps[i], i, group.perp[i], type)]
LiabTerms(c, type) ==
  [i \in Markets |-> LiabOf(c.spot[i], i, group.spot[i], type) + LiabOf(c.perps[i], i, group.perp[i], type)]

\* Each market is off by three for each of its two positions at most.
LEMMA TermsNet ==
  ASSUME Typed, NEW c, NothingWraps(c), NEW type \in HealthTypes, NEW i \in Markets,
         AtMostDoubled(group.spot[i]), AtMostDoubled(group.perp[i])
  PROVE  /\ Terms(c, type)[i] \in Int /\ AssetTerms(c, type)[i] \in Int /\ LiabTerms(c, type)[i] \in Int
         /\ AssetTerms(c, type)[i] >= 0
         /\ Terms(c, type)[i] <= AssetTerms(c, type)[i] - LiabTerms(c, type)[i]
         /\ Terms(c, type)[i] >= AssetTerms(c, type)[i] - LiabTerms(c, type)[i] - 6
<1>1. /\ price(i) \in Int /\ price(i) > 0 /\ group.spot[i] \in MarketInfo /\ group.perp[i] \in MarketInfo
      /\ Weighable(c.spot[i], i, group.spot[i]) /\ Weighable(c.perps[i], i, group.perp[i])
  BY MarketsTyped DEF NothingWraps
<1>2. Weights(group.spot[i], type).liab <= 2 * One /\ Weights(group.perp[i], type).liab <= 2 * One
  BY DEF AtMostDoubled
<1> DEFINE w1 == Weighed(c.spot[i], i, group.spot[i], type)
           w2 == Weighed(c.perps[i], i, group.perp[i], type)
           a1 == AssetOf(c.spot[i], i, group.spot[i], type)
           a2 == AssetOf(c.perps[i], i, group.perp[i], type)
           l1 == LiabOf(c.spot[i], i, group.spot[i], type)
           l2 == LiabOf(c.perps[i], i, group.perp[i], type)
<1>3. w1 \in Int /\ a1 \in Int /\ l1 \in Int /\ a1 >= 0 /\ w1 <= a1 - l1 /\ w1 >= a1 - l1 - 3
  BY <1>1, <1>2, PositionNet
<1>4. w2 \in Int /\ a2 \in Int /\ l2 \in Int /\ a2 >= 0 /\ w2 <= a2 - l2 /\ w2 >= a2 - l2 - 3
  BY <1>1, <1>2, PositionNet
<1>5. Terms(c, type)[i] = w1 + w2 /\ AssetTerms(c, type)[i] = a1 + a2 /\ LiabTerms(c, type)[i] = l1 + l2
  BY DEF Terms, AssetTerms, LiabTerms
<1> HIDE DEF w1, w2, a1, a2, l1, l2
<1>6. QED
  BY <1>3, <1>4, <1>5

\* Health is net, whatever the number of markets.
LEMMA HealthNet ==
  ASSUME Typed, NEW c, NothingWraps(c), NEW type \in HealthTypes,
         \A i \in Markets : AtMostDoubled(group.spot[i]) /\ AtMostDoubled(group.perp[i])
  PROVE  LET v == getWeightedAssetsLiabsVals(c, type)
             h == getHealthFromComponents(c, type)
         IN  /\ v.assets \in Nat /\ v.liabs \in Int /\ h \in Int
             /\ h - (v.assets - v.liabs) \in -Rounding .. 0
<1> DEFINE v == getWeightedAssetsLiabsVals(c, type)
           w == Terms(c, type)
           a == AssetTerms(c, type)
           l == LiabTerms(c, type)
           net == [i \in Markets |-> a[i] - l[i]]
<1>2. getHealthFromComponents(c, type) = c.quote + SumFunction(w)
  BY DEF getHealthFromComponents, Terms
<1>3. c.quote \in Int /\ Multiply(c.quote, Fixed(-1)) = -c.quote
  BY Negated, RawIsInt DEF NothingWraps
<1>4. /\ v.assets = (IF c.quote > 0 THEN c.quote ELSE 0) + SumFunction(a)
      /\ v.liabs = (IF c.quote > 0 THEN 0 ELSE -c.quote) + SumFunction(l)
  BY <1>3 DEF getWeightedAssetsLiabsVals, AssetTerms, LiabTerms
<1> HIDE DEF v
<1>5. \A i \in Markets : /\ w[i] \in Int /\ a[i] \in Int /\ l[i] \in Int /\ a[i] >= 0
                         /\ w[i] <= a[i] - l[i] /\ w[i] >= a[i] - l[i] - 6
  BY TermsNet
<1>6. w \in [Markets -> Int] /\ a \in [Markets -> Int] /\ l \in [Markets -> Int]
  <2>1. w \in [Markets -> Int]
    BY <1>5 DEF Terms
  <2>2. a \in [Markets -> Int]
    BY <1>5 DEF AssetTerms
  <2>3. l \in [Markets -> Int]
    BY <1>5 DEF LiabTerms
  <2>4. QED
    BY <2>1, <2>2, <2>3
<1> HIDE DEF w, a, l
<1>7. /\ net \in [Markets -> Int]
      /\ \A i \in Markets : w[i] <= net[i] /\ w[i] >= net[i] - 6
  BY <1>5, <1>6
<1>8. SumFunction(a) \in Int /\ SumFunction(l) \in Int /\ SumFunction(net) = SumFunction(a) - SumFunction(l)
  BY <1>6, MarketsFinite, SumOfDifferences
<1> HIDE DEF net
<1>9. SumFunction(w) \in Int /\ SumFunction(w) >= SumFunction(net) + NumOracles * (-6)
  <2>1. -6 \in Int /\ \A i \in Markets : w[i] >= net[i] + (-6)
    BY <1>6, <1>7
  <2>2. QED
    BY <1>6, <1>7, <2>1, MarketsFinite, SumsApart
<1>10. SumFunction(net) >= SumFunction(w) + NumOracles * 0
  <2>1. 0 \in Int /\ \A i \in Markets : net[i] >= w[i] + 0
    BY <1>6, <1>7
  <2>2. QED
    BY <1>6, <1>7, <2>1, MarketsFinite, SumsApart
<1> DEFINE h == getHealthFromComponents(c, type)
<1>11. h = c.quote + SumFunction(w)
  BY <1>2
<1>12. v.assets - v.liabs = c.quote + SumFunction(net)
  BY <1>3, <1>4, <1>8
<1>13. SumFunction(a) >= 0
  <2>1. SumFunction(a) >= NumOracles * 0
    BY <1>5, <1>6, MarketsFinite, SumAtLeast
  <2>2. QED
    BY <1>8, <2>1, OraclesAssumption
<1> HIDE DEF h
<1>14. v.assets \in Nat /\ v.liabs \in Int /\ h \in Int
  BY <1>3, <1>4, <1>8, <1>9, <1>11, <1>13
<1>15. h - (v.assets - v.liabs) = SumFunction(w) - SumFunction(net)
  BY <1>3, <1>8, <1>9, <1>11, <1>12
<1>16. NumOracles * 0 = 0 /\ NumOracles * (-6) = -(6 * NumOracles) /\ 6 * NumOracles \in Nat
  BY OraclesAssumption
<1>17. SumFunction(w) - SumFunction(net) \in -(6 * NumOracles) .. 0
  BY <1>8, <1>9, <1>10, <1>16
<1>18. QED
  BY <1>14, <1>15, <1>17 DEF h, v, Rounding

\* So it is of the components of the account.
LEMMA NetFollows ==
  ASSUME Typed
  PROVE  HealthIsNet
BY HealthNet DEF HealthIsNet, getHealth

----------------------------------------------------------------------------
(* The ratio. *)

\* a shift by k places divides by two as often
LEMMA TwoToDoubles == Doubling(TwoTo, One) /\ TwoTo[0] = 1
<1>1. TwoTo = CHOOSE g : Doubling(g, One)
  BY DEF TwoTo, Doubling, PowersOf
<1>2. One \in Nat
  BY OneAssumption
<1>3. Doubling(TwoTo, One)
  BY <1>1, <1>2, DoublingExists
<1>4. QED
  BY <1>2, <1>3, DoublingFacts

\* How far a remainder is shifted: until it has room, and not so far that
\* nothing is left of it.
LEMMA ShiftsFew ==
  ASSUME NEW rest \in Nat, rest < Top
  PROVE  /\ TwoTo[Shifts(rest)] \in Nat \ {0}
         /\ TwoTo[Shifts(rest)] = 1 \/ rest \div TwoTo[Shifts(rest)] >= 1
<1> DEFINE W == (2 * Top) \div One
           k == Shifts(rest)
<1>1. One \in Nat \ {0} /\ Top \in Nat /\ One <= Top /\ Doubling(TwoTo, One)
  BY OneAssumption, TopAssumption, WidthAssumption, TwoToDoubles
<1>2. W \in Nat /\ W >= 2
  BY <1>1, RoomIsTwo
<1>3. \E i \in 0 .. One : BelowAfter(TwoTo, W, rest, i)
  BY <1>1, HalvingsExist
<1>4. k = CHOOSE i \in 0 .. One : BelowAfter(TwoTo, W, rest, i)
  BY DEF Shifts, BelowAfter, Overflows
<1> HIDE DEF W, k
<1>5. k \in 0 .. One /\ BelowAfter(TwoTo, W, rest, k)
  BY <1>3, <1>4
<1>6. TwoTo[k] \in Nat \ {0}
  BY <1>1, <1>5, DoublingFacts
<1>7. ASSUME k # 0
      PROVE  rest \div TwoTo[k] >= 1
  <2>1. k - 1 \in 0 .. One /\ k - 1 \in 0 .. One - 1 /\ (k - 1) + 1 = k /\ k > 0
    BY <1>1, <1>5, <1>7
  <2> DEFINE u == rest \div TwoTo[k - 1]
  <2>2. u \in Nat /\ u \div 2 = rest \div TwoTo[k]
    <3> DEFINE j == k - 1
    <3>1. j \in 0 .. One /\ j \in 0 .. One - 1 /\ j + 1 = k
      BY <2>1
    <3> HIDE DEF j
    <3>2. rest \div TwoTo[j] \in Nat /\ (rest \div TwoTo[j]) \div 2 = rest \div TwoTo[k]
      BY <1>1, <3>1, HalvedOnce, HalvedNat
    <3>3. QED
      BY <3>2 DEF j
  <2>3. u >= W
    BY <1>5, <2>1 DEF BelowAfter
  <2> HIDE DEF u
  <2>4. u \div 2 >= 1
    BY <1>2, <2>2, <2>3
  <2>5. QED
    BY <2>2, <2>4
<1>8. QED
  BY <1>6, <1>7, TwoToDoubles DEF k

\* A quotient of u and a v that is not less is at most one, which it is
\* only if they are the same.
LEMMA FractionAtMostOne ==
  ASSUME NEW u \in Nat, NEW v \in Nat \ {0}, u <= v
  PROVE  /\ (u * One) \div v \in 0 .. One
         /\ (u * One) \div v >= One => u >= v
<1> DEFINE x == u * One
           lo == x \div v
<1>1. One \in Nat \ {0} /\ x \in Nat
  BY OneAssumption
<1>2. lo \in Int /\ x = lo * v + (x % v) /\ 0 <= x % v /\ x % v < v /\ x % v \in Int
  <2> HIDE DEF x
  <2>1. QED
    BY <1>1, DivMod
<1>3. lo >= 0
  <2>1. 0 \div v <= lo
    BY <1>1, CutMonotone
  <2>2. 0 \div v = 0
    BY DivUnique
  <2>3. QED
    BY <2>1, <2>2
<1>4. lo <= One
  <2>1. x <= v * One /\ v * One \in Int
    BY <1>1, ProductMonotone
  <2>2. lo <= (v * One) \div v
    <3> HIDE DEF x
    <3>1. QED
      BY <1>1, <2>1, CutMonotone
  <2>3. (v * One) \div v = One
    <3>1. v * One = One * v + 0 /\ 0 < v /\ v * One \in Int
      BY <1>1
    <3>2. QED
      BY <1>1, <3>1, DivUnique
  <2>4. QED
    BY <2>2, <2>3
<1> HIDE DEF lo
<1>5. ASSUME lo >= One, ~(u >= v)
      PROVE  FALSE
  <2>1. lo * v >= One * v /\ One * v \in Int /\ lo * v \in Int
    BY <1>1, <1>2, <1>5, ProductMonotone
  <2>2. v * One >= u * One + One
    BY <1>1, <1>5, ProductGrows
  <2>3. v * One = One * v /\ u * One \in Int
    BY <1>1
  <2> DEFINE r == x % v
  <2>4. r \in Int /\ 0 <= r /\ u * One = lo * v + r
    BY <1>2
  <2> HIDE DEF r
  <2>5. QED
    BY <1>1, <2>1, <2>2, <2>3, <2>4
<1>6. QED
  BY <1>1, <1>2, <1>3, <1>4, <1>5 DEF lo

\* What divide makes of two numbers that are not negative: at least one if the
\* first is not less, and below one if it is less by more than what is dropped.
LEMMA QuotientAgainstOne ==
  ASSUME NEW a \in Nat, NEW b \in Nat \ {0}, a < Top, b < Top, (a \div b + 1) * One < Top
  PROVE  /\ a \div b \in Nat
         /\ Divide(a, b) \in 0 .. (a \div b + 1) * One
         /\ a >= b => Divide(a, b) >= One
         /\ Divide(a, b) >= One => b - a <= TwoTo[Shifts(a % b)] - 1
<1> DEFINE w == a \div b
           rest == a % b
           s == TwoTo[Shifts(rest)]
           u == rest \div s
           v == b \div s
           lo == (u * One) \div v
           q == w * One + (IF lo = One /\ w % 2 = 1 THEN 0 ELSE lo)
<1>1. One \in Nat \ {0} /\ Top \in Nat \ {0}
  BY OneAssumption, TopAssumption
<1>2. w \in Int /\ a = w * b + rest /\ rest \in Int /\ 0 <= rest /\ rest < b
  BY DivMod
<1>3. w >= 0
  <2>1. 0 \div b <= w
    BY CutMonotone
  <2>2. 0 \div b = 0
    BY DivUnique
  <2>3. QED
    BY <2>1, <2>2
<1>4. Divide(a, b) = IF (a < 0) # (b < 0) THEN ToRaw(-ToRaw(q)) ELSE ToRaw(q)
  <2>1. Magnitude(a) = a /\ Magnitude(b) = b
    BY DEF Magnitude
  <2>2. QED
    BY <2>1 DEF Divide, Joined
<1>5. (w + 1) * One < Top
  OBVIOUS
<1>6. rest < Top /\ rest \in Nat
  BY <1>1, <1>2
<1> HIDE DEF w, rest
<1>7. s \in Nat \ {0} /\ (s = 1 \/ u >= 1)
  BY <1>6, ShiftsFew
<1> HIDE DEF s
<1>8. /\ u \in Int /\ rest = u * s + (rest % s) /\ 0 <= rest % s /\ rest % s \in Int
      /\ v \in Int /\ b = v * s + (b % s) /\ b % s < s /\ b % s \in Int
  BY <1>2, <1>7, DivMod
<1>9. u <= v /\ u >= 0
  <2>1. u <= v
    BY <1>2, <1>7, CutMonotone
  <2>2. 0 \div s <= u
    BY <1>2, <1>7, CutMonotone
  <2>3. 0 \div s = 0
    BY <1>7, DivUnique
  <2>4. QED
    BY <2>1, <2>2, <2>3
<1>10. v \in Nat \ {0}
  <2>1. s = 1 => v = b
    OBVIOUS
  <2> HIDE DEF u, v
  <2>2. QED
    BY <1>7, <1>8, <1>9, <2>1
<1> HIDE DEF u, v
<1>11. u \in Nat /\ lo \in 0 .. One /\ (lo >= One => u >= v)
  <2>1. u \in Nat
    BY <1>8, <1>9
  <2>2. QED
    BY <1>9, <1>10, <2>1, FractionAtMostOne
<1> HIDE DEF lo
<1>12. w * One \in Nat /\ (w + 1) * One = w * One + One
  BY <1>1, <1>2, <1>3
<1>13. q \in w * One .. (w + 1) * One
  <2> DEFINE y == w * One
  <2>1. y \in Nat
    BY <1>12
  <2> HIDE DEF y
  <2>2. y + (IF lo = One /\ w % 2 = 1 THEN 0 ELSE lo) \in y .. y + One
    BY <1>1, <1>11, <2>1
  <2>3. QED
    BY <1>12, <2>2 DEF y
<1>14. q \in Nat /\ q < Top
  <2> DEFINE x == w * One
             y == (w + 1) * One
  <2>1. x \in Nat /\ y = x + One /\ y < Top /\ q \in x .. y
    BY <1>5, <1>12, <1>13
  <2> HIDE DEF x, y, q
  <2>2. QED
    BY <1>1, <2>1
<1>15. Divide(a, b) = q
  <2> HIDE DEF q
  <2>1. q \in -Top .. Top - 1
    BY <1>1, <1>14
  <2>2. ToRaw(q) = q
    BY <1>1, <2>1, WrapInside DEF ToRaw
  <2>3. QED
    BY <1>4, <2>2
<1>16. a >= b => w >= 1
  <2>1. a >= b => b \div b <= a \div b
    BY CutMonotone
  <2>2. b \div b = 1
    <3>1. b = 1 * b + 0 /\ 0 < b
      OBVIOUS
    <3>2. QED
      BY <3>1, DivUnique
  <2>3. QED
    BY <2>1, <2>2 DEF w
<1>17. w >= 1 => w * One >= One
  <2>1. w >= 1 => w * One >= 1 * One
    BY <1>1, <1>2, ProductMonotone
  <2>2. QED
    BY <1>1, <2>1
<1>18. w >= 1 => a >= b
  <2>1. w >= 1 => w * b >= 1 * b
    BY <1>2, ProductMonotone
  <2>2. w * b \in Int
    BY <1>2
  <2>3. QED
    BY <1>2, <2>1, <2>2
<1>19. ASSUME w = 0, q >= One
       PROVE  b - a <= s - 1
  <2>1. a = rest
    BY <1>2, <1>19
  <2>2. w * One = 0 /\ w % 2 # 1
    BY <1>1, <1>19
  <2>3. q = lo
    BY <1>11, <2>2
  <2>4. u = v
    BY <1>9, <1>8, <1>11, <1>19, <2>3
  <2>5. u * s = v * s /\ u * s \in Int
    BY <1>7, <1>8, <2>4
  <2> DEFINE r1 == rest % s
             r2 == b % s
             y == u * s
  <2>6. y \in Int /\ r1 \in Int /\ r2 \in Int /\ 0 <= r1 /\ r2 < s /\ a = y + r1 /\ b = y + r2
    BY <1>8, <2>1, <2>5
  <2> HIDE DEF r1, r2, y
  <2>7. QED
    BY <1>7, <2>6
<1> HIDE DEF q
<1>20. q >= One => b - a <= s - 1
  BY <1>2, <1>3, <1>7, <1>18, <1>19
<1>21. a >= b => q >= One
  BY <1>1, <1>12, <1>13, <1>14, <1>16, <1>17
<1>22. w \in Nat /\ q \in 0 .. (w + 1) * One
  BY <1>2, <1>3, <1>12, <1>13
<1>23. QED
  BY <1>15, <1>20, <1>21, <1>22 DEF w, rest, s

\* A hundred times a number that leaves room for it.
LEMMA Hundredfold ==
  ASSUME NEW d \in Int, 100 * One < Top, -One <= d, 100 * d < Top
  PROVE  Times(100, d) = 100 * d
<1>1. One \in Nat \ {0} /\ Top \in Nat \ {0}
  BY OneAssumption, TopAssumption
<1>2. Fixed(100) = 100 * One
  <2>1. 100 * One \in Int /\ -Top <= 100 * One /\ 100 \in Int
    BY <1>1
  <2>2. QED
    BY <2>1, FixedExact
<1> DEFINE h == 100 * One
           p == h * d
<1>3. h \in Int /\ p \in Int
  BY <1>1
<1>4. p = (100 * d) * One + 0
  BY <1>1
<1>5. 100 * d \in Int /\ 100 * d \in Raw
  BY <1>1 DEF Raw
<1> HIDE DEF h, p
<1>6. p \div One = 100 * d
  <2> DEFINE k == 100 * d
  <2>1. k \in Int /\ p = k * One + 0 /\ 0 < One /\ 0 \in Int
    BY <1>1, <1>4, <1>5
  <2> HIDE DEF k
  <2>2. p \div One = k
    BY <1>1, <1>3, <2>1, DivUnique
  <2>3. QED
    BY <2>2 DEF k
<1>7. QED
  BY <1>2, <1>3, <1>5, <1>6, MultiplyExact DEF Times, Exact, h, p

\* The ratio has the sign of the health.
LEMMA RatioFollows ==
  ASSUME Typed
  PROVE  RatioAgrees
<1> DEFINE c == getHealthComponents(orders)
           v(type) == getWeightedAssetsLiabsVals(c, type)
<1> SUFFICES ASSUME NothingWraps(c),
                    \A i \in Markets : AtMostDoubled(group.spot[i]) /\ AtMostDoubled(group.perp[i]),
                    NEW type \in HealthTypes, RatioFits(v(type))
             PROVE  IF getHealthRatio(orders, type) < 0
                    THEN getHealth(orders, type) < 0
                    ELSE getHealth(orders, type) >= -(Rounding + Dropped(v(type)))
  BY DEF RatioAgrees
<1> DEFINE a == v(type).assets
           b == v(type).liabs
           h == getHealth(orders, type)
           q == Divide(a, b)
           w == a \div b
<1>1. One \in Nat \ {0} /\ Top \in Nat \ {0}
  BY OneAssumption, TopAssumption
<1>2. a \in Nat /\ b \in Int /\ h \in Int /\ h - (a - b) \in -Rounding .. 0
  BY HealthNet DEF getHealth
<1>3. /\ 100 * One < Top /\ a < Top /\ b < Top
      /\ b > 0 => 100 * (w + 1) * One < Top
  BY DEF RatioFits
<1>4. getHealthRatio(orders, type) = IF b > 0 THEN Times(100, q - One) ELSE Fixed(100)
  BY DEF getHealthRatio, NetRatio
<1>5. Dropped(v(type)) = IF b > 0 THEN TwoTo[Shifts(a % b)] - 1 ELSE 0
  BY DEF Dropped
<1>6. Rounding \in Nat
  BY OraclesAssumption DEF Rounding
<1> HIDE DEF c, v, h
<1>7. CASE b > 0
  <2>1. b \in Nat \ {0}
    BY <1>2, <1>7
  <2>2. w \in Int /\ w >= 0
    <3> HIDE DEF a, b
    <3>1. 0 \div b <= w /\ w \in Int
      BY <1>2, <2>1, CutMonotone, DivMod
    <3>2. 0 \div b = 0
      BY <2>1, DivUnique
    <3>3. QED
      BY <3>1, <3>2
  <2>3. (w + 1) * One < Top /\ (w + 1) * One \in Nat /\ 100 * ((w + 1) * One) < Top
    <3> HIDE DEF w
    <3> DEFINE y == (w + 1) * One
    <3>1. y \in Nat /\ 100 * (w + 1) * One = 100 * y
      BY <1>1, <2>2
    <3> HIDE DEF y
    <3>2. 100 * y < Top /\ y < Top
      BY <1>1, <1>3, <1>7, <3>1
    <3>3. QED
      BY <3>1, <3>2 DEF y
  <2>4. /\ q \in 0 .. (w + 1) * One
        /\ a >= b => q >= One
        /\ q >= One => b - a <= TwoTo[Shifts(a % b)] - 1
    <3> HIDE DEF a, b
    <3>1. QED
      BY <1>2, <1>3, <2>1, <2>3, QuotientAgainstOne
  <2> DEFINE s == TwoTo[Shifts(a % b)]
  <2>5. s \in Nat \ {0}
    <3> HIDE DEF a, b
    <3>1. a % b \in Nat /\ a % b < Top
      BY <1>1, <1>2, <1>3, <2>1, DivMod
    <3>2. QED
      BY <3>1, ShiftsFew
  <2> HIDE DEF a, b, q, w, s
  <2>6. q \in Nat /\ 100 * (q - One) < Top /\ q - One >= -One /\ q - One \in Int
    <3> DEFINE y == (w + 1) * One
    <3>1. y \in Nat /\ q \in 0 .. y /\ 100 * y < Top
      BY <2>3, <2>4
    <3> HIDE DEF y
    <3>2. QED
      BY <1>1, <3>1
  <2>7. Times(100, q - One) = 100 * (q - One)
    BY <1>3, <2>6, Hundredfold
  <2>8. getHealthRatio(orders, type) < 0 <=> q < One
    BY <1>1, <1>4, <1>7, <2>6, <2>7
  <2>9. Dropped(v(type)) = s - 1 /\ (q >= One => b - a <= s - 1)
    BY <1>5, <1>7, <2>4 DEF s
  <2>10. CASE q < One
    <3>1. ~(a >= b)
      BY <1>1, <2>4, <2>6, <2>10
    <3>2. h < 0
      BY <1>2, <1>6, <3>1
    <3>3. QED
      BY <2>8, <2>10, <3>2 DEF h
  <2>11. CASE ~(q < One)
    <3>1. b - a <= s - 1
      BY <1>1, <2>6, <2>9, <2>11
    <3>2. h >= -(Rounding + (s - 1))
      BY <1>2, <1>6, <2>5, <3>1
    <3>3. QED
      BY <2>8, <2>9, <2>11, <3>2 DEF h
  <2>12. QED
    BY <2>10, <2>11
<1>8. CASE ~(b > 0)
  <2>1. Fixed(100) = 100 * One
    <3>1. -Top <= 100 * One /\ 100 \in Int
      BY <1>1
    <3>2. QED
      BY <1>3, <3>1, FixedExact
  <2>2. ~(getHealthRatio(orders, type) < 0)
    BY <1>1, <1>4, <1>8, <2>1
  <2> HIDE DEF a, b
  <2>3. h >= -(Rounding + 0)
    BY <1>2, <1>6, <1>8
  <2>4. QED
    BY <1>5, <1>8, <2>2, <2>3 DEF h
<1>9. QED
  BY <1>7, <1>8

----------------------------------------------------------------------------
(* Health without the open orders. *)

\* what a token is worth in the account
LEMMA NetTyped ==
  ASSUME Typed, NEW t \in Tokens
  PROVE  getNet(t) \in Int
<1>1. info \in MangoAccountInfo /\ cache \in MangoCache
  BY LayoutAssumption DEF Typed
<1>2. info.deposits[t] \in Raw /\ info.borrows[t] \in Raw
  BY <1>1 DEF MangoAccountInfo
<1>3. cache.deposit_index[t] \in Raw /\ cache.borrow_index[t] \in Raw
  BY <1>1 DEF MangoCache
<1>4. /\ Multiply(info.deposits[t], cache.deposit_index[t]) \in Int
      /\ Multiply(info.borrows[t], cache.borrow_index[t]) \in Int
  BY <1>2, <1>3, RawIsInt, MultiplyExact
<1>5. QED
  BY <1>4 DEF getNet

\* A number that fits is what a word makes of it, and any other becomes one
\* that does.
LEMMA WordsAre ==
  /\ HalfWord \in Nat \ {0}
  /\ \A n \in Int64 : ToInt64(n) = n /\ n \in Int
  /\ \A n \in Uint64 : ToUint64(n) = n /\ n \in Nat
  /\ \A n \in Int : ToInt64(n) \in Int64 /\ ToUint64(n) \in Nat
<1>1. HalfWord \in Nat \ {0}
  BY WordAssumption
<1>2. ASSUME NEW n \in Int64
      PROVE  ToInt64(n) = n /\ n \in Int
  BY <1>1, WrapInside DEF Int64, ToInt64
<1>3. ASSUME NEW n \in Uint64
      PROVE  ToUint64(n) = n /\ n \in Nat
  <2> DEFINE m == 2 * HalfWord
  <2>1. m \in Nat \ {0} /\ n \in Nat /\ n < m
    BY <1>1 DEF Uint64
  <2> HIDE DEF m
  <2>2. n = 0 * m + n /\ 0 \in Int /\ n \in Int
    BY <2>1
  <2>3. n % m = n
    BY <2>1, <2>2, DivUnique
  <2>4. QED
    BY <2>1, <2>3 DEF ToUint64, m
<1>4. ASSUME NEW n \in Int
      PROVE  ToInt64(n) \in Int64 /\ ToUint64(n) \in Nat
  <2>1. ToInt64(n) \in Int64
    BY <1>1, WrapIntoRange DEF Int64, ToInt64
  <2> DEFINE m == 2 * HalfWord
  <2>2. m \in Nat \ {0}
    BY <1>1
  <2> HIDE DEF m
  <2>3. n % m \in Int /\ 0 <= n % m
    BY <2>2, DivMod
  <2>4. QED
    BY <2>1, <2>3 DEF ToUint64, m
<1>5. QED
  BY <1>1, <1>2, <1>3, <1>4

\* The open orders that were loaded are of the kind the chain has.
OrdersTyped == \A k \in DOMAIN orders : orders[k] \in OpenOrdersAccount

\* What is free and what is locked make up what there is.
LEMMA SplitIs ==
  ASSUME NEW i, NEW oo \in OpenOrdersAccount, AmountsFit(i, oo)
  PROVE  LET s == splitOpenOrders(oo)
         IN  /\ s.quoteFree = oo.quoteTokenFree + oo.referrerRebatesAccrued
             /\ s.quoteLocked = oo.quoteTokenTotal - oo.quoteTokenFree
             /\ s.baseFree = oo.baseTokenFree /\ s.baseLocked = oo.baseTokenTotal - oo.baseTokenFree
             /\ s.quoteFree \in Nat /\ s.quoteLocked \in Nat /\ s.baseFree \in Nat /\ s.baseLocked \in Nat
             /\ oo.baseTokenTotal \in Nat
             /\ oo.quoteTokenTotal + oo.referrerRebatesAccrued \in Nat
             /\ ToUint64(oo.quoteTokenTotal + oo.referrerRebatesAccrued)
                  = oo.quoteTokenTotal + oo.referrerRebatesAccrued
<1> DEFINE a == oo.quoteTokenFree
           b == oo.quoteTokenTotal
           c == oo.referrerRebatesAccrued
           f == oo.baseTokenFree
           t == oo.baseTokenTotal
           s == splitOpenOrders(oo)
<1>1. a \in Uint64 /\ b \in Uint64 /\ c \in Uint64 /\ f \in Uint64 /\ t \in Uint64
  BY DEF OpenOrdersAccount
<1>2. a <= b /\ f <= t /\ b + c \in Uint64
  BY DEF AmountsFit
<1>3. /\ s.quoteFree = ToUint64(a + c) /\ s.quoteLocked = ToUint64(b - a)
      /\ s.baseFree = f /\ s.baseLocked = ToUint64(t - f)
  BY DEF splitOpenOrders
<1> HIDE DEF a, b, c, f, t, s
<1>4. a + c \in Uint64 /\ b - a \in Uint64 /\ t - f \in Uint64
  BY <1>1, <1>2, WordAssumption DEF Uint64
<1>5. /\ ToUint64(a + c) = a + c /\ ToUint64(b - a) = b - a /\ ToUint64(t - f) = t - f
      /\ ToUint64(b + c) = b + c
      /\ a + c \in Nat /\ b - a \in Nat /\ t - f \in Nat /\ f \in Nat /\ t \in Nat /\ b + c \in Nat
  BY <1>1, <1>2, <1>4, WordsAre
<1>6. QED
  BY <1>3, <1>5 DEF a, b, c, f, t, s

\* Open orders add to the position, in either case, and to the quote currency.
LEMMA OrdersAdd ==
  ASSUME Typed, NEW i \in Markets, price(i) > 0, NEW oo \in OpenOrdersAccount, AmountsFit(i, oo)
  PROVE  \A case \in {SpotBids(i, oo), SpotAsks(i, oo)} :
           case.pos \in Int /\ case.pos >= getNet(i) /\ case.quote \in Nat
<1> DEFINE s == splitOpenOrders(oo)
           d == Divide(Fixed(s.quoteLocked), price(i))
           m == Times(s.baseLocked, price(i))
<1>1. One \in Nat \ {0} /\ Top \in Nat \ {0} /\ getNet(i) \in Int /\ price(i) \in Int
  BY OneAssumption, TopAssumption, NetTyped, MarketsTyped DEF Tokens
<1>2. \A amount \in {s.quoteFree, s.quoteLocked, s.quoteFree + s.quoteLocked, s.baseFree, s.baseLocked} :
        amount \in Nat /\ amount * One < Top
  <2>1. s.quoteFree \in Nat /\ s.quoteLocked \in Nat /\ s.baseFree \in Nat /\ s.baseLocked \in Nat
    BY SplitIs
  <2>2. \A amount \in {s.quoteFree, s.quoteLocked, s.quoteFree + s.quoteLocked, s.baseFree, s.baseLocked} :
          amount * One < Top
    BY DEF AmountsFit
  <2> HIDE DEF s
  <2>3. s.quoteFree + s.quoteLocked \in Nat
    BY <2>1
  <2>4. QED
    BY <2>1, <2>2, <2>3
<1>3. d \in 0 .. Top - 1 /\ Exact(Fixed(s.baseLocked), price(i))
  BY DEF AmountsFit
<1> HIDE DEF s, d
<1>4. \A amount \in {s.quoteFree, s.quoteLocked, s.quoteFree + s.quoteLocked, s.baseFree, s.baseLocked} :
        Fixed(amount) \in Nat
  <2> SUFFICES ASSUME NEW amount \in Nat, amount * One < Top
               PROVE  Fixed(amount) \in Nat
    BY <1>2
  <2>1. amount * One \in Nat /\ -Top <= amount * One /\ amount \in Int
    BY <1>1
  <2>2. QED
    BY <2>1, FixedExact
<1>5. m \in Nat
  <2>1. Fixed(s.baseLocked) \in Int /\ 0 <= Fixed(s.baseLocked) /\ 0 \in Int /\ 0 <= price(i)
    BY <1>1, <1>4
  <2>2. Exact(0, price(i)) /\ Multiply(0, price(i)) = 0
    BY <1>1, MultiplyZero
  <2>3. 0 <= Multiply(Fixed(s.baseLocked), price(i))
    BY <1>1, <1>3, <2>1, <2>2, MultiplyMonotone
  <2>4. Multiply(Fixed(s.baseLocked), price(i)) \in Int
    BY <1>1, <2>1, MultiplyExact, RawIsInt
  <2>5. QED
    BY <2>3, <2>4 DEF Times
<1>6. /\ SpotBids(i, oo).pos = getNet(i) + d + Fixed(s.baseFree) + Fixed(s.baseLocked)
      /\ SpotBids(i, oo).quote = Fixed(s.quoteFree)
      /\ SpotAsks(i, oo).pos = getNet(i) + Fixed(s.baseFree)
      /\ SpotAsks(i, oo).quote = m + Fixed(s.quoteFree + s.quoteLocked)
  BY DEF SpotBids, SpotAsks, Case, s, d
<1> HIDE DEF m
<1>7. d \in Nat /\ Fixed(s.baseFree) \in Nat /\ Fixed(s.baseLocked) \in Nat
      /\ Fixed(s.quoteFree) \in Nat /\ Fixed(s.quoteFree + s.quoteLocked) \in Nat
  BY <1>1, <1>3, <1>4
<1>8. QED
  BY <1>1, <1>5, <1>6, <1>7

\* Without them the position is the net one.
LEMMA WithoutOrders ==
  ASSUME NEW i \in Markets
  PROVE  SpotComponent(i, NoOrders).pos = getNet(i) /\ SpotComponent(i, NoOrders).quote = 0
<1>1. DOMAIN NoOrders = {}
  BY DEF NoOrders
<1>2. SpotComponent(i, NoOrders) = Case(getNet(i), 0)
  BY <1>1 DEF SpotComponent
<1>3. QED
  BY <1>2 DEF Case

\* With them it is not below that, and nothing is paid for it.
LEMMA WithOrders ==
  ASSUME Typed, OrdersTyped, NEW i \in Markets, price(i) > 0,
         info.spotOpenOrders[i] \in DOMAIN orders => AmountsFit(i, orders[info.spotOpenOrders[i]])
  PROVE  /\ SpotComponent(i, orders).pos \in Int /\ SpotComponent(i, orders).pos >= getNet(i)
         /\ SpotComponent(i, orders).quote \in Nat
<1> DEFINE key == info.spotOpenOrders[i]
<1>1. CASE key \in DOMAIN orders /\ info.inMarginBasket[i]
  <2>1. \A case \in {SpotBids(i, orders[key]), SpotAsks(i, orders[key])} :
          case.pos \in Int /\ case.pos >= getNet(i) /\ case.quote \in Nat
    <3>1. orders[key] \in OpenOrdersAccount
      BY <1>1 DEF OrdersTyped
    <3>2. QED
      BY <1>1, <3>1, OrdersAdd
  <2>2. SpotComponent(i, orders) = Worse(SpotBids(i, orders[key]), SpotAsks(i, orders[key]))
    BY <1>1 DEF SpotComponent
  <2>3. SpotComponent(i, orders) \in {SpotBids(i, orders[key]), SpotAsks(i, orders[key])}
    BY <2>2 DEF Worse
  <2>4. QED
    BY <2>1, <2>3
<1>2. CASE ~(key \in DOMAIN orders /\ info.inMarginBasket[i])
  <2>1. SpotComponent(i, orders) = Case(getNet(i), 0)
    BY <1>2 DEF SpotComponent
  <2>2. getNet(i) \in Int
    BY NetTyped DEF Tokens
  <2>3. QED
    BY <2>1, <2>2 DEF Case
<1>3. QED
  BY <1>1, <1>2

\* what an integer becomes is a number, and so is its product with one
LEMMA FixedTyped ==
  ASSUME NEW n \in Int
  PROVE  Fixed(n) \in Int /\ \A a \in Int : Times(n, a) \in Int
<1>1. n * One \in Int /\ Top \in Nat \ {0}
  BY OneAssumption, TopAssumption
<1>2. Fixed(n) \in Raw
  BY <1>1, WrapIntoRange DEF Fixed, ToRaw, Raw
<1>3. Fixed(n) \in Int
  BY <1>2, RawIsInt
<1>4. \A a \in Int : Multiply(Fixed(n), a) \in Raw
  BY <1>3, MultiplyExact
<1>5. QED
  BY <1>3, <1>4, RawIsInt DEF Times

\* the lots of a perpetual position and what goes with it
LEMMA PerpNumbers ==
  ASSUME Typed, NEW i \in Markets
  PROVE  /\ PerpQuote(i) \in Int /\ getQuotePosition(i) \in Int
         /\ PerpBase(i) \in Int64 /\ PerpBidsBase(i) \in Int64 /\ PerpAsksBase(i) \in Int64
         /\ info.perpAccounts[i].basePosition \in Int64 /\ info.perpAccounts[i].takerBase \in Int64
         /\ info.perpAccounts[i].bidsQuantity \in Int64 /\ info.perpAccounts[i].asksQuantity \in Int64
         /\ group.perp[i].baseLotSize \in Int64 /\ group.perp[i].quoteLotSize \in Int64
         /\ \A n \in Int64 : Lots(i, n) \in Int64
<1> DEFINE p == info.perpAccounts[i]
           m == group.perp[i]
<1>1. info \in MangoAccountInfo /\ cache \in MangoCache /\ m \in MarketInfo
  BY LayoutAssumption, MarketsTyped DEF Typed
<1>2. p \in PerpAccountInfo
  BY <1>1 DEF MangoAccountInfo
<1>3. /\ p.basePosition \in Int64 /\ p.bidsQuantity \in Int64 /\ p.asksQuantity \in Int64
      /\ p.takerBase \in Int64 /\ p.takerQuote \in Int64
      /\ p.quotePosition \in Raw /\ p.longSettledFunding \in Raw /\ p.shortSettledFunding \in Raw
  <2> HIDE DEF p
  <2>1. QED
    BY <1>2 DEF PerpAccountInfo
<1>4. p.quotePosition \in Int /\ p.longSettledFunding \in Int /\ p.shortSettledFunding \in Int
  BY <1>3, RawIsInt
<1>5. cache.long_funding[i] \in Int /\ cache.short_funding[i] \in Int
  <2>1. cache.long_funding[i] \in Raw /\ cache.short_funding[i] \in Raw
    BY <1>1 DEF MangoCache
  <2>2. QED
    BY <2>1, RawIsInt
<1>6. m.baseLotSize \in Int64 /\ m.quoteLotSize \in Int64
  <2> HIDE DEF m
  <2>1. QED
    BY <1>1 DEF MarketInfo
<1>7. getUnsettledFunding(i) \in Int
  <2>1. /\ cache.short_funding[i] - p.shortSettledFunding \in Int
        /\ cache.long_funding[i] - p.longSettledFunding \in Int
    BY <1>4, <1>5
  <2>2. p.basePosition \in Int
    BY <1>3, WordsAre
  <2>3. /\ Times(p.basePosition, cache.short_funding[i] - p.shortSettledFunding) \in Int
        /\ Times(p.basePosition, cache.long_funding[i] - p.longSettledFunding) \in Int
    BY <2>1, <2>2, FixedTyped
  <2>4. QED
    BY <2>3 DEF getUnsettledFunding
<1>8. PerpQuote(i) \in Int /\ getQuotePosition(i) \in Int
  <2> DEFINE n == ToInt64(p.takerQuote * m.quoteLotSize)
  <2>1. Fixed(n) \in Int
    <3>1. p.takerQuote \in Int /\ m.quoteLotSize \in Int
      BY <1>3, <1>6, WordsAre
    <3>2. p.takerQuote * m.quoteLotSize \in Int
      BY <3>1
    <3>3. n \in Int64
      BY <3>2, WordsAre
    <3> HIDE DEF n
    <3>4. n \in Int
      BY <3>3, WordsAre
    <3>5. QED
      BY <3>4, FixedTyped
  <2>2. getQuotePosition(i) \in Int
    BY <1>4, <1>7 DEF getQuotePosition
  <2>3. QED
    BY <2>1, <2>2 DEF PerpQuote
<1>9. ASSUME NEW n \in Int64
      PROVE  Lots(i, n) \in Int64
  <2>1. n \in Int /\ m.baseLotSize \in Int
    BY <1>6, WordsAre
  <2>2. n * m.baseLotSize \in Int
    BY <2>1
  <2>3. QED
    BY <2>2, WordsAre DEF Lots
<1>10. ASSUME NEW x \in Int64, NEW y \in Int64
       PROVE  ToInt64(x + y) \in Int64 /\ ToInt64(x - y) \in Int64
  <2>1. x \in Int /\ y \in Int
    BY WordsAre
  <2>2. x + y \in Int /\ x - y \in Int
    BY <2>1
  <2>3. QED
    BY <2>2, WordsAre
<1>11. PerpBase(i) \in Int64
  BY <1>3, <1>9, <1>10 DEF PerpBase
<1>12. PerpBidsBase(i) \in Int64 /\ PerpAsksBase(i) \in Int64
  BY <1>3, <1>9, <1>10, <1>11 DEF PerpBidsBase, PerpAsksBase
<1>13. QED
  BY <1>3, <1>6, <1>8, <1>9, <1>11, <1>12

\* what a perpetual position adds to the quote currency
LEMMA PerpTyped ==
  ASSUME Typed, NEW i \in Markets
  PROVE  PerpComponent(i).quote \in Int
<1> DEFINE p == info.perpAccounts[i]
           b == Lots(i, p.bidsQuantity)
           a == Lots(i, p.asksQuantity)
<1>1. price(i) \in Int /\ PerpQuote(i) \in Int
  BY MarketsTyped, PerpNumbers
<1>2. b \in Int /\ a \in Int
  <2>1. b \in Int64 /\ a \in Int64
    BY PerpNumbers
  <2> HIDE DEF b, a
  <2>2. QED
    BY <2>1, WordsAre
<1>3. /\ PerpBids(i).quote = PerpQuote(i) - Times(b, price(i))
      /\ PerpAsks(i).quote = PerpQuote(i) + Times(a, price(i))
  BY DEF PerpBids, PerpAsks, Case
<1> HIDE DEF b, a
<1>4. PerpBids(i).quote \in Int /\ PerpAsks(i).quote \in Int
  <2>1. Times(b, price(i)) \in Int /\ Times(a, price(i)) \in Int
    BY <1>1, <1>2, FixedTyped
  <2>2. QED
    BY <1>1, <1>3, <2>1
<1>5. CASE group.perp[i].listed
  <2>1. PerpComponent(i) \in {PerpBids(i), PerpAsks(i)}
    BY <1>5 DEF PerpComponent
  <2>2. QED
    BY <1>4, <2>1
<1>6. CASE ~group.perp[i].listed
  BY <1>6 DEF PerpComponent, Case
<1>7. QED
  BY <1>5, <1>6

\* what the positions add to the quote currency
SpotQuotes(map) == [i \in Markets |-> SpotComponent(i, map).quote]
PerpQuotes == [i \in Markets |-> PerpComponent(i).quote]

LEMMA ComponentsAre ==
  ASSUME NEW map
  PROVE  /\ getHealthComponents(map).quote
              = getNet(QUOTE_INDEX) + SumFunction(SpotQuotes(map)) + SumFunction(PerpQuotes)
         /\ \A i \in Markets : /\ getHealthComponents(map).spot[i] = SpotComponent(i, map).pos
                               /\ getHealthComponents(map).perps[i] = PerpComponent(i).pos
<1> DEFINE spot == [i \in Markets |-> SpotComponent(i, map)]
           perps == [i \in Markets |-> PerpComponent(i)]
<1>1. getHealthComponents(map) = [spot |-> Positions(spot), perps |-> Positions(perps),
                                  quote |-> getNet(QUOTE_INDEX) + Quotes(spot) + Quotes(perps)]
  BY DEF getHealthComponents
<1>2. Quotes(spot) = SumFunction(SpotQuotes(map)) /\ Quotes(perps) = SumFunction(PerpQuotes)
  <2>1. SpotQuotes(map) = [i \in Markets |-> spot[i].quote]
    BY DEF SpotQuotes
  <2>2. PerpQuotes = [i \in Markets |-> perps[i].quote]
    BY DEF PerpQuotes
  <2> HIDE DEF spot, perps
  <2>3. QED
    BY <2>1, <2>2 DEF Quotes
<1>3. \A i \in Markets : Positions(spot)[i] = SpotComponent(i, map).pos /\ Positions(perps)[i] = PerpComponent(i).pos
  BY DEF Positions
<1> HIDE DEF spot, perps
<1>4. QED
  BY <1>1, <1>2, <1>3

\* An account is judged no safer without its open orders.
LEMMA NeverHurtFollows ==
  ASSUME Typed, OrdersTyped
  PROVE  OrdersNeverHurt
<1> DEFINE c == getHealthComponents(orders)
           c0 == getHealthComponents(NoOrders)
<1> SUFFICES ASSUME NothingWraps(c), NothingWraps(c0),
                    \A i \in Markets :
                      info.spotOpenOrders[i] \in DOMAIN orders => AmountsFit(i, orders[info.spotOpenOrders[i]]),
                    NEW type \in HealthTypes
             PROVE  getHealth(NoOrders, type) <= getHealth(orders, type)
  BY DEF OrdersNeverHurt
<1>1. ASSUME NEW i \in Markets
      PROVE  /\ c.spot[i] \in Int /\ c.spot[i] >= c0.spot[i] /\ c.perps[i] = c0.perps[i]
             /\ SpotQuotes(orders)[i] \in Int /\ SpotQuotes(NoOrders)[i] = 0 /\ SpotQuotes(orders)[i] >= 0
             /\ PerpQuotes[i] \in Int
  <2>1. price(i) > 0
    BY DEF NothingWraps
  <2>2. /\ SpotComponent(i, orders).pos \in Int /\ SpotComponent(i, orders).pos >= getNet(i)
        /\ SpotComponent(i, orders).quote \in Nat
    BY <2>1, WithOrders
  <2>3. SpotComponent(i, NoOrders).pos = getNet(i) /\ SpotComponent(i, NoOrders).quote = 0
    BY WithoutOrders
  <2>4. PerpComponent(i).quote \in Int
    BY PerpTyped
  <2>5. /\ c.spot[i] = SpotComponent(i, orders).pos /\ c.perps[i] = PerpComponent(i).pos
        /\ c0.spot[i] = SpotComponent(i, NoOrders).pos /\ c0.perps[i] = PerpComponent(i).pos
    BY ComponentsAre
  <2> HIDE DEF c, c0
  <2>6. QED
    BY <2>2, <2>3, <2>4, <2>5 DEF SpotQuotes, PerpQuotes
<1>2. /\ c.quote = getNet(QUOTE_INDEX) + SumFunction(SpotQuotes(orders)) + SumFunction(PerpQuotes)
      /\ c0.quote = getNet(QUOTE_INDEX) + SumFunction(SpotQuotes(NoOrders)) + SumFunction(PerpQuotes)
  BY ComponentsAre
<1>3. /\ getHealth(orders, type) = c.quote + SumFunction(Terms(c, type))
      /\ getHealth(NoOrders, type) = c0.quote + SumFunction(Terms(c0, type))
  BY DEF getHealth, getHealthFromComponents, Terms
<1> HIDE DEF c, c0
<1>4. ASSUME NEW i \in Markets
      PROVE  Terms(c, type)[i] \in Int /\ Terms(c0, type)[i] \in Int /\ Terms(c0, type)[i] <= Terms(c, type)[i]
  <2>1. /\ price(i) \in Int /\ price(i) > 0 /\ group.spot[i] \in MarketInfo /\ group.perp[i] \in MarketInfo
        /\ Weighable(c.spot[i], i, group.spot[i]) /\ Weighable(c.perps[i], i, group.perp[i])
        /\ Weighable(c0.spot[i], i, group.spot[i])
    BY MarketsTyped DEF NothingWraps
  <2>2. c0.spot[i] <= c.spot[i] /\ c0.spot[i] \in Int
    <3>1. c0.spot[i] \in Int
      <4>1. Sane(c0.spot[i], price(i), Weights(group.spot[i], type).asset, Weights(group.spot[i], type).liab)
        BY <2>1, WeighableSane
      <4>2. QED
        BY <4>1 DEF Sane
    <3>2. QED
      BY <1>1, <3>1
  <2>3. /\ Weighed(c0.spot[i], i, group.spot[i], type) \in Int /\ Weighed(c.spot[i], i, group.spot[i], type) \in Int
        /\ Weighed(c0.spot[i], i, group.spot[i], type) <= Weighed(c.spot[i], i, group.spot[i], type)
    BY <2>1, <2>2, LargerIsHealthier
  <2>4. Weighed(c.perps[i], i, group.perp[i], type) \in Int
    <3>1. c.perps[i] <= c.perps[i]
      <4>1. Sane(c.perps[i], price(i), Weights(group.perp[i], type).asset, Weights(group.perp[i], type).liab)
        BY <2>1, WeighableSane
      <4>2. QED
        BY <4>1 DEF Sane
    <3>2. QED
      BY <2>1, <3>1, LargerIsHealthier
  <2>5. /\ Terms(c, type)[i] = Weighed(c.spot[i], i, group.spot[i], type) + Weighed(c.perps[i], i, group.perp[i], type)
        /\ Terms(c0, type)[i] = Weighed(c0.spot[i], i, group.spot[i], type) + Weighed(c0.perps[i], i, group.perp[i], type)
        /\ c0.perps[i] = c.perps[i]
    BY <1>1 DEF Terms
  <2>6. QED
    BY <2>3, <2>4, <2>5
<1>5. /\ Terms(c, type) \in [Markets -> Int] /\ Terms(c0, type) \in [Markets -> Int]
      /\ SpotQuotes(orders) \in [Markets -> Int] /\ SpotQuotes(NoOrders) \in [Markets -> Int]
      /\ PerpQuotes \in [Markets -> Int]
  <2>1. Terms(c, type) \in [Markets -> Int] /\ Terms(c0, type) \in [Markets -> Int]
    BY <1>4 DEF Terms
  <2>2. 0 \in Int /\ SpotQuotes(orders) \in [Markets -> Int] /\ SpotQuotes(NoOrders) \in [Markets -> Int]
    BY <1>1 DEF SpotQuotes
  <2>3. PerpQuotes \in [Markets -> Int]
    BY <1>1 DEF PerpQuotes
  <2>4. QED
    BY <2>1, <2>2, <2>3
<1>6. NumOracles * 0 = 0
  BY OraclesAssumption
<1>7. /\ SumFunction(Terms(c, type)) \in Int /\ SumFunction(Terms(c0, type)) \in Int
      /\ SumFunction(Terms(c0, type)) <= SumFunction(Terms(c, type))
  <2>1. 0 \in Int /\ \A i \in Markets : Terms(c, type)[i] >= Terms(c0, type)[i] + 0
    BY <1>4
  <2>2. QED
    BY <1>5, <1>6, <2>1, MarketsFinite, SumsApart
<1>8. /\ SumFunction(SpotQuotes(orders)) \in Int /\ SumFunction(SpotQuotes(NoOrders)) \in Int
      /\ SumFunction(SpotQuotes(NoOrders)) <= SumFunction(SpotQuotes(orders))
  <2> DEFINE f == SpotQuotes(orders)
             g == SpotQuotes(NoOrders)
  <2>1. 0 \in Int /\ \A i \in Markets : f[i] >= g[i] + 0
    BY <1>1
  <2>2. f \in [Markets -> Int] /\ g \in [Markets -> Int]
    BY <1>5
  <2> HIDE DEF f, g
  <2>3. SumFunction(f) \in Int /\ SumFunction(g) \in Int /\ SumFunction(f) >= SumFunction(g) + NumOracles * 0
    BY <2>1, <2>2, MarketsFinite, SumsApart
  <2>4. QED
    BY <1>6, <2>3 DEF f, g
<1>9. SumFunction(PerpQuotes) \in Int /\ getNet(QUOTE_INDEX) \in Int
  BY <1>5, MarketsFinite, SumOfDifferences, NetTyped DEF Tokens
<1>10. QED
  BY <1>2, <1>3, <1>7, <1>8, <1>9

----------------------------------------------------------------------------
(* Doubles. *)

\* What a division leaves when it is undone.
LEMMA CutBack ==
  ASSUME NEW a \in Int, NEW m \in Nat \ {0}
  PROVE  /\ a \div m \in Int /\ (a \div m) * m \in Int
         /\ (a \div m) * m <= a /\ a < (a \div m) * m + m
         /\ a >= 0 => a \div m \in Nat
<1> DEFINE q == a \div m
           r == a % m
<1>1. q \in Int /\ r \in Int /\ a = q * m + r /\ 0 <= r /\ r < m
  BY DivMod
<1>2. a >= 0 => q >= 0
  <2>1. ASSUME a >= 0
        PROVE  0 \div m <= a \div m
    BY <2>1, CutMonotone
  <2>2. 0 \div m = 0
    BY DivUnique
  <2>3. QED
    BY <2>1, <2>2
<1> HIDE DEF q, r
<1>3. q * m \in Int
  BY <1>1
<1>4. QED
  BY <1>1, <1>2, <1>3 DEF q

\* the powers of two that a digit is worth
LEMMA ScaleDoubles == Doubling(Scale, MaxExponent) /\ Scale[0] = 1 /\ Largest \in Nat \ {0}
<1>1. Scale = CHOOSE g : Doubling(g, MaxExponent)
  BY DEF Scale, Doubling, PowersOf
<1>2. MaxExponent \in Nat
  BY ExponentAssumption
<1>3. Doubling(Scale, MaxExponent)
  BY <1>1, <1>2, DoublingExists
<1>4. MaxExponent \in 0 .. MaxExponent
  BY <1>2
<1>5. QED
  BY <1>2, <1>3, <1>4, DoublingFacts DEF Largest

\* A number that is not too large keeps its leading digits: the last of them is
\* worth one or, against the number, as little as the digits are many.
LEMMA UnitIs ==
  ASSUME NEW limit \in Nat, limit >= 4, NEW x \in Nat, x < 4 * Largest
  PROVE  /\ Unit(limit, x) \in Nat \ {0}
         /\ Unit(limit, x) = 1 \/ Unit(limit, x) * limit <= 2 * x
<1> DEFINE S == {k \in 0 .. MaxExponent : ~(x \div Scale[k] >= limit)}
           k == CHOOSE i \in 0 .. MaxExponent : BelowAfter(Scale, limit, x, i)
<1>1. /\ MaxExponent \in Nat /\ Doubling(Scale, MaxExponent) /\ Largest \in Nat \ {0}
      /\ Scale[0] = 1 /\ Largest = Scale[MaxExponent]
  BY ExponentAssumption, ScaleDoubles DEF Largest
<1>2. ~(x \div Largest >= 4)
  <2> DEFINE q == x \div Largest
  <2>1. q \in Int /\ q * Largest <= x /\ q * Largest \in Int
    BY <1>1, CutBack
  <2> HIDE DEF q
  <2>2. SUFFICES ASSUME q >= 4
                 PROVE  FALSE
    BY DEF q
  <2>3. 4 * Largest <= q * Largest
    BY <1>1, <2>1, <2>2, ProductMonotone
  <2>4. QED
    BY <1>1, <2>1, <2>3
<1>3. MaxExponent \in S
  <2>1. x \div Largest \in Int
    BY <1>1, DivMod
  <2> DEFINE q == x \div Largest
  <2> HIDE DEF q
  <2>2. ~(q >= limit)
    BY <1>2, <2>1 DEF q
  <2>3. QED
    BY <1>1, <2>2 DEF q
<1>4. S \in SUBSET Nat /\ S # {}
  BY <1>3
<1>5. PICK j \in S : \A i \in S : j <= i
  <2> HIDE DEF S
  <2>1. QED
    BY <1>4, LeastElement
<1>6. BelowAfter(Scale, limit, x, j) /\ j \in 0 .. MaxExponent
  <2>1. j \in 0 .. MaxExponent /\ ~(x \div Scale[j] >= limit)
    OBVIOUS
  <2>2. ASSUME j > 0
        PROVE  x \div Scale[j - 1] >= limit
    <3>1. j - 1 \in 0 .. MaxExponent /\ ~(j <= j - 1)
      BY <1>1, <2>1, <2>2
    <3>2. QED
      BY <1>5, <3>1
  <2>3. QED
    BY <2>1, <2>2 DEF BelowAfter
<1>7. Unit(limit, x) = Scale[k]
  BY DEF Unit, BelowAfter
<1> HIDE DEF S, k
<1>8. k \in 0 .. MaxExponent /\ BelowAfter(Scale, limit, x, k)
  BY <1>6 DEF k
<1>9. Scale[k] \in Nat \ {0}
  BY <1>1, <1>8, DoublingFacts
<1>10. CASE k = 0
  BY <1>1, <1>7, <1>10
<1>11. CASE k # 0
  <2> DEFINE i == k - 1
             h == Scale[i]
             q == x \div h
  <2>1. i \in 0 .. MaxExponent /\ i \in 0 .. MaxExponent - 1 /\ i + 1 = k /\ k > 0
    BY <1>1, <1>8, <1>11
  <2>2. q >= limit
    BY <1>8, <2>1 DEF BelowAfter
  <2> HIDE DEF i
  <2>3. h \in Nat \ {0} /\ Scale[k] = 2 * h
    BY <1>1, <2>1, DoublingFacts
  <2> HIDE DEF h
  <2>4. q \in Int /\ x % h \in Int /\ x = q * h + (x % h) /\ 0 <= x % h
    BY <2>3, DivMod
  <2> HIDE DEF q
  <2>5. limit * h <= q * h
    BY <2>2, <2>3, <2>4, ProductMonotone
  <2>6. q * h \in Int /\ limit * h \in Int /\ (2 * h) * limit = 2 * (limit * h)
    BY <2>3, <2>4
  <2> DEFINE y == q * h
             r == x % h
             l == limit * h
  <2>7. y \in Int /\ r \in Int /\ l \in Int /\ x = y + r /\ 0 <= r /\ l <= y
    BY <2>4, <2>5, <2>6
  <2> HIDE DEF y, r, l
  <2>8. 2 * l <= 2 * x
    BY <2>7
  <2>9. QED
    BY <1>7, <1>9, <2>3, <2>6, <2>8 DEF l
<1>12. QED
  BY <1>10, <1>11

\* The nearest integer is not further away than half a unit.
LEMMA NearestIs ==
  ASSUME NEW n \in Nat, NEW m \in Nat \ {0}
  PROVE  LET r == Nearest(n, m)
         IN  r \in Nat /\ r * m \in Int /\ 2 * (r * m - n) <= m /\ 2 * (n - r * m) <= m
<1> DEFINE q == n \div m
           s == n % m
           up == 2 * s > m \/ (2 * s = m /\ q % 2 = 1)
<1>1. q \in Int /\ s \in Int /\ n = q * m + s /\ 0 <= s /\ s < m
  BY DivMod
<1>2. q \in Nat
  <2>1. 0 \div m <= q /\ 0 \div m = 0
    BY CutMonotone, DivUnique
  <2> HIDE DEF q
  <2>2. QED
    BY <1>1, <2>1
<1>3. Nearest(n, m) = q + (IF up THEN 1 ELSE 0)
  BY DEF Nearest
<1> HIDE DEF q, s
<1>4. CASE up
  <2> DEFINE y == q * m
  <2>1. y \in Int /\ (q + 1) * m = y + m
    BY <1>2
  <2>2. n = y + s /\ 2 * s >= m
    BY <1>1, <1>4
  <2> HIDE DEF y
  <2>3. 2 * ((y + m) - n) <= m /\ 2 * (n - (y + m)) <= m /\ y + m \in Int
    BY <1>1, <2>1, <2>2
  <2>4. Nearest(n, m) = q + 1
    BY <1>3, <1>4
  <2>5. QED
    BY <1>2, <2>1, <2>3, <2>4
<1>5. CASE ~up
  <2> DEFINE y == q * m
  <2>1. y \in Int
    BY <1>2
  <2>2. n = y + s /\ 2 * s <= m
    BY <1>1, <1>5
  <2> HIDE DEF y
  <2>3. 2 * (y - n) <= m /\ 2 * (n - y) <= m
    BY <1>1, <2>1, <2>2
  <2>4. Nearest(n, m) = q
    BY <1>2, <1>3, <1>5
  <2>5. QED
    BY <1>2, <2>1, <2>3, <2>4 DEF y
<1>6. QED
  BY <1>4, <1>5

\* what fits into a number so many times is no more than the quotient
LEMMA AtMostQuotient ==
  ASSUME NEW e \in Int, NEW a \in Nat, NEW m \in Nat \ {0}, e * m <= a
  PROVE  e <= a \div m
<1> DEFINE q == a \div m
<1>1. q \in Int /\ q * m \in Int /\ a < q * m + m
  BY CutBack
<1> HIDE DEF q
<1>2. ~(e >= q + 1)
  <2>1. SUFFICES ASSUME e >= q + 1
                 PROVE  FALSE
    OBVIOUS
  <2>2. e * m >= q * m + m
    BY <1>1, <2>1, ProductGrows
  <2>3. e * m \in Int
    OBVIOUS
  <2>4. QED
    BY <1>1, <2>2, <2>3
<1>3. e <= q
  BY <1>1, <1>2
<1>4. QED
  BY <1>3 DEF q

\* A double is as near to the number it stands for as its digits allow.
LEMMA DoubleIs ==
  ASSUME NEW n \in Nat, n < 4 * Largest
  PROVE  LET d == ToDouble(n)
         IN  d \in Nat /\ (d - n) * Mantissa <= n /\ (n - d) * Mantissa <= n
<1> DEFINE M == Mantissa
           u == Unit(M, n)
           r == Nearest(n, u)
<1>1. M \in Nat /\ M >= 4
  BY MantissaAssumption
<1>2. u \in Nat \ {0} /\ (u = 1 \/ u * M <= 2 * n)
  BY <1>1, UnitIs
<1>3. ToDouble(n) = r * u
  <2>1. n \div 1 = n
    BY DivUnique
  <2>2. ~(n < 0)
    OBVIOUS
  <2>3. ToDouble(n) = Rounded(M, n, 1)
    BY <2>2 DEF ToDouble
  <2>4. 1 * u = u
    BY <1>2
  <2> HIDE DEF M
  <2>5. QED
    BY <2>1, <2>3, <2>4 DEF Rounded
<1> HIDE DEF M, u
<1>4. r \in Nat /\ r * u \in Int /\ 2 * (r * u - n) <= u /\ 2 * (n - r * u) <= u
  BY <1>2, NearestIs
<1> HIDE DEF r
<1>5. r * u \in Nat
  BY <1>2, <1>4
<1> DEFINE d == r * u
<1>6. d \in Nat /\ 2 * (d - n) <= u /\ 2 * (n - d) <= u
  BY <1>4, <1>5
<1> HIDE DEF d
<1>7. ASSUME NEW e \in Int, 2 * e <= u
      PROVE  e * M <= n
  <2>1. CASE u = 1
    <3>1. e <= 0
      BY <1>7, <2>1
    <3>2. e * M <= 0 * M /\ 0 * M = 0 /\ e * M \in Int
      BY <1>1, <3>1, ProductMonotone
    <3>3. QED
      BY <3>2
  <2>2. CASE u * M <= 2 * n
    <3>1. (2 * e) * M <= u * M
      BY <1>1, <1>2, <1>7, ProductMonotone
    <3>2. (2 * e) * M = 2 * (e * M) /\ e * M \in Int /\ u * M \in Int
      BY <1>1, <1>2
    <3> DEFINE x == e * M
               y == u * M
    <3>3. x \in Int /\ y \in Int /\ 2 * x <= y /\ y <= 2 * n
      BY <2>2, <3>1, <3>2
    <3> HIDE DEF x, y
    <3>4. x <= n
      BY <3>3
    <3>5. QED
      BY <3>4 DEF x
  <2>3. QED
    BY <1>2, <2>1, <2>2
<1>8. d - n \in Int /\ n - d \in Int
  BY <1>6
<1>9. (d - n) * M <= n /\ (n - d) * M <= n
  BY <1>6, <1>7, <1>8
<1>10. QED
  BY <1>3, <1>6, <1>9 DEF d, M

\* So it differs by the quotient at most.
LEMMA DoubleWithin ==
  ASSUME NEW n \in Nat, n < 4 * Largest
  PROVE  /\ ToDouble(n) \in Nat /\ n \div Mantissa \in Nat
         /\ ToDouble(n) <= n + (n \div Mantissa) /\ n <= ToDouble(n) + (n \div Mantissa)
<1> DEFINE d == ToDouble(n)
           q == n \div Mantissa
<1>1. Mantissa \in Nat \ {0}
  BY MantissaAssumption
<1>2. d \in Nat /\ (d - n) * Mantissa <= n /\ (n - d) * Mantissa <= n
  BY DoubleIs
<1>3. q \in Nat
  BY <1>1, CutBack
<1> HIDE DEF d
<1>4. d - n <= q /\ n - d <= q
  <2>1. d - n \in Int /\ n - d \in Int
    BY <1>2
  <2>2. QED
    BY <1>1, <1>2, <2>1, AtMostQuotient
<1> HIDE DEF q
<1>5. d <= n + q /\ n <= d + q
  BY <1>2, <1>3, <1>4
<1>6. QED
  BY <1>2, <1>3, <1>5 DEF d, q

\* The long double of a quotient: near it, and not too large for a double.
LEMMA LongIs ==
  ASSUME NEW n \in Nat, NEW m \in Nat \ {0}, n \div m <= Largest
  PROVE  LET f == Rounded(LongMantissa, n, m)
         IN  /\ f \in Nat /\ f < 4 * Largest
             /\ 2 * (f * m) <= 3 * n + m
             /\ (2 * Mantissa) * (f * m - n) <= m * Mantissa + 2 * n
             /\ (2 * Mantissa) * (n - f * m) <= m * Mantissa + 2 * n
<1> DEFINE M == Mantissa
           L == LongMantissa
           x == n \div m
           u == Unit(L, x)
           k == Nearest(n, m * u)
           f == k * u
           F == Largest
<1>1. M \in Nat /\ L \in Nat /\ M >= 4 /\ M <= L /\ L >= 4
  BY MantissaAssumption
<1>2. F \in Nat \ {0}
  BY ScaleDoubles
<1>3. x \in Nat /\ x * m \in Int /\ x * m <= n /\ n < x * m + m
  BY CutBack
<1>4. x <= F /\ x < 4 * F
  <2>1. x <= F
    OBVIOUS
  <2> HIDE DEF x, F
  <2>2. QED
    BY <1>2, <1>3, <2>1
<1>5. Rounded(L, n, m) = f
  BY DEF Rounded
<1> HIDE DEF x
<1>6. u \in Nat \ {0} /\ (u = 1 \/ u * L <= 2 * x)
  BY <1>1, <1>3, <1>4, UnitIs
<1> HIDE DEF M, L, F, u
<1>7. m * u \in Nat \ {0}
  <2>1. 1 * u <= m * u
    BY <1>6, ProductMonotone
  <2>2. QED
    BY <1>6, <2>1
<1>8. k \in Nat /\ 2 * (k * (m * u) - n) <= m * u /\ 2 * (n - k * (m * u)) <= m * u
  BY <1>7, NearestIs
<1> HIDE DEF k
<1>9. f \in Nat /\ f * m = k * (m * u) /\ f * m \in Int
  BY <1>6, <1>8
<1> HIDE DEF f
<1> DEFINE y == f * m
           v == m * u
           xm == x * m
<1>10. y \in Int /\ v \in Nat \ {0} /\ xm \in Int /\ 2 * (y - n) <= v /\ 2 * (n - y) <= v /\ xm <= n /\ n < xm + m
  BY <1>3, <1>7, <1>8, <1>9
\* the last digit is worth no more than the number, rounded up
<1>11. v <= xm + m
  <2>1. u <= x + 1
    <3>1. CASE u = 1
      BY <1>3, <3>1
    <3>2. CASE u * L <= 2 * x
      <4>1. 4 * u <= L * u /\ L * u = u * L /\ u * L \in Int
        BY <1>1, <1>6, ProductMonotone
      <4>2. QED
        BY <1>3, <1>6, <3>2, <4>1
    <3>3. QED
      BY <1>6, <3>1, <3>2
  <2>2. u * m <= (x + 1) * m
    BY <1>3, <1>6, <2>1, ProductMonotone
  <2>3. (x + 1) * m = x * m + m /\ u * m = m * u
    BY <1>3, <1>6
  <2>4. QED
    BY <2>2, <2>3
\* and, against the number, as little as the digits of a double are many
<1>12. v * M <= m * M + 2 * n /\ v * M \in Int
  <2>1. v * M \in Int /\ m * M \in Int /\ m * M >= 0
    BY <1>1, <1>10
  <2>2. CASE u = 1
    <3>1. v = m
      BY <2>2
    <3>2. QED
      BY <2>1, <3>1
  <2>3. CASE u * L <= 2 * x
    <3>1. M * u <= L * u
      BY <1>1, <1>6, ProductMonotone
    <3>2. M * u = u * M /\ L * u = u * L /\ u * M \in Int /\ u * L \in Int /\ 2 * x \in Int
      BY <1>1, <1>3, <1>6
    <3>3. u * M <= 2 * x
      BY <2>3, <3>1, <3>2
    <3>4. (u * M) * m <= (2 * x) * m
      BY <3>2, <3>3, ProductMonotone
    <3>5. (u * M) * m = v * M /\ (2 * x) * m = 2 * xm
      BY <1>1, <1>3, <1>6
    <3> DEFINE w == v * M
               mm == m * M
    <3>6. w \in Int /\ mm \in Int /\ mm >= 0 /\ w <= 2 * xm
      BY <2>1, <3>4, <3>5
    <3> HIDE DEF v, xm, w, mm
    <3>7. w <= mm + 2 * n
      BY <1>10, <3>6
    <3>8. QED
      BY <2>1, <3>7 DEF w, mm
  <2>4. QED
    BY <1>6, <2>2, <2>3
<1>13. \A e \in Int : 2 * e <= v => (2 * M) * e <= m * M + 2 * n
  <2> SUFFICES ASSUME NEW e \in Int, 2 * e <= v
               PROVE  (2 * M) * e <= m * M + 2 * n
    OBVIOUS
  <2> HIDE DEF v
  <2>1. (2 * e) * M <= v * M
    BY <1>1, <1>10, ProductMonotone
  <2>2. (2 * e) * M = (2 * M) * e /\ (2 * M) * e \in Int /\ m * M \in Int
    BY <1>1
  <2>3. QED
    BY <1>12, <2>1, <2>2
<1> HIDE DEF y, v, xm
<1>14. y - n \in Int /\ n - y \in Int
  BY <1>10
<1>15. (2 * M) * (y - n) <= m * M + 2 * n /\ (2 * M) * (n - y) <= m * M + 2 * n
  BY <1>10, <1>13, <1>14
<1>16. 2 * y <= 3 * n + m /\ 2 * y < 3 * xm + 3 * m
  BY <1>10, <1>11
<1>17. f < 4 * F
  <2>1. SUFFICES ASSUME f >= 4 * F
                 PROVE  FALSE
    BY <1>2, <1>9
  <2>2. 2 * f >= 3 * x + 3
    BY <1>2, <1>3, <1>4, <1>9, <2>1
  <2>3. (3 * x + 3) * m <= (2 * f) * m
    BY <1>3, <1>9, <2>2, ProductMonotone
  <2>4. (3 * x + 3) * m = 3 * xm + 3 * m /\ (2 * f) * m = 2 * y
    BY <1>3, <1>9 DEF xm, y
  <2>5. QED
    BY <1>10, <1>16, <2>3, <2>4
<1>18. QED
  BY <1>5, <1>9, <1>15, <1>16, <1>17 DEF M, L, F, y
\* So is the double that becomes of it, with what the second rounding adds.
LEMMA QuotientIs ==
  ASSUME NEW n \in Nat, NEW m \in Nat \ {0}, n \div m <= Largest
  PROVE  LET r == QuotientAsDouble(n, m)
         IN  /\ r \in Nat
             /\ Mantissa * (r * m - n) <= 3 * n + m * Mantissa
             /\ Mantissa * (n - r * m) <= 3 * n + m * Mantissa
<1> DEFINE M == Mantissa
           f == Rounded(LongMantissa, n, m)
           r == ToDouble(f)
<1>1. M \in Nat /\ M >= 4
  BY MantissaAssumption
<1>2. /\ f \in Nat /\ f < 4 * Largest
      /\ 2 * (f * m) <= 3 * n + m
      /\ (2 * M) * (f * m - n) <= m * M + 2 * n
      /\ (2 * M) * (n - f * m) <= m * M + 2 * n
  BY LongIs
<1>3. QuotientAsDouble(n, m) = r
  <2>1. ~(f < 0)
    BY <1>2
  <2>2. QuotientAsDouble(n, m) = Rounded(M, f, 1)
    BY DEF QuotientAsDouble
  <2> HIDE DEF M, f
  <2>3. r = Rounded(M, f, 1)
    BY <2>1 DEF ToDouble, M
  <2>4. QED
    BY <2>2, <2>3
<1> HIDE DEF f
<1>4. r \in Nat /\ (r - f) * M <= f /\ (f - r) * M <= f
  BY <1>2, DoubleIs
<1> HIDE DEF r, M
<1> DEFINE rm == r * m
           fm == f * m
           g == (r - f) * M
           h == (f - r) * M
           x == M * (rm - n)
           y == M * (n - rm)
           a == M * (fm - n)
           b == M * (n - fm)
           mM == m * M
<1>5. rm \in Int /\ fm \in Int /\ g \in Int /\ h \in Int
  BY <1>1, <1>2, <1>4
<1>6. g * m <= fm /\ h * m <= fm
  BY <1>2, <1>4, <1>5, ProductMonotone
<1>7. x = g * m + a /\ y = h * m + b /\ g * m \in Int /\ h * m \in Int /\ a \in Int /\ b \in Int
  <2>1. /\ g * m = M * rm - M * fm /\ h * m = M * fm - M * rm
        /\ M * rm \in Int /\ M * fm \in Int /\ M * n \in Int
    BY <1>1, <1>2, <1>4
  <2>2. /\ x = M * rm - M * n /\ y = M * n - M * rm
        /\ a = M * fm - M * n /\ b = M * n - M * fm
    BY <1>1, <1>5
  <2> HIDE DEF x, y, a, b, rm, fm, g, h
  <2>3. QED
    BY <2>1, <2>2
<1>8. 2 * a <= mM + 2 * n /\ 2 * b <= mM + 2 * n /\ 2 * fm <= 3 * n + m
  <2>1. (2 * M) * (fm - n) = 2 * a /\ (2 * M) * (n - fm) = 2 * b
    BY <1>1, <1>5
  <2>2. QED
    BY <1>2, <2>1
<1>9. m <= mM /\ mM \in Int
  <2>1. 1 * m <= M * m
    BY <1>1, ProductMonotone
  <2>2. M * m = mM /\ mM \in Int
    BY <1>1
  <2>3. QED
    BY <2>1, <2>2
<1> DEFINE gm == g * m
           hm == h * m
<1>10. gm \in Int /\ hm \in Int /\ gm <= fm /\ hm <= fm /\ x = gm + a /\ y = hm + b
  BY <1>6, <1>7
<1> HIDE DEF rm, fm, g, h, x, y, a, b, mM, gm, hm
<1>11. 2 * x <= 6 * n + 2 * mM /\ 2 * y <= 6 * n + 2 * mM /\ x \in Int /\ y \in Int
  BY <1>5, <1>7, <1>8, <1>9, <1>10
<1>12. x <= 3 * n + mM /\ y <= 3 * n + mM
  BY <1>9, <1>11
<1>13. QED
  BY <1>3, <1>4, <1>12 DEF x, y, rm, mM, M

----------------------------------------------------------------------------
(* The worst case. *)

\* Weighing cuts twice, which loses less than three bits.
LEMMA WeighedByCuts ==
  ASSUME NEW g \in Int, NEW w \in Nat, NEW m \in Nat \ {0}, w <= 2 * m
  PROVE  LET v == ((g \div m) * w) \div m
         IN  v \in Int /\ (v * m) * m <= g * w /\ g * w < (v * m) * m + 3 * (m * m)
<1> DEFINE u == g \div m
           r == g % m
           v == (u * w) \div m
           s == (u * w) % m
<1>1. u \in Int /\ r \in Int /\ g = u * m + r /\ 0 <= r /\ r < m
  BY DivMod
<1> HIDE DEF u, r
<1>2. v \in Int /\ s \in Int /\ u * w = v * m + s /\ 0 <= s /\ s < m
  <2>1. u * w \in Int
    BY <1>1
  <2>2. QED
    BY <2>1, DivMod
<1> HIDE DEF v, s
<1>3. g * w = (v * m) * m + s * m + r * w
  <2>1. g * w = (u * w) * m + r * w
    BY <1>1
  <2>2. (v * m + s) * m = (v * m) * m + s * m
    BY <1>2
  <2>3. QED
    BY <1>2, <2>1, <2>2
<1>4. 0 * m <= s * m /\ s * m <= (m - 1) * m
  BY <1>2, ProductMonotone
<1>5. 0 * w <= r * w /\ r * w <= m * w /\ w * m <= (2 * m) * m
  BY <1>1, ProductMonotone
<1> DEFINE x == (v * m) * m
           y == s * m
           z == r * w
           q == m * m
<1>6. x \in Int /\ y \in Int /\ z \in Int /\ q \in Int
  BY <1>1, <1>2
<1>7. 0 <= y /\ y <= q - m /\ 0 <= z /\ z <= 2 * q
  <2>1. 0 * m = 0 /\ 0 * w = 0 /\ (m - 1) * m = q - m /\ m * w = w * m /\ (2 * m) * m = 2 * q
    OBVIOUS
  <2>2. m * w \in Int
    OBVIOUS
  <2>3. QED
    BY <1>4, <1>5, <1>6, <2>1, <2>2
<1> HIDE DEF x, y, z, q
<1>8. x <= x + y + z /\ x + y + z < x + 3 * q
  BY <1>6, <1>7
<1>9. QED
  BY <1>2, <1>3, <1>8 DEF x, y, z, q, u, v

\* the weight of a position, if they are symmetric
SideWeight(x, a, m) == IF x > 0 THEN a ELSE 2 * m - a

\* With symmetric weights what a position counts is what it is worth less a
\* part of its size, on either side of zero.
LEMMA SymmetricWeight ==
  ASSUME NEW x \in Int, NEW a \in Int, NEW m \in Int
  PROVE  x * SideWeight(x, a, m) = x * m - Magnitude(x) * (m - a)
<1>1. CASE x > 0
  <2>1. x * a = x * m - x * (m - a)
    OBVIOUS
  <2>2. Magnitude(x) = x
    BY <1>1 DEF Magnitude
  <2>3. QED
    BY <1>1, <2>1, <2>2 DEF SideWeight
<1>2. CASE ~(x > 0)
  <2>1. x * (2 * m - a) = x * m - (-x) * (m - a)
    OBVIOUS
  <2>2. Magnitude(x) = -x
    BY <1>2 DEF Magnitude
  <2>3. QED
    BY <1>2, <2>1, <2>2 DEF SideWeight
<1>3. QED
  BY <1>1, <1>2

\* So of two positions the one of the larger size counts no more than the
\* other and the worth of what lies between them, and of what the other may be
\* larger by.
LEMMA LargerCountsLess ==
  ASSUME NEW x \in Int, NEW y \in Int, NEW p \in Nat, NEW m \in Nat \ {0}, NEW a \in Nat, a <= m,
         NEW lost \in Nat, Magnitude(y) <= Magnitude(x) + lost
  PROVE  (x * p) * SideWeight(x, a, m) - (y * p) * SideWeight(y, a, m)
           <= ((x - y + lost) * p) * m
<1> DEFINE wx == SideWeight(x, a, m)
           wy == SideWeight(y, a, m)
           sx == Magnitude(x)
           sy == Magnitude(y)
           c == m - a
<1>1. sx \in Int /\ sy \in Int /\ c \in Nat /\ wx \in Int /\ wy \in Int
  BY DEF Magnitude, SideWeight
<1>2. x * wx = x * m - sx * c /\ y * wy = y * m - sy * c
  <2>1. a \in Int /\ m \in Int
    OBVIOUS
  <2>2. QED
    BY <2>1, SymmetricWeight
<1>3. sy * c <= sx * c + lost * m
  <2>1. sx + lost \in Int /\ sy <= sx + lost /\ c <= m /\ c \in Int /\ m \in Int
    BY <1>1
  <2> HIDE DEF sx, sy, c
  <2>2. sy * c <= (sx + lost) * c /\ c * lost <= m * lost
    BY <1>1, <2>1, ProductMonotone
  <2>3. (sx + lost) * c = sx * c + c * lost /\ m * lost = lost * m
    BY <1>1
  <2>4. sy * c \in Int /\ sx * c \in Int /\ c * lost \in Int /\ lost * m \in Int
    BY <1>1
  <2>5. QED
    BY <2>2, <2>3, <2>4
<1> HIDE DEF wx, wy, sx, sy, c
<1> DEFINE e == x * wx - y * wy
           k == (x - y + lost) * m
<1>4. x * wx \in Int /\ y * wy \in Int /\ x * m \in Int /\ y * m \in Int /\ sx * c \in Int /\ sy * c \in Int
  BY <1>1
<1>5. k = x * m - y * m + lost * m /\ k \in Int /\ lost * m \in Int
  OBVIOUS
<1>6. e \in Int /\ e <= k
  BY <1>2, <1>3, <1>4, <1>5
<1>7. e * p <= k * p
  <2> HIDE DEF e, k
  <2>1. QED
    BY <1>5, <1>6, ProductMonotone
<1>8. e * p = (x * p) * wx - (y * p) * wy
  BY <1>1
<1>9. k * p = ((x - y + lost) * p) * m
  OBVIOUS
<1>10. QED
  BY <1>7, <1>8, <1>9 DEF wx, wy

(* The core: a case whose position is of no smaller size than the other's, *)
(* but for what is lost, and which does not pay less for it than one bit   *)
(* of the position is worth, adds no more to the health.                   *)
LEMMA LargerIsWorse ==
  ASSUME NEW i, price(i) \in Int, price(i) > 0, NEW market \in MarketInfo, NEW type \in HealthTypes,
         Symmetric(market), NEW case, NEW other,
         Weighable(case.pos, i, market), Weighable(other.pos, i, market),
         case.quote \in Int, other.quote \in Int,
         NEW lost \in Nat, Magnitude(other.pos) <= Magnitude(case.pos) + lost,
         (case.pos - other.pos) * price(i) + (case.quote - other.quote) * One <= price(i)
  PROVE  NotAbove(case, other, lost, i, market, type)
<1> DEFINE a == Weights(market, type).asset
           l == Weights(market, type).liab
           p == price(i)
           m == One
           x == case.pos
           y == other.pos
           V(pos) == (((pos * p) \div m) * (IF pos > 0 THEN a ELSE l)) \div m
<1>1. m \in Nat \ {0} /\ p \in Nat \ {0}
  BY OneAssumption
<1>2. Sane(x, p, a, l) /\ Sane(y, p, a, l)
  BY WeighableSane
<1>3. a <= m /\ a + l = 2 * m
  BY DEF Symmetric
<1>4. \A pos : Weighed(pos, i, market, type) = Multiply(Multiply(pos, p), IF pos > 0 THEN a ELSE l)
  BY DEF Weighed
<1> HIDE DEF a, l, p
<1>5. x \in Int /\ y \in Int /\ a \in Nat /\ l \in Nat /\ l = 2 * m - a /\ l <= 2 * m
  <2>1. x \in Int /\ y \in Int /\ a \in Nat /\ l \in Nat
    BY <1>2 DEF Sane
  <2>2. QED
    BY <1>1, <1>3, <2>1
<1>6. ASSUME NEW pos \in {x, y}
      PROVE  /\ Weighed(pos, i, market, type) = V(pos) /\ V(pos) \in Int
             /\ (V(pos) * m) * m <= (pos * p) * SideWeight(pos, a, m)
             /\ (pos * p) * SideWeight(pos, a, m) < (V(pos) * m) * m + 3 * (m * m)
  <2> DEFINE w == IF pos > 0 THEN a ELSE l
             u == Multiply(pos, p)
  <2>1. Sane(pos, p, a, l) /\ pos \in Int
    BY <1>2, <1>5
  <2>2. w \in Nat /\ w <= 2 * m /\ w \in {a, l}
    BY <1>1, <1>3, <1>5
  <2>3. u \in Int /\ Exact(pos, p) /\ Exact(u, w)
    <3>1. u \in Int /\ Exact(pos, p) /\ Exact(u, a) /\ Exact(u, l)
      BY <2>1 DEF Sane
    <3>2. QED
      BY <3>1
  <2> HIDE DEF w, u
  <2>4. u = (pos * p) \div m /\ Multiply(u, w) = (u * w) \div m
    <3>1. u = (pos * p) \div m
      BY <1>1, <2>1, <2>3, MultiplyExact DEF u
    <3>2. Multiply(u, w) = (u * w) \div m
      BY <2>2, <2>3, MultiplyExact
    <3>3. QED
      BY <3>1, <3>2
  <2>5. Weighed(pos, i, market, type) = (((pos * p) \div m) * w) \div m
    BY <1>4, <2>4 DEF u, w
  <2> DEFINE g == pos * p
             v == ((g \div m) * w) \div m
  <2>6. g \in Int
    BY <1>1, <2>1
  <2> HIDE DEF g
  <2>7. v \in Int /\ (v * m) * m <= g * w /\ g * w < (v * m) * m + 3 * (m * m)
    BY <1>1, <2>2, <2>6, WeighedByCuts
  <2>8. v = V(pos) /\ w = SideWeight(pos, a, m)
    BY <1>5 DEF g, w, SideWeight
  <2> HIDE DEF v, V
  <2>9. Weighed(pos, i, market, type) = v
    BY <2>5 DEF v, g
  <2>10. QED
    BY <2>7, <2>8, <2>9 DEF g
<1> HIDE DEF V
<1> DEFINE gx == (x * p) * SideWeight(x, a, m)
           gy == (y * p) * SideWeight(y, a, m)
           d == (x - y + lost) * p
           pp == (1 + lost) * p
           K == case.quote - other.quote
           E == V(x) - V(y)
           h == E + K
<1>7. gx - gy <= d * m
  BY <1>1, <1>3, <1>5, LargerCountsLess
<1>8. /\ V(x) \in Int /\ V(y) \in Int
      /\ (V(x) * m) * m <= gx /\ gy < (V(y) * m) * m + 3 * (m * m)
      /\ Weighed(x, i, market, type) = V(x) /\ Weighed(y, i, market, type) = V(y)
  BY <1>6
<1>9. gx \in Int /\ gy \in Int
  BY <1>1, <1>5 DEF SideWeight
<1>10. d \in Int /\ K \in Int /\ d + K * m <= pp /\ E \in Int /\ pp \in Nat
  <2>1. d = (x - y) * p + lost * p /\ pp = p + lost * p
    BY <1>1, <1>5
  <2>2. (x - y) * p + K * m <= p
    BY DEF p
  <2>3. K \in Int /\ E \in Int /\ (x - y) * p \in Int /\ lost * p \in Nat
    <3>1. K \in Int /\ E \in Int
      BY <1>8
    <3>2. (x - y) * p \in Int /\ lost * p \in Nat
      BY <1>1, <1>5
    <3>3. QED
      BY <3>1, <3>2
  <2>4. K * m \in Int
    BY <1>1, <2>3
  <2> DEFINE u == (x - y) * p
             v == lost * p
  <2> HIDE DEF d, pp, K, E, u, v
  <2>5. QED
    BY <1>1, <2>1, <2>2, <2>3, <2>4 DEF u, v
<1> HIDE DEF gx, gy, d, K, pp
<1>11. (E * m) * m < (d + 3 * m) * m
  <2>1. (E * m) * m = (V(x) * m) * m - (V(y) * m) * m
    BY <1>1, <1>8
  <2>2. (d + 3 * m) * m = d * m + 3 * (m * m)
    BY <1>1, <1>10
  <2>3. (V(x) * m) * m \in Int /\ (V(y) * m) * m \in Int /\ d * m \in Int /\ m * m \in Int
    BY <1>1, <1>8, <1>10
  <2> DEFINE s == (V(x) * m) * m
             t == (V(y) * m) * m
             b == d * m
             q == m * m
  <2>4. s \in Int /\ t \in Int /\ b \in Int /\ q \in Int /\ s <= gx /\ gy < t + 3 * q /\ gx - gy <= b
    BY <1>7, <1>8, <2>3
  <2> HIDE DEF s, t, b, q
  <2>5. s - t < b + 3 * q
    BY <1>9, <2>4
  <2>6. QED
    BY <2>1, <2>2, <2>5 DEF s, t, b, q
<1> HIDE DEF E
<1>12. E * m < d + 3 * m
  <2>1. SUFFICES ASSUME d + 3 * m <= E * m
                 PROVE  FALSE
    BY <1>1, <1>10
  <2>2. d + 3 * m \in Int /\ E * m \in Int
    BY <1>1, <1>10
  <2>3. (d + 3 * m) * m <= (E * m) * m
    BY <1>1, <2>1, <2>2, ProductMonotone
  <2>4. (d + 3 * m) * m \in Int /\ (E * m) * m \in Int
    BY <1>1, <2>2
  <2>5. QED
    BY <1>11, <2>3, <2>4
<1>13. (h - 3) * m < pp
  <2>1. (h - 3) * m = E * m + K * m - 3 * m
    BY <1>1, <1>10
  <2>2. E * m \in Int /\ K * m \in Int
    BY <1>1, <1>10
  <2>3. QED
    BY <1>1, <1>10, <1>12, <2>1, <2>2
<1>14. h \in Int /\ h - 3 <= pp \div m
  <2>1. h \in Int /\ h - 3 \in Int /\ pp \in Int
    BY <1>1, <1>10
  <2> HIDE DEF h
  <2> DEFINE j == pp \div m
  <2>2. j \in Int /\ pp = j * m + (pp % m) /\ pp % m < m /\ pp % m \in Int
    BY <1>1, <2>1, DivMod
  <2> HIDE DEF j
  <2>3. SUFFICES ASSUME h - 3 >= j + 1
                 PROVE  FALSE
    BY <2>1, <2>2 DEF j
  <2>4. (h - 3) * m >= j * m + m
    BY <1>1, <2>1, <2>2, <2>3, ProductGrows
  <2>5. (h - 3) * m \in Int /\ j * m \in Int
    BY <1>1, <2>1, <2>2
  <2>6. QED
    BY <1>1, <1>13, <2>1, <2>2, <2>4, <2>5
<1>15. /\ CaseHealth(case, i, market, type) = case.quote + V(x)
       /\ CaseHealth(other, i, market, type) = other.quote + V(y)
  BY <1>8 DEF CaseHealth
<1>16. h = V(x) - V(y) + (case.quote - other.quote)
  BY DEF E, K
<1> DEFINE r == pp \div m
<1>17. r \in Int
  BY <1>1, <1>10, DivMod
<1> HIDE DEF h, r
<1>18. case.quote + V(x) <= other.quote + V(y) + 3 + r
  BY <1>8, <1>14, <1>16, <1>17 DEF r
<1>19. QED
  BY <1>15, <1>18 DEF NotAbove, r, pp, p

\* The larger of two cases, but for what is lost, is worse than both of them, if
\* the one sells what the other buys at the price.
LEMMA WorseIsWorst ==
  ASSUME NEW i, price(i) \in Int, price(i) > 0, NEW market \in MarketInfo, NEW type \in HealthTypes,
         NEW bids, NEW asks, CasesFit(bids, asks, i, market), bids.quote \in Int, asks.quote \in Int,
         (bids.pos - asks.pos) * price(i) <= (asks.quote - bids.quote) * One,
         (asks.quote - bids.quote) * One <= (bids.pos - asks.pos) * price(i) + price(i),
         NEW lost \in Nat, NEW case \in {bids, asks},
         \A other \in {bids, asks} : Magnitude(other.pos) <= Magnitude(case.pos) + lost
  PROVE  \A other \in {bids, asks} : NotAbove(case, other, lost, i, market, type)
<1>1. Symmetric(market) /\ Weighable(bids.pos, i, market) /\ Weighable(asks.pos, i, market)
  BY DEF CasesFit
<1>2. bids.pos \in Int /\ asks.pos \in Int /\ One \in Int
  <2>1. bids.pos \in Raw /\ asks.pos \in Raw
    BY <1>1 DEF Weighable
  <2>2. QED
    BY <2>1, RawIsInt, OneAssumption
<1> DEFINE D == (bids.pos - asks.pos) * price(i)
           Q == (asks.quote - bids.quote) * One
<1>3. D \in Int /\ Q \in Int /\ D <= Q /\ Q <= D + price(i)
  BY <1>2
<1>4. /\ (asks.pos - bids.pos) * price(i) = -D /\ (bids.quote - asks.quote) * One = -Q
      /\ \A v \in Int : (v - v) * price(i) = 0 /\ (v - v) * One = 0
  BY <1>2
<1> DEFINE Between(one, other) ==
             (one.pos - other.pos) * price(i) + (one.quote - other.quote) * One
<1>5. /\ Between(bids, asks) = D - Q /\ Between(asks, bids) = Q - D
      /\ Between(bids, bids) = 0 /\ Between(asks, asks) = 0
  <2>1. Between(bids, asks) = D - Q
    BY <1>3, <1>4
  <2>2. Between(asks, bids) = Q - D
    BY <1>3, <1>4
  <2>3. Between(bids, bids) = 0 /\ Between(asks, asks) = 0
    BY <1>2, <1>4
  <2>4. QED
    BY <2>1, <2>2, <2>3
<1> HIDE DEF D, Q
<1>6. \A other \in {bids, asks} : Between(case, other) <= price(i)
  BY <1>3, <1>5
<1>7. SUFFICES ASSUME NEW other \in {bids, asks}
               PROVE  NotAbove(case, other, lost, i, market, type)
  OBVIOUS
<1>8. /\ Weighable(case.pos, i, market) /\ Weighable(other.pos, i, market)
      /\ case.quote \in Int /\ other.quote \in Int
  BY <1>1
<1>9. Magnitude(other.pos) <= Magnitude(case.pos) + lost
  OBVIOUS
<1>10. (case.pos - other.pos) * price(i) + (case.quote - other.quote) * One <= price(i)
  BY <1>6
<1>11. QED
  BY <1>1, <1>8, <1>9, <1>10, LargerIsWorse

\* Of the positions of either case none is larger than the one that is taken,
\* but by what doubles cannot tell.
LEMMA WorseIsLarger ==
  ASSUME NEW bids, NEW asks, bids.pos \in Raw, asks.pos \in Raw
  PROVE  /\ Worse(bids, asks) \in {bids, asks} /\ Indistinct(bids, asks) \in Nat
         /\ \A other \in {bids, asks} :
              Magnitude(other.pos) <= Magnitude(Worse(bids, asks).pos) + Indistinct(bids, asks)
<1> DEFINE M == Mantissa
           x == Magnitude(bids.pos)
           y == Magnitude(asks.pos)
           dx == Magnitude(ToDouble(bids.pos))
           dy == Magnitude(ToDouble(asks.pos))
           lost == Indistinct(bids, asks)
<1>1. M \in Nat \ {0}
  BY MantissaAssumption
<1>2. ASSUME NEW n \in Raw
      PROVE  LET z == Magnitude(n)
                 d == Magnitude(ToDouble(n))
             IN  z \in Nat /\ d \in Int /\ (d - z) * M <= z /\ (z - d) * M <= z
  <2>1. n \in Int /\ -Top <= n /\ n < Top /\ Top \in Nat /\ Top <= Largest /\ Largest \in Nat \ {0}
    BY RawIsInt, TopAssumption, RangeAssumption, ScaleDoubles DEF Raw
  <2>2. Magnitude(n) \in Nat /\ Magnitude(n) < 4 * Largest
    BY <2>1 DEF Magnitude
  <2>3. /\ ToDouble(Magnitude(n)) \in Nat
        /\ (ToDouble(Magnitude(n)) - Magnitude(n)) * M <= Magnitude(n)
        /\ (Magnitude(n) - ToDouble(Magnitude(n))) * M <= Magnitude(n)
    BY <2>2, DoubleIs
  <2>4. Magnitude(ToDouble(n)) = ToDouble(Magnitude(n))
    <3>1. CASE n < 0
      <4>1. Magnitude(n) = -n /\ ~(-n < 0)
        BY <2>1, <3>1 DEF Magnitude
      <4>2. ToDouble(n) = -ToDouble(Magnitude(n))
        BY <3>1, <4>1 DEF ToDouble
      <4>3. QED
        BY <2>3, <4>2 DEF Magnitude
    <3>2. CASE ~(n < 0)
      <4>1. Magnitude(n) = n
        BY <3>2 DEF Magnitude
      <4>2. QED
        BY <2>3, <4>1 DEF Magnitude
    <3>3. QED
      BY <3>1, <3>2
  <2>5. QED
    BY <2>2, <2>3, <2>4
<1>3. /\ x \in Nat /\ dx \in Int /\ (dx - x) * M <= x /\ (x - dx) * M <= x
      /\ y \in Nat /\ dy \in Int /\ (dy - y) * M <= y /\ (y - dy) * M <= y
  BY <1>2
<1>4. Worse(bids, asks) = IF dx > dy THEN bids ELSE asks
  BY DEF Worse
<1>5. lost = (x + y) \div M
  BY DEF Indistinct
<1> HIDE DEF M, x, y, dx, dy, lost
<1>6. lost \in Nat
  <2>1. x + y \in Int /\ x + y >= 0
    BY <1>3
  <2>2. QED
    BY <1>1, <1>5, <2>1, CutBack
\* the smaller of the two doubles stands for no larger a position
<1>7. ASSUME NEW u \in Nat, NEW v \in Nat, NEW du \in Int, NEW dv \in Int, u + v = x + y,
             (du - u) * M <= u, (v - dv) * M <= v, dv <= du
      PROVE  v <= u + lost
  <2>1. dv * M <= du * M
    BY <1>1, <1>7, ProductMonotone
  <2>2. /\ (du - u) * M = du * M - u * M /\ (v - dv) * M = v * M - dv * M
        /\ (v - u) * M = v * M - u * M
    BY <1>1
  <2>3. du * M \in Int /\ dv * M \in Int /\ u * M \in Int /\ v * M \in Int
    BY <1>1
  <2> DEFINE a == du * M
             b == dv * M
             c == u * M
             d == v * M
             e == (v - u) * M
  <2>4. a \in Int /\ b \in Int /\ c \in Int /\ d \in Int /\ b <= a /\ a - c <= u /\ d - b <= v /\ e = d - c
    BY <1>7, <2>1, <2>2, <2>3
  <2> HIDE DEF a, b, c, d, e
  <2>5. e <= x + y
    BY <1>3, <1>7, <2>4
  <2>6. v - u \in Int /\ x + y \in Nat /\ (v - u) * M <= x + y
    BY <1>3, <2>5 DEF e
  <2>7. v - u <= lost
    BY <1>1, <1>5, <2>6, AtMostQuotient
  <2>8. QED
    BY <1>6, <2>7
<1>8. CASE dx > dy
  <2>1. y <= x + lost
    BY <1>3, <1>7, <1>8
  <2>2. Worse(bids, asks) = bids /\ x <= x + lost
    BY <1>3, <1>4, <1>6, <1>8
  <2>3. QED
    BY <1>6, <2>1, <2>2 DEF x, y, lost
<1>9. CASE ~(dx > dy)
  <2>1. x <= y + lost
    <3>1. dx <= dy /\ y + x = x + y
      BY <1>3, <1>9
    <3>2. QED
      BY <1>3, <1>7, <3>1
  <2>2. Worse(bids, asks) = asks /\ y <= y + lost
    BY <1>3, <1>4, <1>6, <1>9
  <2>3. QED
    BY <1>6, <2>1, <2>2 DEF x, y, lost
<1>10. QED
  BY <1>8, <1>9

\* A remainder that is not too wide is not shifted.
LEMMA NotShifted ==
  ASSUME NEW rest \in Nat, rest < (2 * Top) \div One
  PROVE  Shifts(rest) = 0
<1> DEFINE W == (2 * Top) \div One
<1>1. One \in Nat \ {0} /\ Top \in Nat /\ One <= Top /\ Doubling(TwoTo, One) /\ TwoTo[0] = 1
  BY OneAssumption, TopAssumption, WidthAssumption, TwoToDoubles
<1>2. W \in Nat /\ rest < W
  BY <1>1, RoomIsTwo
<1>3. Shifts(rest) = CHOOSE i \in 0 .. One : BelowAfter(TwoTo, W, rest, i)
  BY DEF Shifts, BelowAfter, Overflows
<1> HIDE DEF W
<1>4. BelowAfter(TwoTo, W, rest, 0) /\ 0 \in 0 .. One
  <2>1. rest \div 1 = rest
    OBVIOUS
  <2>2. QED
    BY <1>1, <1>2, <2>1 DEF BelowAfter
<1>5. \A i \in 0 .. One : BelowAfter(TwoTo, W, rest, i) => i = 0
  BY <1>1, <1>2, <1>4, HalvingsUnique
<1>6. QED
  BY <1>3, <1>4, <1>5

\* divide is the exact quotient, cut down, of positive numbers that are not
\* too large
LEMMA DivideExact ==
  ASSUME NEW a \in Nat, NEW b \in Nat \ {0}, b <= (2 * Top) \div One, (a * One) \div b < Top
  PROVE  Divide(a, b) = (a * One) \div b
<1> DEFINE k == a \div b
           rest == a % b
           lo == (rest * One) \div b
<1>1. One \in Nat \ {0} /\ Top \in Nat \ {0} /\ TwoTo[0] = 1
  BY OneAssumption, TopAssumption, TwoToDoubles
<1>2. k \in Int /\ rest \in Nat /\ a = k * b + rest /\ rest < b
  BY DivMod
<1>3. (2 * Top) \div One \in Int
  BY <1>1
<1>4. Magnitude(a) = a /\ Magnitude(b) = b /\ ((a < 0) # (b < 0)) = FALSE
  BY DEF Magnitude
<1>5. Divide(a, b) = ToRaw(Joined(k, lo))
  <2>1. Shifts(rest) = 0
    <3> HIDE DEF rest
    <3>1. QED
      BY <1>2, <1>3, NotShifted
  <2>2. rest \div 1 = rest /\ b \div 1 = b
    BY <1>2
  <2>3. TwoTo[Shifts(rest)] = 1
    BY <1>1, <2>1
  <2>4. Divide(a, b) = IF (a < 0) # (b < 0) THEN ToRaw(-ToRaw(Joined(k, lo))) ELSE ToRaw(Joined(k, lo))
    BY <1>4, <2>2, <2>3 DEF Divide
  <2>5. QED
    BY <1>4, <2>4
<1> HIDE DEF k, rest
<1>6. lo \in Int /\ lo < One
  <2> DEFINE g == rest * One
  <2>1. g \in Int /\ g < One * b
    <3>1. One * b >= rest * One + One
      <4>1. b * One >= rest * One + One
        BY <1>1, <1>2, ProductGrows
      <4>2. QED
        BY <1>1, <4>1
    <3>2. rest * One \in Int /\ One * b \in Int
      BY <1>1, <1>2
    <3>3. QED
      BY <1>1, <3>1, <3>2
  <2> HIDE DEF g
  <2>2. lo \in Int /\ g = lo * b + (g % b) /\ 0 <= g % b /\ g % b \in Int
    <3>1. g \div b \in Int /\ g = (g \div b) * b + (g % b) /\ 0 <= g % b /\ g % b \in Int
      BY <2>1, DivMod
    <3>2. QED
      BY <3>1 DEF g
  <2> HIDE DEF lo
  <2>3. SUFFICES ASSUME lo >= One
                 PROVE  FALSE
    BY <1>1, <2>2
  <2>4. One * b <= lo * b /\ One * b \in Int /\ lo * b \in Int
    BY <1>1, <2>2, <2>3, ProductMonotone
  <2>5. QED
    BY <2>1, <2>2, <2>4
<1>7. Joined(k, lo) = (a * One) \div b
  <2>1. Joined(k, lo) = k * One + lo
    BY <1>1, <1>6 DEF Joined
  <2>2. a * One = (k * One) * b + rest * One
    BY <1>1, <1>2
  <2>3. k * One \in Int /\ rest * One \in Int
    BY <1>1, <1>2
  <2>4. ((k * One) * b + rest * One) \div b = k * One + ((rest * One) \div b)
    BY <2>3, DivOfSum
  <2>5. QED
    BY <2>1, <2>2, <2>4
<1> DEFINE q == (a * One) \div b
<1>8. q \in 0 .. Top - 1
  <2>1. a * One \in Nat
    BY <1>1
  <2>2. 0 <= a * One /\ 0 \div b = 0
    BY <2>1
  <2>3. 0 \div b <= (a * One) \div b /\ (a * One) \div b \in Int
    BY <2>1, <2>2, CutMonotone, DivMod
  <2>4. (a * One) \div b < Top
    OBVIOUS
  <2> HIDE DEF q
  <2>5. q \in Int /\ 0 <= q /\ q < Top
    BY <2>2, <2>3, <2>4 DEF q
  <2>6. QED
    BY <1>1, <2>5
<1>9. ToRaw(q) = q
  <2> HIDE DEF q
  <2>1. q \in -Top .. Top - 1
    BY <1>1, <1>8
  <2>2. QED
    BY <1>1, <2>1, WrapInside DEF ToRaw
<1>10. QED
  BY <1>5, <1>7, <1>9

\* An integer number of tokens at a price is the product, if that fits.
LEMMA TimesExact ==
  ASSUME NEW n \in Nat, NEW p \in Nat, n * One < Top, Exact(Fixed(n), p)
  PROVE  Times(n, p) = n * p
<1>1. One \in Nat \ {0} /\ Top \in Nat \ {0}
  BY OneAssumption, TopAssumption
<1>2. Fixed(n) = n * One
  <2>1. n \in Int /\ n * One \in Nat /\ -Top <= n * One
    BY <1>1
  <2>2. QED
    BY <2>1, FixedExact
<1>3. ((n * One) * p) \div One = n * p
  <2>1. (n * One) * p = (n * p) * One + 0 /\ (n * One) * p \in Int /\ n * p \in Int /\ 0 < One
    BY <1>1
  <2>2. QED
    BY <1>1, <2>1, DivUnique
<1>4. n * One \in Int
  BY <1>1
<1>5. QED
  BY <1>2, <1>3, <1>4, MultiplyExact DEF Times

\* Open orders: the asks sell at the price what the bids buy, but for the bits
\* the quotient loses.
LEMMA SpotBalances ==
  ASSUME Typed, NEW i \in Markets, price(i) > 0, NEW oo \in OpenOrdersAccount, AmountsFit(i, oo), LockedFits(i, oo)
  PROVE  LET bids == SpotBids(i, oo)
             asks == SpotAsks(i, oo)
         IN  /\ bids.quote \in Int /\ asks.quote \in Int
             /\ (bids.pos - asks.pos) * price(i) <= (asks.quote - bids.quote) * One
             /\ (asks.quote - bids.quote) * One <= (bids.pos - asks.pos) * price(i) + price(i)
<1> DEFINE s == splitOpenOrders(oo)
           p == price(i)
           d == Divide(Fixed(s.quoteLocked), p)
           net == getNet(i)
           ql == s.quoteLocked
           qf == s.quoteFree
           bl == s.baseLocked
           bf == s.baseFree
<1>1. One \in Nat \ {0} /\ Top \in Nat \ {0} /\ net \in Int /\ p \in Nat \ {0}
  BY OneAssumption, TopAssumption, NetTyped, MarketsTyped DEF Tokens
<1>2. \A amount \in {qf, ql, qf + ql, bf, bl} : amount \in Nat /\ amount * One < Top
  <2>1. qf \in Nat /\ ql \in Nat /\ bf \in Nat /\ bl \in Nat
    BY SplitIs
  <2>2. \A amount \in {qf, ql, qf + ql, bf, bl} : amount * One < Top
    BY DEF AmountsFit
  <2> HIDE DEF qf, ql, bf, bl
  <2>3. qf + ql \in Nat
    BY <2>1
  <2>4. QED
    BY <2>1, <2>2, <2>3
<1>3. Exact(Fixed(bl), p) /\ p <= (2 * Top) \div One /\ (ql * One * One) \div p < Top
  BY DEF AmountsFit, LockedFits
<1>4. /\ SpotBids(i, oo).pos = net + d + Fixed(bf) + Fixed(bl)
      /\ SpotBids(i, oo).quote = Fixed(qf)
      /\ SpotAsks(i, oo).pos = net + Fixed(bf)
      /\ SpotAsks(i, oo).quote = Times(bl, p) + Fixed(qf + ql)
  BY DEF SpotBids, SpotAsks, Case
<1> HIDE DEF p, net, ql, qf, bl, bf, s
<1>5. /\ Fixed(qf) = qf * One /\ Fixed(ql) = ql * One /\ Fixed(bl) = bl * One /\ Fixed(bf) = bf * One
      /\ Fixed(qf + ql) = (qf + ql) * One
  <2>1. \A amount \in {qf, ql, qf + ql, bf, bl} : Fixed(amount) = amount * One
    <3> SUFFICES ASSUME NEW amount \in Nat, amount * One < Top
                 PROVE  Fixed(amount) = amount * One
      BY <1>2
    <3>1. amount \in Int /\ amount * One \in Nat /\ -Top <= amount * One
      BY <1>1
    <3>2. QED
      BY <3>1, FixedExact
  <2>2. QED
    BY <2>1
<1>6. Times(bl, p) = bl * p
  BY <1>1, <1>2, <1>3, TimesExact
<1>7. d = (ql * One * One) \div p
  <2>1. ql * One \in Nat
    BY <1>1, <1>2
  <2>2. Divide(ql * One, p) = (ql * One * One) \div p
    BY <1>1, <1>3, <2>1, DivideExact
  <2>3. QED
    BY <1>5, <2>2 DEF ql, p
<1> HIDE DEF d
<1>8. d \in Int /\ d * p <= ql * One * One /\ ql * One * One <= d * p + p
  <2> DEFINE g == ql * One * One
             r == g % p
  <2>1. g \in Int
    BY <1>1, <1>2
  <2> HIDE DEF g
  <2>2. g \div p \in Int /\ r \in Int /\ g = (g \div p) * p + r /\ 0 <= r /\ r < p
    BY <1>1, <2>1, DivMod
  <2> HIDE DEF r
  <2>3. d = g \div p
    BY <1>7 DEF g
  <2>4. d \in Int /\ d * p \in Int /\ g = d * p + r
    BY <1>1, <2>2, <2>3
  <2>5. QED
    BY <1>1, <2>1, <2>2, <2>4 DEF g
<1> DEFINE bids == SpotBids(i, oo)
           asks == SpotAsks(i, oo)
<1>9. bids.pos - asks.pos = d + bl * One /\ bids.quote \in Int /\ asks.quote \in Int
      /\ asks.quote - bids.quote = bl * p + ql * One
  <2>1. /\ bf * One \in Int /\ bl * One \in Int /\ qf * One \in Int /\ ql * One \in Int /\ bl * p \in Int
        /\ (qf + ql) * One = qf * One + ql * One
    BY <1>1, <1>2
  <2>2. /\ bids.pos = net + d + bf * One + bl * One /\ bids.quote = qf * One
        /\ asks.pos = net + bf * One /\ asks.quote = bl * p + (qf + ql) * One
    BY <1>4, <1>5, <1>6
  <2> HIDE DEF bids, asks
  <2>3. QED
    BY <1>1, <1>8, <2>1, <2>2
<1> HIDE DEF bids, asks
<1>10. /\ (bids.pos - asks.pos) * p = d * p + bl * One * p
       /\ (asks.quote - bids.quote) * One = bl * One * p + ql * One * One
  <2>1. (d + bl * One) * p = d * p + bl * One * p
    BY <1>1, <1>2, <1>8
  <2>2. (bl * p + ql * One) * One = bl * One * p + ql * One * One
    BY <1>1, <1>2
  <2>3. QED
    BY <1>9, <2>1, <2>2
<1>11. d * p \in Int /\ bl * One * p \in Int /\ ql * One * One \in Int
  BY <1>1, <1>2, <1>8
<1>12. /\ (bids.pos - asks.pos) * p <= (asks.quote - bids.quote) * One
       /\ (asks.quote - bids.quote) * One <= (bids.pos - asks.pos) * p + p
  <2> DEFINE x == d * p
             y == bl * One * p
             z == ql * One * One
  <2>1. x \in Int /\ y \in Int /\ z \in Int /\ x <= z /\ z <= x + p
    BY <1>8, <1>11
  <2> HIDE DEF x, y, z
  <2>2. x + y <= y + z /\ y + z <= x + y + p
    BY <1>1, <2>1
  <2>3. QED
    BY <1>10, <2>2 DEF x, y, z
<1>13. QED
  BY <1>9, <1>12 DEF bids, asks, p

\* What fits into a word is not wrapped around in one.
LEMMA QuantitiesAre ==
  ASSUME Typed, NEW i \in Markets, QuantitiesFit(i)
  PROVE  LET p == info.perpAccounts[i]
             bids == Lots(i, p.bidsQuantity)
             asks == Lots(i, p.asksQuantity)
         IN  /\ bids \in Nat /\ asks \in Nat
             /\ PerpBase(i) = (p.basePosition + p.takerBase) * group.perp[i].baseLotSize
             /\ PerpBase(i) \in Int
             /\ PerpBidsBase(i) = PerpBase(i) + bids /\ PerpAsksBase(i) = PerpBase(i) - asks
             /\ (PerpBase(i) + bids) * One \in Raw /\ (PerpBase(i) - asks) * One \in Raw
             /\ \A quantity \in {bids, asks} : quantity * One < Top /\ quantity * price(i) < Top
             /\ \A v \in {PerpBidsBase(i), PerpAsksBase(i)} :
                  v \in Int /\ ToInt64(Magnitude(v)) = Magnitude(v)
<1> DEFINE p == info.perpAccounts[i]
           lot == group.perp[i].baseLotSize
           sum == p.basePosition + p.takerBase
           base == sum * lot
           bids == p.bidsQuantity * lot
           asks == p.asksQuantity * lot
<1>1. /\ sum \in Int64 /\ base \in Int64 /\ bids \in 0 .. HalfWord - 1 /\ asks \in 0 .. HalfWord - 1
      /\ \A position \in {base + bids, base - asks} :
           position \in Int64 /\ -position \in Int64 /\ position * One \in Raw
      /\ \A quantity \in {bids, asks} : quantity * One < Top /\ quantity * price(i) < Top
  BY DEF QuantitiesFit
<1>2. /\ PerpBase(i) = ToInt64(ToInt64(sum) * lot)
      /\ PerpBidsBase(i) = ToInt64(PerpBase(i) + Lots(i, p.bidsQuantity))
      /\ PerpAsksBase(i) = ToInt64(PerpBase(i) - Lots(i, p.asksQuantity))
      /\ Lots(i, p.bidsQuantity) = ToInt64(bids) /\ Lots(i, p.asksQuantity) = ToInt64(asks)
  BY DEF PerpBase, PerpBidsBase, PerpAsksBase, Lots
<1> HIDE DEF p, sum
<1>3. HalfWord \in Nat \ {0}
  BY WordsAre
<1>4. ToInt64(sum) = sum /\ ToInt64(base) = base /\ base \in Int
  <2> HIDE DEF base
  <2>1. QED
    BY <1>1, WordsAre
<1>5. PerpBase(i) = base
  BY <1>2, <1>4
<1> HIDE DEF base, bids, asks
<1>6. bids \in Int64 /\ asks \in Int64 /\ bids \in Nat /\ asks \in Nat
  BY <1>1, <1>3 DEF Int64
<1>7. ToInt64(bids) = bids /\ ToInt64(asks) = asks
  BY <1>6, WordsAre
<1>8. PerpBidsBase(i) = base + bids /\ PerpAsksBase(i) = base - asks
  <2>1. ToInt64(base + bids) = base + bids /\ ToInt64(base - asks) = base - asks
    BY <1>1, WordsAre
  <2>2. QED
    BY <1>2, <1>5, <1>7, <2>1
<1>9. ASSUME NEW v \in {base + bids, base - asks}
      PROVE  v \in Int /\ ToInt64(Magnitude(v)) = Magnitude(v)
  <2>1. v \in Int64 /\ -v \in Int64
    BY <1>1
  <2>2. v \in Int
    BY <2>1, WordsAre
  <2>3. Magnitude(v) \in Int64
    BY <2>1 DEF Magnitude
  <2>4. QED
    BY <2>2, <2>3, WordsAre
<1>10. /\ Lots(i, p.bidsQuantity) = bids /\ Lots(i, p.asksQuantity) = asks
  BY <1>2, <1>7
<1>11. \A v \in {PerpBidsBase(i), PerpAsksBase(i)} : v \in Int /\ ToInt64(Magnitude(v)) = Magnitude(v)
  BY <1>8, <1>9
<1>12. (base + bids) * One \in Raw /\ (base - asks) * One \in Raw
  BY <1>1
<1>13. base = (p.basePosition + p.takerBase) * lot
  BY DEF base, sum
<1>14. QED
  BY <1>1, <1>4, <1>5, <1>6, <1>8, <1>10, <1>11, <1>12, <1>13 DEF p

\* Perpetual positions: they do so exactly.
LEMMA PerpBalances ==
  ASSUME Typed, NEW i \in Markets, price(i) > 0, QuantitiesFit(i)
  PROVE  LET bids == PerpBids(i)
             asks == PerpAsks(i)
         IN  /\ bids.quote \in Int /\ asks.quote \in Int
             /\ bids.pos = PerpBidsBase(i) * One /\ asks.pos = PerpAsksBase(i) * One
             /\ (bids.pos - asks.pos) * price(i) <= (asks.quote - bids.quote) * One
             /\ (asks.quote - bids.quote) * One <= (bids.pos - asks.pos) * price(i) + price(i)
<1> DEFINE p == price(i)
           b == Lots(i, info.perpAccounts[i].bidsQuantity)
           a == Lots(i, info.perpAccounts[i].asksQuantity)
           base == PerpBase(i)
           quote == PerpQuote(i)
<1>1. One \in Nat \ {0} /\ Top \in Nat \ {0} /\ p \in Nat \ {0}
  BY OneAssumption, TopAssumption, MarketsTyped
<1>2. b \in Nat /\ a \in Nat /\ base \in Int /\ quote \in Int
  BY QuantitiesAre, PerpNumbers
<1>3. /\ (base + b) * One \in Raw /\ (base - a) * One \in Raw
      /\ \A quantity \in {b, a} : quantity * One < Top /\ quantity * p < Top
  BY QuantitiesAre
<1>4. /\ PerpBids(i).pos = Fixed(base + b) /\ PerpBids(i).quote = quote - Times(b, p)
      /\ PerpAsks(i).pos = Fixed(base - a) /\ PerpAsks(i).quote = quote + Times(a, p)
      /\ PerpBidsBase(i) = base + b /\ PerpAsksBase(i) = base - a
  BY QuantitiesAre DEF PerpBids, PerpAsks, Case
<1> HIDE DEF p, b, a, base, quote
<1>5. Fixed(base + b) = (base + b) * One /\ Fixed(base - a) = (base - a) * One
  <2>1. \A n \in Int : n * One \in Raw => Fixed(n) = n * One
    <3> SUFFICES ASSUME NEW n \in Int, n * One \in Raw
                 PROVE  Fixed(n) = n * One
      OBVIOUS
    <3>1. -Top <= n * One /\ n * One < Top
      BY <1>1 DEF Raw
    <3>2. QED
      BY <3>1, FixedExact
  <2>2. base + b \in Int /\ base - a \in Int
    BY <1>2
  <2>3. QED
    BY <1>3, <2>1, <2>2
<1>6. Times(b, p) = b * p /\ Times(a, p) = a * p
  <2> SUFFICES ASSUME NEW n \in Nat, n * One < Top, n * p < Top
               PROVE  Times(n, p) = n * p
    BY <1>2, <1>3
  <2>1. Fixed(n) = n * One
    <3>1. n \in Int /\ n * One \in Nat /\ -Top <= n * One
      BY <1>1
    <3>2. QED
      BY <3>1, FixedExact
  <2>2. ((n * One) * p) \div One = n * p
    <3>1. (n * One) * p = (n * p) * One + 0 /\ (n * One) * p \in Int /\ n * p \in Int /\ 0 < One
      BY <1>1
    <3>2. QED
      BY <1>1, <3>1, DivUnique
  <2>3. n * p \in Raw
    <3>1. n * p \in Nat
      BY <1>1
    <3>2. QED
      BY <1>1, <3>1 DEF Raw
  <2>4. Exact(Fixed(n), p)
    BY <2>1, <2>2, <2>3 DEF Exact
  <2>5. p \in Nat
    BY <1>1
  <2>6. QED
    BY <2>4, <2>5, TimesExact
<1> DEFINE bids == PerpBids(i)
           asks == PerpAsks(i)
<1>7. bids.pos - asks.pos = (b + a) * One
  <2>1. (base + b) * One = base * One + b * One /\ (base - a) * One = base * One - a * One
        /\ (b + a) * One = b * One + a * One
    BY <1>1, <1>2
  <2>2. base * One \in Int /\ b * One \in Int /\ a * One \in Int
    BY <1>1, <1>2
  <2>3. bids.pos = (base + b) * One /\ asks.pos = (base - a) * One
    BY <1>4, <1>5
  <2> HIDE DEF bids, asks
  <2>4. QED
    BY <2>1, <2>2, <2>3
<1>8. bids.quote \in Int /\ asks.quote \in Int /\ asks.quote - bids.quote = (b + a) * p
  <2>1. b * p \in Int /\ a * p \in Int /\ (b + a) * p = b * p + a * p
    BY <1>1, <1>2
  <2>2. bids.quote = quote - b * p /\ asks.quote = quote + a * p
    BY <1>4, <1>6
  <2> HIDE DEF bids, asks
  <2>3. QED
    BY <1>2, <2>1, <2>2
<1> HIDE DEF bids, asks
<1> DEFINE v == (b + a) * One * p
<1>9. (bids.pos - asks.pos) * p = v /\ (asks.quote - bids.quote) * One = v /\ v \in Int
  <2>1. ((b + a) * p) * One = v /\ v \in Int
    BY <1>1, <1>2
  <2>2. QED
    BY <1>7, <1>8, <2>1
<1> HIDE DEF v
<1>10. bids.pos = PerpBidsBase(i) * One /\ asks.pos = PerpAsksBase(i) * One
  BY <1>4, <1>5 DEF bids, asks
<1>11. QED
  BY <1>1, <1>8, <1>9, <1>10 DEF bids, asks, p

\* Of the perpetual positions the one that is taken is the larger.
LEMMA PerpLarger ==
  ASSUME Typed, NEW i \in Markets, price(i) > 0, group.perp[i].listed, QuantitiesFit(i)
  PROVE  /\ PerpComponent(i) \in {PerpBids(i), PerpAsks(i)}
         /\ \A other \in {PerpBids(i), PerpAsks(i)} : Magnitude(other.pos) <= Magnitude(PerpComponent(i).pos) + 0
<1> DEFINE b == PerpBidsBase(i)
           a == PerpAsksBase(i)
<1>1. One \in Nat \ {0}
  BY OneAssumption
<1>2. /\ b \in Int /\ ToInt64(Magnitude(b)) = Magnitude(b)
      /\ a \in Int /\ ToInt64(Magnitude(a)) = Magnitude(a)
  BY QuantitiesAre
<1>3. PerpBids(i).pos = b * One /\ PerpAsks(i).pos = a * One
  BY PerpBalances
<1>4. PerpComponent(i) = IF Magnitude(b) > Magnitude(a) THEN PerpBids(i) ELSE PerpAsks(i)
  BY <1>2 DEF PerpComponent
<1> HIDE DEF b, a
<1>5. \A n \in Int : Magnitude(n * One) = Magnitude(n) * One /\ Magnitude(n) \in Int /\ Magnitude(n) * One \in Int
  <2> SUFFICES ASSUME NEW n \in Int
               PROVE  Magnitude(n * One) = Magnitude(n) * One /\ Magnitude(n) \in Int /\ Magnitude(n) * One \in Int
    OBVIOUS
  <2>1. n * One \in Int /\ (-n) * One = -(n * One) /\ 0 * One = 0
    BY <1>1
  <2>2. (n < 0 => n * One <= 0 * One) /\ (n >= 0 => 0 * One <= n * One)
    BY <1>1, ProductMonotone
  <2>3. CASE n >= 0
    <3>1. n * One >= 0 /\ ~(n < 0)
      BY <2>1, <2>2, <2>3
    <3>2. QED
      BY <2>1, <3>1 DEF Magnitude
  <2>4. CASE n < 0
    <3>1. n * One <= 0 /\ -(n * One) \in Int
      BY <2>1, <2>2, <2>4
    <3>2. Magnitude(n * One) = -(n * One)
      BY <2>1, <3>1 DEF Magnitude
    <3>3. Magnitude(n) = -n
      BY <2>4 DEF Magnitude
    <3>4. QED
      BY <2>1, <3>1, <3>2, <3>3
  <2>5. QED
    BY <2>3, <2>4
<1> DEFINE x == Magnitude(b)
           y == Magnitude(a)
<1>6. x \in Int /\ y \in Int /\ Magnitude(PerpBids(i).pos) = x * One /\ Magnitude(PerpAsks(i).pos) = y * One
      /\ x * One \in Int /\ y * One \in Int
  BY <1>2, <1>3, <1>5
<1> HIDE DEF x, y
<1>7. (x >= y => y * One <= x * One) /\ (y >= x => x * One <= y * One)
  BY <1>1, <1>6, ProductMonotone
<1>8. CASE x > y
  <2>1. PerpComponent(i) = PerpBids(i) /\ y * One <= x * One
    BY <1>4, <1>6, <1>7, <1>8 DEF x, y
  <2>2. QED
    BY <1>6, <2>1
<1>9. CASE ~(x > y)
  <2>1. PerpComponent(i) = PerpAsks(i) /\ x * One <= y * One
    BY <1>4, <1>6, <1>7, <1>9 DEF x, y
  <2>2. QED
    BY <1>6, <2>1
<1>10. QED
  BY <1>8, <1>9

\* Neither case is worse than the one that is taken.
LEMMA WorstFollows ==
  ASSUME Typed, OrdersTyped
  PROVE  WorstCase
<1> SUFFICES ASSUME NEW type \in HealthTypes, NEW i \in Markets
    PROVE  /\ price(i) > 0 /\ info.spotOpenOrders[i] \in DOMAIN orders /\ info.inMarginBasket[i] =>
                LET oo == orders[info.spotOpenOrders[i]]
                IN  AmountsFit(i, oo) /\ LockedFits(i, oo)
                      /\ CasesFit(SpotBids(i, oo), SpotAsks(i, oo), i, group.spot[i]) =>
                      \A other \in {SpotBids(i, oo), SpotAsks(i, oo)} :
                        NotAbove(SpotComponent(i, orders), other, Indistinct(SpotBids(i, oo), SpotAsks(i, oo)),
                                 i, group.spot[i], type)
           /\ price(i) > 0 /\ group.perp[i].listed
                /\ QuantitiesFit(i) /\ CasesFit(PerpBids(i), PerpAsks(i), i, group.perp[i]) =>
                  \A other \in {PerpBids(i), PerpAsks(i)} :
                    NotAbove(PerpComponent(i), other, 0, i, group.perp[i], type)
  BY DEF WorstCase
<1>1. price(i) \in Int /\ group.spot[i] \in MarketInfo /\ group.perp[i] \in MarketInfo
  BY MarketsTyped
<1> DEFINE oo == orders[info.spotOpenOrders[i]]
<1>2. ASSUME price(i) > 0, info.spotOpenOrders[i] \in DOMAIN orders, info.inMarginBasket[i],
             AmountsFit(i, oo), LockedFits(i, oo),
             CasesFit(SpotBids(i, oo), SpotAsks(i, oo), i, group.spot[i])
      PROVE  \A other \in {SpotBids(i, oo), SpotAsks(i, oo)} :
               NotAbove(SpotComponent(i, orders), other, Indistinct(SpotBids(i, oo), SpotAsks(i, oo)),
                        i, group.spot[i], type)
  <2> DEFINE bids == SpotBids(i, oo)
             asks == SpotAsks(i, oo)
  <2>1. SpotComponent(i, orders) = Worse(bids, asks)
    BY <1>2 DEF SpotComponent
  <2>2. /\ bids.quote \in Int /\ asks.quote \in Int
        /\ (bids.pos - asks.pos) * price(i) <= (asks.quote - bids.quote) * One
        /\ (asks.quote - bids.quote) * One <= (bids.pos - asks.pos) * price(i) + price(i)
    <3>1. oo \in OpenOrdersAccount
      BY <1>2 DEF OrdersTyped
    <3> HIDE DEF oo
    <3>2. QED
      BY <1>2, <3>1, SpotBalances
  <2>3. CasesFit(bids, asks, i, group.spot[i])
    BY <1>2
  <2> HIDE DEF bids, asks
  <2>4. bids.pos \in Raw /\ asks.pos \in Raw
    BY <2>3 DEF CasesFit, Weighable
  <2> DEFINE case == Worse(bids, asks)
             lost == Indistinct(bids, asks)
  <2>5. /\ case \in {bids, asks} /\ lost \in Nat
        /\ \A other \in {bids, asks} : Magnitude(other.pos) <= Magnitude(case.pos) + lost
    BY <2>4, WorseIsLarger
  <2> HIDE DEF case, lost
  <2>6. \A other \in {bids, asks} : NotAbove(case, other, lost, i, group.spot[i], type)
    BY <1>1, <1>2, <2>2, <2>3, <2>5, WorseIsWorst
  <2>7. QED
    BY <2>1, <2>6 DEF bids, asks, case, lost
<1>3. ASSUME price(i) > 0, group.perp[i].listed, QuantitiesFit(i),
             CasesFit(PerpBids(i), PerpAsks(i), i, group.perp[i])
      PROVE  \A other \in {PerpBids(i), PerpAsks(i)} :
               NotAbove(PerpComponent(i), other, 0, i, group.perp[i], type)
  <2> DEFINE bids == PerpBids(i)
             asks == PerpAsks(i)
  <2> DEFINE case == PerpComponent(i)
  <2>1. /\ case \in {bids, asks}
        /\ \A other \in {bids, asks} : Magnitude(other.pos) <= Magnitude(case.pos) + 0
    BY <1>3, PerpLarger
  <2>2. /\ bids.quote \in Int /\ asks.quote \in Int
        /\ (bids.pos - asks.pos) * price(i) <= (asks.quote - bids.quote) * One
        /\ (asks.quote - bids.quote) * One <= (bids.pos - asks.pos) * price(i) + price(i)
    BY <1>3, PerpBalances
  <2>3. CasesFit(bids, asks, i, group.perp[i])
    BY <1>3
  <2> HIDE DEF bids, asks, case
  <2>4. \A other \in {bids, asks} : NotAbove(case, other, 0, i, group.perp[i], type)
    <3>1. 0 \in Nat
      OBVIOUS
    <3>2. QED
      BY <1>1, <1>3, <2>1, <2>2, <2>3, <3>1, WorseIsWorst
  <2>5. QED
    BY <2>4 DEF bids, asks, case
<1>4. QED
  BY <1>2, <1>3

----------------------------------------------------------------------------
(* The value. *)

\* The powers of ten, and what the decimals of two tokens make of each other.
LEMMA PowersOfTen ==
  /\ \A k \in 0 .. 255 : PowTen(k) \in Nat \ {0}
  /\ \A j \in 0 .. 255, k \in 0 .. 255 : k <= j => PowTen(j - k) * PowTen(k) = PowTen(j) /\ j - k \in 0 .. 255
<1>1. Ten \in Nat \ {0}
  BY TenAssumption
<1> DEFINE m == 255
<1>2. TenTo = CHOOSE g : PowersOf(g, Ten, m)
  BY DEF TenTo, PowersOf
<1>3. m \in Nat
  OBVIOUS
<1> HIDE DEF m
<1>4. PowersOf(TenTo, Ten, m)
  BY <1>1, <1>2, <1>3, PowersOfExist
<1>5. \A k \in 0 .. m : TenTo[k] \in Nat \ {0}
  BY <1>1, <1>3, <1>4, PowersOfFacts
<1>6. \A j \in 0 .. m : \A k \in 0 .. m - j : TenTo[j] * TenTo[k] = TenTo[j + k]
  BY <1>1, <1>3, <1>4, PowersOfMultiply
<1>7. ASSUME NEW j \in 0 .. m, NEW k \in 0 .. m, k <= j
      PROVE  TenTo[j - k] * TenTo[k] = TenTo[j] /\ j - k \in 0 .. m
  <2>1. j - k \in 0 .. m /\ k \in 0 .. m - (j - k) /\ (j - k) + k = j
    BY <1>3, <1>7
  <2>2. QED
    BY <1>6, <2>1
<1>8. QED
  BY ZenonT(60), <1>5, <1>7 DEF PowTen, m

\* None of them is zero.
LEMMA PowerPositive ==
  ASSUME NEW k \in 0 .. 255
  PROVE  PowTen(k) \in Nat \ {0}
BY ZenonT(60), PowersOfTen

\* An amount in units of the user interface is the quotient by the power of ten.
LEMMA UiIs ==
  ASSUME NEW a \in Nat, a < Top, NEW k \in 0 .. 255,
         PowTen(k) * One < Top, PowTen(k) * One <= (2 * Top) \div One
  PROVE  nativeI80F48ToUi(a, k) = a \div PowTen(k)
<1> DEFINE D == PowTen(k)
<1>1. One \in Nat \ {0} /\ Top \in Nat \ {0} /\ D \in Nat \ {0}
  BY OneAssumption, TopAssumption, PowerPositive
<1> HIDE DEF D
<1>2. Fixed(D) = D * One /\ D * One \in Nat \ {0}
  <2>1. D * One \in Nat \ {0} /\ D \in Int
    BY <1>1
  <2>2. -Top <= D * One /\ D * One < Top
    BY <1>1, <2>1 DEF D
  <2>3. QED
    BY <2>1, <2>2, FixedExact
<1>3. (a * One) \div (D * One) = a \div D
  <2>1. a * One \in Int /\ a * One = a * One + 0
    BY <1>1
  <2>2. (a * One) \div One = a
    BY <1>1, <2>1, DivUnique
  <2>3. ((a * One) \div One) \div D = (a * One) \div (One * D)
    BY <1>1, <2>1, DivDiv
  <2>4. One * D = D * One
    BY <1>1
  <2>5. QED
    BY <2>2, <2>3, <2>4
<1>4. a \div D < Top
  <2>1. a \div D \in Nat /\ (a \div D) * D <= a
    BY <1>1, CutBack
  <2> DEFINE q == a \div D
  <2> HIDE DEF q
  <2>2. q \in Nat /\ q * D <= a /\ 1 <= D
    BY <1>1, <2>1 DEF q
  <2>3. q * D >= q /\ q * D \in Int
    <3>1. 1 * q <= D * q
      BY <1>1, <2>2, ProductMonotone
    <3>2. 1 * q = q /\ D * q = q * D /\ D * q \in Int
      BY <1>1, <2>2
    <3>3. QED
      BY <3>1, <3>2
  <2>4. q < Top
    BY <1>1, <2>2, <2>3
  <2>5. QED
    BY <2>4 DEF q
<1>5. D * One <= (2 * Top) \div One
  BY DEF D
<1>6. Divide(a, D * One) = (a * One) \div (D * One)
  BY <1>2, <1>3, <1>4, <1>5, DivideExact
<1>7. nativeI80F48ToUi(a, k) = Divide(a, Fixed(D))
  BY DEF nativeI80F48ToUi, D
<1>8. QED
  BY <1>2, <1>3, <1>6, <1>7 DEF D

\* multiply does not mind the order
LEMMA MultiplyCommutes ==
  ASSUME NEW a \in Int, NEW b \in Int
  PROVE  Multiply(a, b) = Multiply(b, a)
<1>1. One \in Nat \ {0}
  BY OneAssumption
<1>2. /\ Multiply(a, b) = ToRaw((a * b) \div One)
      /\ Multiply(b, a) = ToRaw((b * a) \div One)
  BY <1>1, ProductByParts DEF Multiply, HighProduct, CrossProducts, Hi, Lo
<1>3. a * b = b * a
  OBVIOUS
<1>4. QED
  BY <1>2, <1>3

\* what is read from the chain, token by token
LEMMA TokensTyped ==
  ASSUME Typed, NEW t \in Tokens
  PROVE  /\ getNativeDeposit(t) \in Raw /\ getNativeBorrow(t) \in Raw
         /\ getNativeDeposit(t) \in Int /\ getNativeBorrow(t) \in Int
         /\ getNet(t) = getNativeDeposit(t) - getNativeBorrow(t)
         /\ Decimals(t) \in 0 .. 255 /\ group.decimals[t] \in 0 .. 255
<1>1. info \in MangoAccountInfo /\ cache \in MangoCache /\ group \in MangoGroup
  BY LayoutAssumption DEF Typed
<1>2. info.deposits[t] \in Raw /\ info.borrows[t] \in Raw
  BY <1>1 DEF MangoAccountInfo
<1>3. cache.deposit_index[t] \in Raw /\ cache.borrow_index[t] \in Raw
  BY <1>1 DEF MangoCache
<1>4. /\ info.deposits[t] \in Int /\ info.borrows[t] \in Int
      /\ cache.deposit_index[t] \in Int /\ cache.borrow_index[t] \in Int
  BY <1>2, <1>3, RawIsInt
<1>5. getNativeDeposit(t) \in Raw /\ getNativeBorrow(t) \in Raw
  BY <1>4, MultiplyExact DEF getNativeDeposit, getNativeBorrow
<1>6. /\ Multiply(info.deposits[t], cache.deposit_index[t]) = getNativeDeposit(t)
      /\ Multiply(info.borrows[t], cache.borrow_index[t]) = getNativeBorrow(t)
  BY <1>4, MultiplyCommutes DEF getNativeDeposit, getNativeBorrow
<1>7. Decimals(t) \in 0 .. 255 /\ group.decimals[t] \in 0 .. 255
  <2>1. group.decimals[t] \in 0 .. 255 /\ DefaultDecimals \in 0 .. 255
    BY <1>1, DecimalsAssumption DEF MangoGroup
  <2>2. QED
    BY <2>1 DEF Decimals
<1>8. QED
  BY <1>5, <1>6, <1>7, RawIsInt DEF getNet

\* The powers of ten that go with a market's token and the quote currency.
LEMMA ScalesAre ==
  ASSUME Typed, NEW i \in Markets
  PROVE  /\ Decimals(i) \in 0 .. 255 /\ Decimals(QUOTE_INDEX) \in 0 .. 255
         /\ PowTen(Decimals(i)) \in Nat \ {0} /\ PowTen(Decimals(QUOTE_INDEX)) \in Nat \ {0}
<1>1. Decimals(i) \in 0 .. 255 /\ Decimals(QUOTE_INDEX) \in 0 .. 255
  BY TokensTyped DEF Tokens
<1>2. QED
  BY <1>1, PowerPositive

\* what a number loses at most on its way through a double
LEMMA LostIs ==
  ASSUME NEW a \in Nat
  PROVE  Lost(a) \in Nat
BY MantissaAssumption, CutBack DEF Lost

\* A deposit is rounded to a double, cut to native units and then to the last
\* bit of its unit of the user interface.
LEMMA DepositIs ==
  ASSUME Typed, NEW t \in Tokens, TokenFits(t)
  PROVE  LET D == PowTen(Decimals(t))
             a == getNativeDeposit(t)
         IN  /\ getUiDeposit(t) \in Nat /\ D * getUiDeposit(t) \in Int /\ Lost(a) \in Nat
             /\ D * getUiDeposit(t) <= a + Lost(a)
             /\ a < D * getUiDeposit(t) + One + D + Lost(a)
<1> DEFINE D == PowTen(Decimals(t))
           a == getNativeDeposit(t)
           L == Lost(a)
           x == ToDouble(a)
           n == x \div One
           f == n * One
           u == f \div D
<1>1. One \in Nat \ {0} /\ Top \in Nat \ {0} /\ D \in Nat \ {0} /\ Decimals(t) \in 0 .. 255
  BY OneAssumption, TopAssumption, PowerPositive, TokensTyped
<1>2. a \in Nat /\ a < Top /\ x < Top
  BY TokensTyped, TopAssumption DEF Raw, TokenFits
<1>3. D * One < Top /\ D * One <= (2 * Top) \div One
  BY DEF TokenFits
<1>4. getUiDeposit(t) = nativeI80F48ToUi(Fixed(n), Decimals(t))
  BY DEF getUiDeposit, Floor
<1> HIDE DEF a, D
<1>5. x \in Nat /\ L \in Nat /\ x <= a + L /\ a <= x + L
  <2>1. a < 4 * Largest
    BY <1>1, <1>2, RangeAssumption, ScaleDoubles
  <2>2. QED
    BY <1>2, <2>1, DoubleWithin DEF Lost
<1> HIDE DEF x, L
<1>6. n \in Nat /\ f \in Int /\ f <= x /\ x < f + One
  BY <1>1, <1>5, CutBack
<1> HIDE DEF n
<1>7. f \in Nat /\ f < Top
  BY <1>1, <1>2, <1>5, <1>6
<1>8. Fixed(n) = f
  <2>1. n \in Int /\ -Top <= n * One /\ n * One < Top
    BY <1>1, <1>6, <1>7
  <2>2. QED
    BY <2>1, FixedExact
<1> HIDE DEF f
<1>9. nativeI80F48ToUi(f, Decimals(t)) = f \div D
  <2>1. PowTen(Decimals(t)) * One < Top /\ PowTen(Decimals(t)) * One <= (2 * Top) \div One
    BY <1>3 DEF D
  <2>2. QED
    BY <1>1, <1>7, <2>1, UiIs DEF D
<1>10. u \in Nat /\ u * D \in Int /\ u * D <= f /\ f < u * D + D
  BY <1>1, <1>7, CutBack
<1>11. getUiDeposit(t) = u
  BY <1>4, <1>8, <1>9
<1> HIDE DEF u
<1>12. D * u = u * D
  BY <1>1, <1>10
<1> DEFINE y == u * D
<1>13. y \in Int /\ y <= f /\ f < y + D
  BY <1>10
<1>14. y <= a + L /\ a < y + One + D + L
  <2> HIDE DEF y
  <2>1. QED
    BY <1>1, <1>2, <1>5, <1>6, <1>7, <1>13
<1>15. QED
  BY <1>5, <1>10, <1>11, <1>12, <1>14 DEF D, a, L

\* A debt is rounded to a double, then up to native units, and cut in the same
\* way.
LEMMA BorrowIs ==
  ASSUME Typed, NEW t \in Tokens, TokenFits(t)
  PROVE  LET D == PowTen(Decimals(t))
             b == getNativeBorrow(t)
         IN  /\ getUiBorrow(t) \in Nat /\ D * getUiBorrow(t) \in Int /\ Lost(b) \in Nat
             /\ D * getUiBorrow(t) < b + One + Lost(b)
             /\ b < D * getUiBorrow(t) + D + Lost(b)
<1> DEFINE D == PowTen(Decimals(t))
           b == getNativeBorrow(t)
           L == Lost(b)
           z == ToDouble(b)
           m == (-z) \div One
           n == -m
           f == n * One
           u == f \div D
<1>1. One \in Nat \ {0} /\ Top \in Nat \ {0} /\ D \in Nat \ {0} /\ Decimals(t) \in 0 .. 255
  BY OneAssumption, TopAssumption, PowerPositive, TokensTyped
<1>2. b \in Nat /\ b < Top /\ z + One <= Top
  BY TokensTyped, TopAssumption DEF Raw, TokenFits
<1>3. D * One < Top /\ D * One <= (2 * Top) \div One
  BY DEF TokenFits
<1>4. getUiBorrow(t) = nativeI80F48ToUi(Fixed(n), Decimals(t))
  BY DEF getUiBorrow, Ceil
<1> HIDE DEF b, D
<1>5. z \in Nat /\ L \in Nat /\ z <= b + L /\ b <= z + L
  <2>1. b < 4 * Largest
    BY <1>1, <1>2, RangeAssumption, ScaleDoubles
  <2>2. QED
    BY <1>2, <2>1, DoubleWithin DEF Lost
<1> HIDE DEF z, L
<1>6. n \in Int /\ f \in Int /\ z <= f /\ f < z + One
  <2>1. -z \in Int
    BY <1>5
  <2>2. m \in Int /\ m * One \in Int /\ m * One <= -z /\ -z < m * One + One
    BY <1>1, <2>1, CutBack
  <2> HIDE DEF m
  <2>3. (-m) * One = -(m * One)
    BY <1>1, <2>2
  <2> DEFINE x == m * One
  <2>4. x \in Int /\ x <= -z /\ -z < x + One
    BY <2>2
  <2> HIDE DEF x
  <2>5. z <= -x /\ -x < z + One /\ -x \in Int
    BY <1>1, <1>5, <2>4
  <2>6. QED
    BY <2>2, <2>3, <2>5 DEF x
<1> HIDE DEF n
<1>7. f \in Nat /\ f < Top
  BY <1>1, <1>2, <1>5, <1>6
<1>8. Fixed(n) = f
  <2>1. n \in Int /\ -Top <= n * One /\ n * One < Top
    BY <1>1, <1>6, <1>7
  <2>2. QED
    BY <2>1, FixedExact
<1> HIDE DEF f
<1>9. nativeI80F48ToUi(f, Decimals(t)) = f \div D
  <2>1. PowTen(Decimals(t)) * One < Top /\ PowTen(Decimals(t)) * One <= (2 * Top) \div One
    BY <1>3 DEF D
  <2>2. QED
    BY <1>1, <1>7, <2>1, UiIs DEF D
<1>10. u \in Nat /\ u * D \in Int /\ u * D <= f /\ f < u * D + D
  BY <1>1, <1>7, CutBack
<1>11. getUiBorrow(t) = u
  BY <1>4, <1>8, <1>9
<1> HIDE DEF u
<1>12. D * u = u * D
  BY <1>1, <1>10
<1> DEFINE y == u * D
<1>13. y \in Int /\ y <= f /\ f < y + D
  BY <1>10
<1>14. y < b + One + L /\ b < y + D + L
  <2> HIDE DEF y
  <2>1. QED
    BY <1>1, <1>2, <1>5, <1>6, <1>7, <1>13
<1>15. QED
  BY <1>5, <1>10, <1>11, <1>12, <1>14 DEF D, b, L

\* An amount of open orders goes through a long double and a double before it
\* is cut.
LEMMA NativeToUiIs ==
  ASSUME NEW A \in Uint64, NEW k \in 0 .. 255
  PROVE  LET y == nativeToUi(A, k)
             P == PowTen(k)
             a == A * One
         IN  /\ y \in Nat /\ a \in Nat /\ P \in Nat \ {0} /\ P * y \in Int /\ Lost(3 * a) \in Nat
             /\ P * y <= a + P + Lost(3 * a)
             /\ a <= P * y + 2 * P + Lost(3 * a)
<1> DEFINE P == PowTen(k)
           F == Finer
           M == Mantissa
           a == A * One
           n == a * F
           r == QuotientAsDouble(n, P)
           y == r \div F
<1>1. /\ One \in Nat \ {0} /\ F \in Nat \ {0} /\ P \in Nat \ {0} /\ A \in Nat
      /\ HalfWord \in Nat /\ A <= 2 * HalfWord /\ M \in Nat \ {0} /\ Largest \in Nat
  <2>1. HalfWord \in Nat /\ A \in Nat /\ A <= 2 * HalfWord
    BY WordAssumption DEF Uint64
  <2>2. One \in Nat \ {0} /\ F \in Nat \ {0} /\ M \in Nat \ {0}
    <3>1. M \in Nat /\ 4 <= M
      BY MantissaAssumption
    <3> HIDE DEF M
    <3>2. QED
      BY <3>1, OneAssumption, FinerAssumption
  <2>3. P \in Nat \ {0}
    BY PowerPositive
  <2>4. QED
    BY <2>1, <2>2, <2>3, ScaleDoubles
<1>2. nativeToUi(A, k) = y
  BY DEF nativeToUi
<1>3. 2 * HalfWord * One * F <= Largest
  BY RangeAssumption
<1> HIDE DEF P, F, M
<1>4. a \in Nat /\ n \in Nat
  BY <1>1
<1>5. n \div P <= Largest
  <2>1. A * One <= 2 * HalfWord * One /\ 2 * HalfWord * One \in Int
    BY <1>1, ProductMonotone
  <2>2. n <= 2 * HalfWord * One * F
    BY <1>1, <1>4, <2>1, ProductMonotone
  <2>3. 2 * HalfWord * One * F \in Int
    BY <1>1
  <2>4. n <= Largest
    BY <1>1, <1>3, <1>4, <2>2, <2>3
  <2> DEFINE q == n \div P
  <2> HIDE DEF n
  <2>5. q \in Nat /\ q * P \in Int /\ q * P <= n
    BY <1>1, <1>4, CutBack
  <2> HIDE DEF q
  <2>6. 1 * q <= P * q /\ P * q = q * P
    BY <1>1, <2>5, ProductMonotone
  <2>7. q <= Largest
    BY <1>1, <1>4, <2>4, <2>5, <2>6
  <2>8. QED
    BY <2>7 DEF q
<1>6. /\ r \in Nat
      /\ M * (r * P - n) <= 3 * n + P * M
      /\ M * (n - r * P) <= 3 * n + P * M
  <2> HIDE DEF n
  <2>1. QED
    BY <1>1, <1>4, <1>5, QuotientIs DEF M
<1> HIDE DEF r
<1>7. y \in Nat /\ y * F \in Int /\ y * F <= r /\ r < y * F + F
  BY <1>1, <1>6, CutBack
<1> HIDE DEF y
<1> DEFINE aM == a * M
           yPM == (y * P) * M
           PM == P * M
           c == 3 * a
           above == M * (y * P - a - P)
           below == M * (a - y * P - 2 * P)
<1>8. /\ aM \in Nat /\ yPM \in Nat /\ PM \in Nat /\ c \in Nat
      /\ above = yPM - aM - PM /\ below = aM - yPM - 2 * PM
  <2> HIDE DEF a
  <2>1. /\ M * (y * P - a - P) = (y * P) * M - a * M - P * M
        /\ M * (a - y * P - 2 * P) = a * M - (y * P) * M - 2 * (P * M)
    BY <1>1, <1>4, <1>7
  <2>2. aM \in Nat /\ yPM \in Nat /\ PM \in Nat /\ c \in Nat
    BY <1>1, <1>4, <1>7
  <2>3. QED
    BY <2>1, <2>2
\* times the finer units
<1>9. yPM * F <= (aM + c + PM) * F /\ aM * F <= (yPM + c + 2 * PM) * F
  <2> DEFINE w == P * M
             rw == r * w
             nM == n * M
             yw == (y * F) * w
             k1 == 3 * n
             Fw == F * w
  <2>1. w \in Nat \ {0}
    <3>1. 1 * M <= P * M
      BY <1>1, ProductMonotone
    <3>2. QED
      BY <1>1, <3>1
  <2>2. yw <= rw /\ rw <= (y * F + F) * w
    <3> HIDE DEF w
    <3>1. y * F + F \in Int /\ r <= y * F + F
      BY <1>1, <1>6, <1>7
    <3>2. QED
      BY <1>6, <1>7, <2>1, <3>1, ProductMonotone
  <2>3. (y * F + F) * w = yw + Fw /\ Fw \in Int /\ yw \in Int /\ rw \in Int
    BY <1>1, <1>6, <1>7, <2>1
  <2>4. M * (r * P - n) = rw - nM /\ M * (n - r * P) = nM - rw /\ nM \in Int
    <3> HIDE DEF n
    <3>1. QED
      BY <1>1, <1>4, <1>6
  <2>5. /\ nM = aM * F /\ yw = yPM * F /\ k1 = c * F /\ Fw = PM * F /\ w = PM
    <3>1. nM = aM * F /\ k1 = c * F
      BY <1>1
    <3>2. yw = yPM * F /\ Fw = PM * F
      BY <1>1, <1>7
    <3>3. QED
      BY <3>1, <3>2
  <2>6. w <= Fw
    <3>1. 1 * w <= F * w
      BY <1>1, <2>1, ProductMonotone
    <3>2. QED
      BY <2>1, <3>1
  <2>7. k1 \in Nat
    BY <1>4
  <2>8. (aM + c + PM) * F = aM * F + c * F + PM * F /\ (yPM + c + 2 * PM) * F = yPM * F + c * F + 2 * (PM * F)
    <3> HIDE DEF aM, yPM, c, PM
    <3>1. QED
      BY <1>1, <1>8
  <2>9. rw - nM <= k1 + w /\ nM - rw <= k1 + w
    BY <1>6, <2>4
  <2> HIDE DEF w, rw, nM, yw, k1, Fw, aM, yPM, c, PM
  <2>10. yw <= nM + k1 + Fw /\ nM <= yw + k1 + 2 * Fw
    BY <2>1, <2>2, <2>3, <2>4, <2>6, <2>7, <2>9
  <2>11. QED
    BY <2>5, <2>8, <2>10
<1> HIDE DEF aM, yPM, PM, c, above, below
<1>10. yPM <= aM + c + PM /\ aM <= yPM + c + 2 * PM
  <2>1. ASSUME NEW u \in Int, NEW v \in Int, u * F <= v * F
        PROVE  u <= v
    <3>1. SUFFICES ASSUME v + 1 <= u
                   PROVE  FALSE
      BY <2>1
    <3>2. u * F >= v * F + F
      BY <1>1, <2>1, <3>1, ProductGrows
    <3>3. u * F \in Int /\ v * F \in Int
      BY <1>1, <2>1
    <3>4. QED
      BY <1>1, <2>1, <3>2, <3>3
  <2>2. yPM \in Int /\ aM + c + PM \in Int /\ aM \in Int /\ yPM + c + 2 * PM \in Int
    BY <1>8
  <2>3. QED
    BY <1>9, <2>1, <2>2
<1>11. above <= c /\ below <= c
  BY <1>8, <1>10
<1> DEFINE e1 == y * P - a - P
           e2 == a - y * P - 2 * P
           L == c \div M
<1>12. e1 \in Int /\ e2 \in Int
  <2>1. y * P \in Int
    BY <1>1, <1>7
  <2> HIDE DEF a
  <2>2. QED
    BY <1>1, <1>4, <2>1
<1>13. above = e1 * M /\ below = e2 * M
  <2>1. above = M * e1 /\ below = M * e2
    BY DEF above, below
  <2> HIDE DEF e1, e2
  <2>2. QED
    BY <1>1, <1>12, <2>1
<1>14. e1 <= L /\ e2 <= L
  <2> HIDE DEF e1, e2
  <2>1. e1 * M <= c /\ e2 * M <= c
    BY <1>11, <1>13
  <2>2. QED
    BY <1>1, <1>8, <1>12, <2>1, AtMostQuotient
<1>15. L = Lost(3 * a) /\ L \in Nat
  <2>1. L = Lost(3 * a)
    BY DEF Lost, c, M
  <2>2. L \in Nat
    BY <1>1, <1>8, CutBack
  <2>3. QED
    BY <2>1, <2>2
<1> HIDE DEF L
<1> DEFINE yP == y * P
<1>16. P * y = yP /\ yP \in Int /\ e1 = yP - a - P /\ e2 = a - yP - 2 * P
  BY <1>1, <1>7
<1> HIDE DEF e1, e2, yP, a
<1>17. yP <= a + P + L /\ a <= yP + 2 * P + L
  BY <1>1, <1>4, <1>12, <1>14, <1>15, <1>16
<1>18. QED
  BY <1>1, <1>2, <1>4, <1>7, <1>15, <1>16, <1>17 DEF P, a

\* The price of a unit of the user interface, in such units of the quote
\* currency: what makes the one more decimals is in it.
LEMMA UiPriceIs ==
  ASSUME Typed, NEW i \in Markets, price(i) > 0, TokenFits(i), SpotFits(i)
  PROVE  \E e \in Nat \ {0} : /\ e * PowTen(Decimals(QUOTE_INDEX)) = PowTen(Decimals(i))
                              /\ UiPrice(i) = price(i) * e /\ UiPrice(i) \in Raw
<1> DEFINE p == price(i)
           Q == PowTen(Decimals(QUOTE_INDEX))
           D == PowTen(Decimals(i))
           d == Decimals(i) - Decimals(QUOTE_INDEX)
           E == PowTen(d)
<1>1. One \in Nat \ {0} /\ Top \in Nat \ {0} /\ p \in Nat \ {0}
  BY OneAssumption, TopAssumption, MarketsTyped
<1>2. Decimals(i) \in 0 .. 255 /\ Decimals(QUOTE_INDEX) \in 0 .. 255 /\ Decimals(QUOTE_INDEX) <= Decimals(i)
  BY TokensTyped DEF Tokens, SpotFits
<1>3. E * Q = D /\ E \in Nat \ {0} /\ Q \in Nat \ {0} /\ D \in Nat \ {0}
  <2>1. PowTen(d) * Q = D /\ d \in 0 .. 255
    BY ZenonT(60), <1>2, PowersOfTen
  <2> HIDE DEF d
  <2>2. QED
    BY ZenonT(60), <1>2, <2>1, PowersOfTen
<1>4. D * One < Top /\ p * E < Top
  BY DEF TokenFits, SpotFits
<1>5. UiPrice(i) = Multiply(p, Fixed(E))
  BY DEF UiPrice
<1> HIDE DEF p, Q, D, E
<1>6. E * One \in Nat /\ E * One <= D * One
  <2>1. E <= D
    <3>1. 1 * E <= Q * E
      BY <1>3, ProductMonotone
    <3>2. 1 * E = E /\ Q * E = E * Q
      BY <1>3
    <3>3. QED
      BY <1>3, <3>1, <3>2
  <2>2. E * One <= D * One
    BY <1>1, <1>3, <2>1, ProductMonotone
  <2>3. QED
    BY <1>1, <1>3, <2>2
<1>7. Fixed(E) = E * One
  <2>1. D * One \in Int
    BY <1>1, <1>3
  <2>2. E \in Int /\ -Top <= E * One /\ E * One < Top
    BY <1>1, <1>3, <1>4, <1>6, <2>1
  <2>3. QED
    BY <2>2, FixedExact
<1>8. p * E \in Raw /\ p * E \in Nat
  <2>1. p * E \in Nat
    BY <1>1, <1>3
  <2>2. QED
    BY <1>1, <1>4, <2>1 DEF Raw
<1>9. (p * (E * One)) \div One = p * E
  <2> DEFINE w == p * E
  <2>1. p * (E * One) = w * One
    BY <1>1, <1>3
  <2> HIDE DEF w
  <2>2. w \in Int /\ w * One \in Int /\ w * One = w * One + 0 /\ 0 < One
    BY <1>1, <1>8 DEF w
  <2>3. (w * One) \div One = w
    BY <1>1, <2>2, DivUnique
  <2>4. QED
    BY <2>1, <2>3 DEF w
<1>10. Multiply(p, E * One) = p * E
  <2>1. p \in Int /\ E * One \in Int
    BY <1>1, <1>6
  <2>2. Exact(p, E * One)
    BY <1>8, <1>9 DEF Exact
  <2>3. QED
    BY <1>9, <2>1, <2>2, MultiplyExact
<1>11. QED
  BY <1>3, <1>5, <1>7, <1>8, <1>10 DEF p, Q, D, E

\* An amount is worth its price, cut to the last bit of a unit of the user
\* interface.
LEMMA WorthIs ==
  ASSUME Typed, NEW i \in Markets, price(i) > 0, TokenFits(i), SpotFits(i),
         NEW u \in Int, Exact(u, UiPrice(i))
  PROVE  LET D == PowTen(Decimals(i))
             Q == PowTen(Decimals(QUOTE_INDEX))
             v == Multiply(u, UiPrice(i))
         IN  /\ v \in Int
             /\ (Q * v) * One <= (D * u) * price(i)
             /\ (D * u) * price(i) < (Q * v) * One + Q * One
<1> DEFINE p == price(i)
           D == PowTen(Decimals(i))
           Q == PowTen(Decimals(QUOTE_INDEX))
           v == Multiply(u, UiPrice(i))
<1>1. One \in Nat \ {0} /\ p \in Nat \ {0} /\ Q \in Nat \ {0}
  <2>1. Decimals(QUOTE_INDEX) \in 0 .. 255
    BY TokensTyped DEF Tokens
  <2>2. Q \in Nat \ {0}
    BY <2>1, PowerPositive
  <2>3. p \in Nat \ {0}
    BY MarketsTyped
  <2>4. QED
    BY <2>2, <2>3, OneAssumption
<1>2. PICK e \in Nat \ {0} : e * Q = D /\ UiPrice(i) = p * e /\ UiPrice(i) \in Raw
  BY UiPriceIs
<1> HIDE DEF p, D, Q
<1> DEFINE g == u * (p * e)
<1>3. g \in Int /\ (D * u) * p = Q * g
  <2>1. (D * u) * p = Q * g
    <3>1. ((e * Q) * u) * p = Q * (u * (p * e))
      BY <1>1, <1>2
    <3>2. QED
      BY <1>2, <3>1
  <2>2. QED
    BY <1>1, <1>2, <2>1
<1>4. v = g \div One
  <2>1. UiPrice(i) \in Int
    BY <1>2, RawIsInt
  <2>2. v = (u * UiPrice(i)) \div One
    BY <2>1, MultiplyExact
  <2>3. QED
    BY <1>2, <2>2
<1> HIDE DEF v, g
<1>5. v \in Int /\ v * One \in Int /\ v * One <= g /\ g < v * One + One
  BY <1>1, <1>3, <1>4, CutBack
<1>6. (Q * v) * One = (v * One) * Q /\ Q * g = g * Q
  BY <1>1, <1>3, <1>5
<1>7. (v * One) * Q <= g * Q /\ g * Q <= (v * One + One - 1) * Q
  <2>1. (v * One) * Q <= g * Q
    BY <1>1, <1>3, <1>5, ProductMonotone
  <2>2. v * One + One - 1 \in Int /\ g <= v * One + One - 1
    BY <1>1, <1>3, <1>5
  <2>3. g * Q <= (v * One + One - 1) * Q
    BY <1>1, <1>3, <2>2, ProductMonotone
  <2>4. QED
    BY <2>1, <2>3
<1>8. (v * One + One - 1) * Q = (v * One) * Q + Q * One - Q
  BY <1>1, <1>5
<1>9. (v * One) * Q \in Int /\ Q * One \in Int /\ g * Q \in Int
  BY <1>1, <1>3, <1>5
<1> DEFINE x == (v * One) * Q
           y == g * Q
           z == Q * One
<1>10. x <= y /\ y < x + z
  <2>1. x \in Int /\ y \in Int /\ z \in Int /\ x <= y /\ y <= x + z - Q
    BY <1>7, <1>8, <1>9
  <2> HIDE DEF x, y, z
  <2>2. QED
    BY <1>1, <2>1
<1>11. QED
  BY <1>3, <1>5, <1>6, <1>10 DEF v, p, D, Q

\* So an amount that is known up to rounding has its worth up to rounding.
LEMMA WorthBetween ==
  ASSUME Typed, NEW i \in Markets, price(i) > 0, TokenFits(i), SpotFits(i),
         NEW u \in Int, Exact(u, UiPrice(i)),
         NEW x \in Int, NEW above \in Nat, NEW below \in Nat,
         PowTen(Decimals(i)) * u <= x + above, x <= PowTen(Decimals(i)) * u + below
  PROVE  LET Q == PowTen(Decimals(QUOTE_INDEX))
             v == Multiply(u, UiPrice(i))
         IN  /\ v \in Int
             /\ (Q * v) * One <= x * price(i) + above * price(i)
             /\ x * price(i) <= (Q * v) * One + Q * One + below * price(i)
<1> DEFINE p == price(i)
           D == PowTen(Decimals(i))
           Q == PowTen(Decimals(QUOTE_INDEX))
           v == Multiply(u, UiPrice(i))
<1>1. p \in Nat \ {0} /\ D \in Nat \ {0} /\ Q \in Nat \ {0} /\ One \in Nat \ {0}
  <2>1. Decimals(QUOTE_INDEX) \in 0 .. 255 /\ Decimals(i) \in 0 .. 255
    BY TokensTyped DEF Tokens
  <2>2. Q \in Nat \ {0} /\ D \in Nat \ {0}
    BY ScalesAre
  <2>3. p \in Nat \ {0}
    BY MarketsTyped
  <2>4. QED
    BY <2>2, <2>3, OneAssumption
<1>2. /\ v \in Int
      /\ (Q * v) * One <= (D * u) * p
      /\ (D * u) * p < (Q * v) * One + Q * One
  BY WorthIs
<1>3. D * u <= x + above /\ x <= D * u + below
  BY DEF D
<1> HIDE DEF p, D, Q, v
<1> DEFINE y == D * u
<1>4. y \in Int /\ x + above \in Int /\ y + below \in Int /\ y <= x + above /\ x <= y + below
  BY <1>1, <1>3
<1>5. /\ (Q * v) * One <= y * p /\ y * p < (Q * v) * One + Q * One
  BY <1>2
<1> HIDE DEF y
<1>6. y * p <= (x + above) * p /\ x * p <= (y + below) * p
  BY <1>1, <1>4, ProductMonotone
<1>7. (x + above) * p = x * p + above * p /\ (y + below) * p = y * p + below * p
  BY <1>1, <1>4
<1>8. /\ x * p \in Int /\ above * p \in Int /\ y * p \in Int /\ below * p \in Int
      /\ (Q * v) * One \in Int /\ Q * One \in Int
  BY <1>1, <1>2, <1>4
<1> DEFINE xp == x * p
           ap == above * p
           yp == y * p
           bp == below * p
           qv == (Q * v) * One
           qo == Q * One
<1>9. /\ xp \in Int /\ ap \in Int /\ yp \in Int /\ bp \in Int /\ qv \in Int /\ qo \in Int
      /\ qv <= yp /\ yp < qv + qo /\ yp <= xp + ap /\ xp <= yp + bp
  BY <1>5, <1>6, <1>7, <1>8
<1> HIDE DEF xp, ap, yp, bp, qv, qo
<1>10. qv <= xp + ap /\ xp <= qv + qo + bp
  BY <1>9
<1>11. QED
  BY <1>2, <1>10 DEF xp, ap, bp, qv, qo, p, Q, v

\* what the balances of a market and its open orders are worth without
\* rounding, and that is scaled by the square of one
SpotExact(i) ==
  IF Loaded(i)
  THEN LET oo == OrdersOn(i)
       IN  (getNet(i) + oo.baseTokenTotal * One) * price(i)
             + ((oo.quoteTokenTotal + oo.referrerRebatesAccrued) * One) * One
  ELSE getNet(i) * price(i)

\* what they add to the value
SpotValue(i) == getSpotVal(i, orders) - Multiply(getUiBorrow(i), Multiply(UiPrice(i), One))

\* what balances lose on their way through doubles
BalancesLost(i) == Lost(getNativeDeposit(i)) + Lost(getNativeBorrow(i))

\* The balances alone.
LEMMA BalancesValue ==
  ASSUME Typed, NEW i \in Markets, price(i) > 0, TokenFits(i), SpotFits(i)
  PROVE  LET Q == PowTen(Decimals(QUOTE_INDEX))
             D == PowTen(Decimals(i))
             L == BalancesLost(i)
             v == Multiply(getUiDeposit(i), UiPrice(i)) - Multiply(getUiBorrow(i), Multiply(UiPrice(i), One))
         IN  /\ v \in Int /\ getNet(i) * price(i) \in Int /\ L \in Nat
             /\ (Q * v) * One <= getNet(i) * price(i) + (D + L) * price(i) + Q * One
             /\ getNet(i) * price(i) <= (Q * v) * One + (2 * One + D + L) * price(i) + Q * One
<1> DEFINE p == price(i)
           D == PowTen(Decimals(i))
           Q == PowTen(Decimals(QUOTE_INDEX))
           a == getNativeDeposit(i)
           b == getNativeBorrow(i)
           La == Lost(a)
           Lb == Lost(b)
           L == BalancesLost(i)
           x == Multiply(getUiDeposit(i), UiPrice(i))
           y == Multiply(getUiBorrow(i), UiPrice(i))
<1>1. p \in Nat \ {0} /\ D \in Nat \ {0} /\ Q \in Nat \ {0} /\ One \in Nat \ {0}
  <2>1. Q \in Nat \ {0} /\ D \in Nat \ {0}
    BY ScalesAre
  <2>2. p \in Nat \ {0}
    BY MarketsTyped
  <2>3. QED
    BY <2>1, <2>2, OneAssumption
<1>2. i \in Tokens /\ a \in Int /\ b \in Int /\ getNet(i) = a - b
  BY TokensTyped DEF Tokens
<1>3. Multiply(getUiBorrow(i), Multiply(UiPrice(i), One)) = y
  BY UiPriceIs, MultiplyOne
<1>4. /\ x \in Int
      /\ (Q * x) * One <= a * p + La * p
      /\ a * p <= (Q * x) * One + Q * One + (One + D + La) * p
      /\ La \in Nat
  <2>1. /\ getUiDeposit(i) \in Nat /\ D * getUiDeposit(i) \in Int /\ La \in Nat
        /\ D * getUiDeposit(i) <= a + La /\ a < D * getUiDeposit(i) + One + D + La
    BY <1>2, DepositIs
  <2>2. Exact(getUiDeposit(i), UiPrice(i))
    BY DEF SpotFits
  <2> DEFINE u == getUiDeposit(i)
  <2>3. u \in Int /\ D * u <= a + La /\ a <= D * u + (One + D + La) /\ One + D + La \in Nat /\ La \in Nat
    <3> HIDE DEF u, a, D, La
    <3>1. QED
      BY <1>1, <1>2, <2>1 DEF u
  <2> HIDE DEF u, a, p, La
  <2>4. QED
    BY <1>2, <2>2, <2>3, WorthBetween DEF u, p
<1>5. /\ y \in Int
      /\ (Q * y) * One <= b * p + (One + Lb) * p
      /\ b * p <= (Q * y) * One + Q * One + (D + Lb) * p
      /\ Lb \in Nat
  <2>1. /\ getUiBorrow(i) \in Nat /\ D * getUiBorrow(i) \in Int /\ Lb \in Nat
        /\ D * getUiBorrow(i) < b + One + Lb /\ b < D * getUiBorrow(i) + D + Lb
    BY <1>2, BorrowIs
  <2>2. Exact(getUiBorrow(i), UiPrice(i))
    BY DEF SpotFits
  <2> DEFINE u == getUiBorrow(i)
  <2>3. /\ u \in Int /\ D * u <= b + (One + Lb) /\ b <= D * u + (D + Lb)
        /\ D + Lb \in Nat /\ One + Lb \in Nat /\ Lb \in Nat
    <3> HIDE DEF u, b, D, Lb
    <3>1. QED
      BY <1>1, <1>2, <2>1 DEF u
  <2> HIDE DEF u, b, p, Lb
  <2>4. QED
    BY <1>2, <2>2, <2>3, WorthBetween DEF u, p
<1> DEFINE lap == La * p
           lbp == Lb * p
<1>6. /\ (One + D + La) * p = One * p + D * p + lap /\ (One + Lb) * p = One * p + lbp
      /\ (D + Lb) * p = D * p + lbp /\ lap \in Nat /\ lbp \in Nat
      /\ L = La + Lb /\ L \in Nat
      /\ (D + L) * p = D * p + lap + lbp /\ (2 * One + D + L) * p = 2 * (One * p) + D * p + lap + lbp
      /\ (a - b) * p = a * p - b * p
  <2>1. L = La + Lb
    BY DEF BalancesLost
  <2> HIDE DEF a, b, p, D, La, Lb, L
  <2>2. L \in Nat
    BY <1>4, <1>5, <2>1
  <2>3. /\ (One + D + La) * p = One * p + D * p + lap /\ (One + Lb) * p = One * p + lbp
        /\ (D + Lb) * p = D * p + lbp /\ lap \in Nat /\ lbp \in Nat
    BY <1>1, <1>4, <1>5
  <2>4. (D + (La + Lb)) * p = D * p + lap + lbp /\ (2 * One + D + (La + Lb)) * p = 2 * (One * p) + D * p + lap + lbp
    BY <1>1, <1>4, <1>5
  <2>5. (a - b) * p = a * p - b * p
    BY <1>1, <1>2
  <2>6. QED
    BY <2>1, <2>2, <2>3, <2>4, <2>5
<1> HIDE DEF a, b, x, y, p, D, Q, L, La, Lb
<1>7. (Q * (x - y)) * One = (Q * x) * One - (Q * y) * One
  BY <1>1, <1>4, <1>5
<1> DEFINE ap == a * p
           bp == b * p
           op == One * p
           dp == D * p
           qx == (Q * x) * One
           qy == (Q * y) * One
           qo == Q * One
<1>8. /\ ap \in Int /\ bp \in Int /\ op \in Int /\ dp \in Int /\ qx \in Int /\ qy \in Int /\ qo \in Int
      /\ lap \in Nat /\ lbp \in Nat
      /\ qx <= ap + lap /\ ap <= qx + qo + op + dp + lap
      /\ qy <= bp + op + lbp /\ bp <= qy + qo + dp + lbp /\ op >= 0
  <2>1. ap \in Int /\ bp \in Int /\ op \in Int /\ dp \in Int /\ op >= 0
    BY <1>1, <1>2
  <2>2. qx \in Int /\ qy \in Int /\ qo \in Int
    BY <1>1, <1>4, <1>5
  <2>3. qx <= ap + lap /\ ap <= qx + qo + (op + dp + lap)
    BY <1>4, <1>6
  <2>4. qy <= bp + (op + lbp) /\ bp <= qy + qo + (dp + lbp)
    BY <1>5, <1>6
  <2>5. lap \in Nat /\ lbp \in Nat
    BY <1>6
  <2> HIDE DEF ap, bp, op, dp, qx, qy, qo, lap, lbp
  <2>6. QED
    BY <2>1, <2>2, <2>3, <2>4, <2>5
<1> HIDE DEF ap, bp, op, dp, qx, qy, qo, lap, lbp
<1>9. /\ qx - qy <= (ap - bp) + (dp + lap + lbp) + qo
      /\ ap - bp <= (qx - qy) + (2 * op + dp + lap + lbp) + qo /\ ap - bp \in Int
  BY <1>8
<1>10. x - y \in Int
  BY <1>4, <1>5
<1>11. /\ (Q * (x - y)) * One = qx - qy /\ getNet(i) * p = ap - bp
       /\ (D + L) * p = dp + lap + lbp /\ Q * One = qo /\ (2 * One + D + L) * p = 2 * op + dp + lap + lbp
  BY <1>2, <1>6, <1>7 DEF ap, bp, op, dp, qx, qy, qo
<1>12. /\ (Q * (x - y)) * One <= getNet(i) * p + (D + L) * p + Q * One
       /\ getNet(i) * p <= (Q * (x - y)) * One + (2 * One + D + L) * p + Q * One
       /\ getNet(i) * p \in Int
  BY <1>9, <1>11
<1>13. QED
  BY <1>3, <1>6, <1>10, <1>12 DEF p, D, Q, L, x, y

\* The tokens of the open orders: those of the market at their price, the quote
\* currency as it is.
LEMMA OrdersValue ==
  ASSUME Typed, NEW i \in Markets, price(i) > 0, TokenFits(i), SpotFits(i),
         NEW B \in Uint64, Exact(nativeToUi(B, Decimals(i)), UiPrice(i)), NEW q \in Uint64
  PROVE  LET Q == PowTen(Decimals(QUOTE_INDEX))
             D == PowTen(Decimals(i))
             v == Multiply(nativeToUi(B, Decimals(i)), UiPrice(i)) + nativeToUi(q, Decimals(QUOTE_INDEX))
             x == (B * One) * price(i) + (q * One) * One
             LB == Lost(3 * (B * One))
             Lq == Lost(3 * (q * One))
         IN  /\ v \in Int /\ x \in Int /\ LB \in Nat /\ Lq \in Nat
             /\ (Q * v) * One <= x + (D + LB) * price(i) + (Q + Lq) * One
             /\ x <= (Q * v) * One + (2 * D + LB) * price(i) + (3 * Q + Lq) * One
<1> DEFINE p == price(i)
           D == PowTen(Decimals(i))
           Q == PowTen(Decimals(QUOTE_INDEX))
           LB == Lost(3 * (B * One))
           Lq == Lost(3 * (q * One))
           n == nativeToUi(B, Decimals(i))
           w == nativeToUi(q, Decimals(QUOTE_INDEX))
           m == Multiply(n, UiPrice(i))
<1>1. p \in Nat \ {0} /\ One \in Nat \ {0} /\ Decimals(QUOTE_INDEX) \in 0 .. 255 /\ Decimals(i) \in 0 .. 255
  <2>1. Decimals(QUOTE_INDEX) \in 0 .. 255 /\ Decimals(i) \in 0 .. 255
    BY TokensTyped DEF Tokens
  <2>2. p \in Nat \ {0}
    BY MarketsTyped
  <2>3. QED
    BY <2>1, <2>2, OneAssumption
<1>2. /\ n \in Nat /\ B * One \in Nat /\ D \in Nat \ {0} /\ D * n \in Int /\ LB \in Nat
      /\ D * n <= B * One + D + LB /\ B * One <= D * n + 2 * D + LB
  BY <1>1, NativeToUiIs
<1>3. /\ w \in Nat /\ q * One \in Nat /\ Q \in Nat \ {0} /\ Q * w \in Int /\ Lq \in Nat
      /\ Q * w <= q * One + Q + Lq /\ q * One <= Q * w + 2 * Q + Lq
  BY <1>1, NativeToUiIs
<1> DEFINE a == B * One
           c == q * One
<1>4. a \in Nat /\ c \in Nat
  BY <1>2, <1>3
<1>5. /\ m \in Int
      /\ (Q * m) * One <= a * p + (D + LB) * p
      /\ a * p <= (Q * m) * One + Q * One + (2 * D + LB) * p
  <2>1. Exact(n, UiPrice(i)) /\ price(i) > 0
    OBVIOUS
  <2> DEFINE above == D + LB
             below == 2 * D + LB
  <2>2. D * n <= a + above /\ a <= D * n + below
    <3> DEFINE y == D * n
    <3> HIDE DEF y, a, D, LB
    <3>1. y \in Int /\ y <= a + D + LB /\ a <= y + 2 * D + LB
      BY <1>2 DEF y, a
    <3>2. QED
      BY <1>2, <1>4, <3>1 DEF y
  <2>3. above \in Nat /\ below \in Nat /\ a \in Int /\ n \in Int
    <3> HIDE DEF a, D, LB, n
    <3>1. QED
      BY <1>2, <1>4
  <2> HIDE DEF above, below, a, n
  <2>4. PowTen(Decimals(i)) * n <= a + above /\ a <= PowTen(Decimals(i)) * n + below
    BY <2>2 DEF D
  <2>5. /\ Multiply(n, UiPrice(i)) \in Int
        /\ (Q * Multiply(n, UiPrice(i))) * One <= a * price(i) + above * price(i)
        /\ a * price(i) <= (Q * Multiply(n, UiPrice(i))) * One + Q * One + below * price(i)
    BY <2>1, <2>3, <2>4, WorthBetween
  <2>6. QED
    BY <2>5 DEF above, below, p
<1> HIDE DEF p, D, Q, n, w, m, LB, Lq, a, c
<1>6. (Q * w) * One <= c * One + (Q + Lq) * One /\ c * One <= (Q * w) * One + (2 * Q + Lq) * One
  <2> DEFINE y == Q * w
  <2>1. y \in Int /\ y <= c + (Q + Lq) /\ c <= y + (2 * Q + Lq)
    <3>1. y \in Int /\ y <= c + Q + Lq /\ c <= y + 2 * Q + Lq
      BY <1>3 DEF c
    <3> HIDE DEF y
    <3>2. QED
      BY <1>3, <1>4, <3>1
  <2> HIDE DEF y
  <2>2. Q + Lq \in Nat /\ 2 * Q + Lq \in Nat
    BY <1>3
  <2> DEFINE e == Q + Lq
             f == 2 * Q + Lq
  <2>3. e \in Nat /\ f \in Nat /\ c + e \in Int /\ y + f \in Int /\ y <= c + e /\ c <= y + f
    BY <1>4, <2>1, <2>2
  <2> HIDE DEF e, f
  <2>4. y * One <= (c + e) * One /\ c * One <= (y + f) * One
    BY <1>1, <1>4, <2>1, <2>3, ProductMonotone
  <2>5. (c + e) * One = c * One + e * One /\ (y + f) * One = y * One + f * One
    BY <1>1, <1>4, <2>1, <2>3
  <2>6. QED
    BY <2>4, <2>5 DEF y, e, f
<1> DEFINE bp == a * p
           qq == c * One
           qm == (Q * m) * One
           qw == (Q * w) * One
           qo == Q * One
           lo == Lq * One
           up == (D + LB) * p
           dn == (2 * D + LB) * p
<1>7. /\ bp \in Int /\ qq \in Int /\ qm \in Int /\ qw \in Int /\ qo \in Int /\ lo \in Int
      /\ up \in Int /\ dn \in Int
      /\ (Q + Lq) * One = qo + lo /\ (2 * Q + Lq) * One = 2 * qo + lo /\ (3 * Q + Lq) * One = 3 * qo + lo
      /\ (Q * (m + w)) * One = qm + qw /\ m + w \in Int
  <2>1. bp \in Int /\ qq \in Int /\ up \in Int /\ dn \in Int
    BY <1>1, <1>2, <1>4
  <2>2. qo \in Int /\ lo \in Int /\ (Q + Lq) * One = qo + lo /\ (2 * Q + Lq) * One = 2 * qo + lo
        /\ (3 * Q + Lq) * One = 3 * qo + lo
    BY <1>1, <1>3
  <2>3. qm \in Int /\ qw \in Int /\ (Q * (m + w)) * One = qm + qw /\ m + w \in Int
    BY <1>1, <1>3, <1>5
  <2>4. QED
    BY <2>1, <2>2, <2>3
<1>8. qm <= bp + up /\ bp <= qm + qo + dn /\ qw <= qq + (qo + lo) /\ qq <= qw + (2 * qo + lo)
  BY <1>5, <1>6, <1>7
<1> HIDE DEF bp, qq, qm, qw, qo, lo, up, dn
<1>9. /\ qm + qw <= (bp + qq) + up + (qo + lo)
      /\ bp + qq <= (qm + qw) + dn + (3 * qo + lo) /\ bp + qq \in Int
  BY <1>7, <1>8
<1>10. bp + qq = (B * One) * price(i) + (q * One) * One
  BY DEF bp, qq, a, c, p
<1>11. /\ (Q * (m + w)) * One <= (bp + qq) + up + (Q + Lq) * One
       /\ bp + qq <= (Q * (m + w)) * One + dn + (3 * Q + Lq) * One
  BY <1>7, <1>9
<1>12. QED
  BY <1>2, <1>3, <1>7, <1>9, <1>10, <1>11 DEF up, dn, p, D, Q, n, w, m, LB, Lq

\* What the token and the quote currency of a market lose is none of their own.
LEMMA LossesAre ==
  ASSUME Typed, OrdersTyped, NEW i \in Markets, TokenFits(i), SpotFits(i)
  PROVE  /\ BalancesLost(i) \in Nat /\ BaseLost(i) \in Nat /\ QuoteLost(i) \in Nat
         /\ ~Loaded(i) => BaseLost(i) = BalancesLost(i) /\ QuoteLost(i) = 0
         /\ Loaded(i) =>
              LET B == OrdersOn(i).baseTokenTotal
                  q == OrdersOn(i).quoteTokenTotal + OrdersOn(i).referrerRebatesAccrued
              IN  /\ B \in Uint64 /\ q \in Uint64 /\ ToUint64(q) = q
                  /\ BaseLost(i) = BalancesLost(i) + Lost(3 * (B * One)) /\ QuoteLost(i) = Lost(3 * (q * One))
<1> DEFINE B == OrdersOn(i).baseTokenTotal
           q == OrdersOn(i).quoteTokenTotal + OrdersOn(i).referrerRebatesAccrued
<1>1. BalancesLost(i) \in Nat
  <2>1. i \in Tokens
    BY DEF Tokens
  <2>2. Lost(getNativeDeposit(i)) \in Nat
    BY <2>1, DepositIs
  <2>3. Lost(getNativeBorrow(i)) \in Nat
    BY <2>1, BorrowIs
  <2>4. QED
    BY <2>2, <2>3 DEF BalancesLost
<1>2. ASSUME ~Loaded(i)
      PROVE  BaseLost(i) = BalancesLost(i) /\ QuoteLost(i) = 0
  <2>1. BaseLost(i) = BalancesLost(i) + 0
    BY <1>2 DEF BaseLost, BalancesLost
  <2>2. QED
    BY <1>1, <1>2, <2>1 DEF QuoteLost
<1>3. ASSUME Loaded(i)
      PROVE  /\ B \in Uint64 /\ q \in Uint64 /\ ToUint64(q) = q
             /\ BaseLost(i) = BalancesLost(i) + Lost(3 * (B * One)) /\ QuoteLost(i) = Lost(3 * (q * One))
             /\ Lost(3 * (B * One)) \in Nat /\ Lost(3 * (q * One)) \in Nat
  <2>1. OrdersOn(i) \in OpenOrdersAccount
    BY <1>3 DEF OrdersTyped, Loaded, OrdersOn
  <2>2. B \in Uint64
    BY <2>1 DEF OpenOrdersAccount
  <2>3. AmountsFit(i, OrdersOn(i))
    BY <1>3 DEF SpotFits
  <2>4. q \in Uint64
    BY <2>3 DEF AmountsFit
  <2>5. B \in Nat /\ q \in Nat /\ ToUint64(q) = q
    BY <2>2, <2>4, WordsAre
  <2>6. BaseLost(i) = BalancesLost(i) + Lost(3 * (B * One)) /\ QuoteLost(i) = Lost(3 * (q * One))
    BY <1>3 DEF BaseLost, BalancesLost, QuoteLost
  <2> HIDE DEF B, q
  <2>7. 3 * (B * One) \in Nat /\ 3 * (q * One) \in Nat
    BY <2>5, OneAssumption
  <2>8. QED
    BY <2>2, <2>4, <2>5, <2>6, <2>7, LostIs
<1>4. BaseLost(i) \in Nat /\ QuoteLost(i) \in Nat
  <2>1. CASE Loaded(i)
    <3> HIDE DEF B, q
    <3>1. QED
      BY <1>1, <1>3, <2>1
  <2>2. CASE ~Loaded(i)
    BY <1>1, <1>2, <2>2
  <2>3. QED
    BY <2>1, <2>2
<1>5. QED
  BY <1>1, <1>2, <1>3, <1>4

\* What a market adds to the value is the exact worth but for rounding.
LEMMA SpotValueIs ==
  ASSUME Typed, OrdersTyped, NEW i \in Markets, price(i) > 0, TokenFits(i), SpotFits(i),
         group.decimals[QUOTE_INDEX] # 0
  PROVE  LET Q == PowTen(Decimals(QUOTE_INDEX))
             D == PowTen(Decimals(i))
         IN  /\ getSpotVal(i, orders) \in Int /\ Multiply(getUiBorrow(i), Multiply(UiPrice(i), One)) \in Int
             /\ SpotValue(i) \in Int /\ SpotExact(i) \in Int
             /\ (Q * SpotValue(i)) * One <= SpotExact(i) + (2 * D + BaseLost(i)) * price(i) + (2 * Q + QuoteLost(i)) * One
             /\ SpotExact(i) <= (Q * SpotValue(i)) * One + (2 * One + 3 * D + BaseLost(i)) * price(i)
                                  + (4 * Q + QuoteLost(i)) * One
<1> DEFINE p == price(i)
           D == PowTen(Decimals(i))
           Q == PowTen(Decimals(QUOTE_INDEX))
           L == BalancesLost(i)
           BL == BaseLost(i)
           QL == QuoteLost(i)
           net == getNet(i)
           v == Multiply(getUiDeposit(i), UiPrice(i)) - Multiply(getUiBorrow(i), Multiply(UiPrice(i), One))
<1>1. p \in Nat \ {0} /\ D \in Nat \ {0} /\ Q \in Nat \ {0} /\ One \in Nat \ {0} /\ net \in Int
  <2>1. Q \in Nat \ {0} /\ D \in Nat \ {0}
    BY ScalesAre
  <2>2. p \in Nat \ {0}
    BY MarketsTyped
  <2>3. net \in Int
    BY NetTyped DEF Tokens
  <2>4. QED
    BY <2>1, <2>2, <2>3, OneAssumption
<1>2. /\ v \in Int /\ net * p \in Int /\ L \in Nat
      /\ (Q * v) * One <= net * p + (D + L) * p + Q * One
      /\ net * p <= (Q * v) * One + (2 * One + D + L) * p + Q * One
  BY BalancesValue
<1>3. BL \in Nat /\ QL \in Nat
  BY LossesAre
<1>4. /\ Multiply(getUiDeposit(i), UiPrice(i)) \in Int
      /\ Multiply(getUiBorrow(i), Multiply(UiPrice(i), One)) \in Int
  <2>1. UiPrice(i) \in Raw /\ UiPrice(i) \in Int
    BY UiPriceIs, RawIsInt
  <2>2. getUiDeposit(i) \in Int /\ getUiBorrow(i) \in Int
    BY DepositIs, BorrowIs DEF Tokens
  <2>3. QED
    BY <2>1, <2>2, MultiplyExact, MultiplyOne, RawIsInt
<1> DEFINE np == net * p
           op == One * p
           dp == D * p
           lp == L * p
           qo == Q * One
           qv == (Q * v) * One
<1>5. /\ np \in Int /\ op \in Nat /\ dp \in Nat /\ lp \in Nat /\ qo \in Nat /\ qv \in Int
      /\ qv <= np + (dp + lp) + qo /\ np <= qv + (2 * op + dp + lp) + qo
  <2> HIDE DEF p, D, Q, L, v, net
  <2>1. np \in Int /\ op \in Nat /\ dp \in Nat /\ lp \in Nat /\ qo \in Nat /\ qv \in Int
    BY <1>1, <1>2
  <2>2. (D + L) * p = dp + lp /\ (2 * One + D + L) * p = 2 * op + dp + lp
    BY <1>1, <1>2
  <2>3. QED
    BY <1>2, <2>1, <2>2
<1>6. CASE ~Loaded(i)
  <2>1. SpotExact(i) = net * p
    BY <1>6 DEF SpotExact
  <2>2. getSpotVal(i, orders) = Multiply(getUiDeposit(i), UiPrice(i)) + 0
    BY <1>6 DEF getSpotVal, Loaded
  <2>3. SpotValue(i) = v
    BY <1>4, <2>2 DEF SpotValue
  <2>4. BL = L /\ QL = 0
    BY <1>6, LossesAre
  <2> HIDE DEF p, D, Q, L, BL, QL, v, net
  <2>5. /\ (2 * D + BL) * p = 2 * dp + lp /\ (2 * Q + QL) * One = 2 * qo
        /\ (2 * One + 3 * D + BL) * p = 2 * op + 3 * dp + lp /\ (4 * Q + QL) * One = 4 * qo
    BY <1>1, <1>2, <2>4
  <2> HIDE DEF np, op, dp, lp, qo, qv
  <2>6. qv <= np + (2 * dp + lp) + 2 * qo /\ np <= qv + (2 * op + 3 * dp + lp) + 4 * qo
    BY <1>5
  <2>7. /\ (Q * v) * One <= net * p + (2 * D + BL) * p + (2 * Q + QL) * One
        /\ net * p <= (Q * v) * One + (2 * One + 3 * D + BL) * p + (4 * Q + QL) * One
    BY <2>5, <2>6 DEF np, qv
  <2>8. QED
    BY <1>2, <1>4, <2>1, <2>2, <2>3, <2>7 DEF p, D, Q, BL, QL
<1>7. CASE Loaded(i)
  <2> DEFINE oo == OrdersOn(i)
             B == oo.baseTokenTotal
             q == oo.quoteTokenTotal + oo.referrerRebatesAccrued
             LB == Lost(3 * (B * One))
             o == Multiply(nativeToUi(B, Decimals(i)), UiPrice(i)) + nativeToUi(q, Decimals(QUOTE_INDEX))
             x == (B * One) * p + (q * One) * One
  <2>1. B \in Uint64 /\ q \in Uint64 /\ ToUint64(q) = q /\ BL = L + LB /\ QL = Lost(3 * (q * One))
    BY <1>7, LossesAre
  <2>2. Decimals(i) = group.decimals[i] /\ Decimals(QUOTE_INDEX) = group.decimals[QUOTE_INDEX]
    BY <1>7 DEF SpotFits, Decimals
  <2>3. Exact(nativeToUi(B, Decimals(i)), UiPrice(i))
    BY <1>7, <2>2 DEF SpotFits
  <2>4. SpotExact(i) = (net + B * One) * p + (q * One) * One
    BY <1>7 DEF SpotExact
  <2>5. getSpotVal(i, orders) = Multiply(getUiDeposit(i), UiPrice(i)) + o
    BY <1>7, <2>1, <2>2 DEF getSpotVal, Loaded, OrdersOn
  <2> HIDE DEF oo, B, q
  <2>6. /\ o \in Int /\ x \in Int /\ LB \in Nat
        /\ (Q * o) * One <= x + (D + LB) * p + (Q + QL) * One
        /\ x <= (Q * o) * One + (2 * D + LB) * p + (3 * Q + QL) * One
    BY <2>1, <2>3, OrdersValue
  <2>7. SpotValue(i) = v + o
    <3> HIDE DEF o
    <3>1. QED
      BY <1>4, <2>5, <2>6 DEF SpotValue
  <2>8. B \in Nat /\ q \in Nat
    BY <2>1, WordsAre
  <2> HIDE DEF v, o, p, D, Q, net, L, LB, BL, QL
  <2>9. SpotExact(i) = net * p + x
    <3>1. (net + B * One) * p = net * p + (B * One) * p
      BY <1>1, <2>8
    <3>2. net * p \in Int /\ (B * One) * p \in Int /\ (q * One) * One \in Int
      BY <1>1, <2>8
    <3>3. QED
      BY <2>4, <3>1, <3>2
  <2> HIDE DEF x
  <2> DEFINE bp == LB * p
             ql == QL * One
             qu == (Q * o) * One
  <2>10. (Q * (v + o)) * One = qv + qu /\ qu \in Int /\ bp \in Nat /\ ql \in Nat
    BY <1>1, <1>2, <1>3, <2>6
  <2>11. /\ (D + LB) * p = dp + bp /\ (2 * D + LB) * p = 2 * dp + bp
         /\ (Q + QL) * One = qo + ql /\ (3 * Q + QL) * One = 3 * qo + ql
         /\ (2 * Q + QL) * One = 2 * qo + ql /\ (4 * Q + QL) * One = 4 * qo + ql
    BY <1>1, <1>3, <2>6
  <2>12. (2 * D + BL) * p = 2 * dp + lp + bp /\ (2 * One + 3 * D + BL) * p = 2 * op + 3 * dp + lp + bp
    BY <1>1, <1>2, <2>1, <2>6
  <2>13. qu <= x + (dp + bp) + (qo + ql) /\ x <= qu + (2 * dp + bp) + (3 * qo + ql)
    BY <2>6, <2>11
  <2> HIDE DEF np, op, dp, lp, qo, qv, bp, ql, qu
  <2>14. /\ qv + qu <= (np + x) + (2 * dp + lp + bp) + (2 * qo + ql)
         /\ np + x <= (qv + qu) + (2 * op + 3 * dp + lp + bp) + (4 * qo + ql) /\ np + x \in Int
    BY <1>5, <2>6, <2>10, <2>13
  <2>15. v + o \in Int /\ Multiply(getUiDeposit(i), UiPrice(i)) + o \in Int
    BY <1>2, <1>4, <2>6
  <2>16. /\ (Q * (v + o)) * One <= (net * p + x) + (2 * D + BL) * p + (2 * Q + QL) * One
         /\ net * p + x <= (Q * (v + o)) * One + (2 * One + 3 * D + BL) * p + (4 * Q + QL) * One
         /\ net * p + x \in Int
    BY <2>10, <2>11, <2>12, <2>14 DEF np
  <2>17. QED
    BY <1>4, <2>5, <2>7, <2>9, <2>15, <2>16 DEF p, D, Q, BL, QL
<1>8. QED
  BY <1>6, <1>7

\* A position with the weight one is worth its price, cut to the last bit.
LEMMA WeighedOne ==
  ASSUME Typed, NEW i \in Markets, price(i) > 0, NEW market \in MarketInfo, NEW pos, Weighable(pos, i, market)
  PROVE  /\ pos \in Int /\ pos * price(i) \in Int /\ Weighed(pos, i, market, "Unknown") \in Int
         /\ Weighed(pos, i, market, "Unknown") * One <= pos * price(i)
         /\ pos * price(i) <= Weighed(pos, i, market, "Unknown") * One + One
<1> DEFINE v == Multiply(pos, price(i))
<1>1. price(i) \in Int /\ One \in Nat \ {0}
  BY MarketsTyped, OneAssumption
<1>2. pos \in Raw /\ Exact(pos, price(i))
  <2>1. "Unknown" \in HealthTypes
    BY DEF HealthTypes
  <2>2. QED
    BY <2>1 DEF Weighable
<1>3. pos \in Int /\ v = (pos * price(i)) \div One /\ v \in Raw
  BY <1>1, <1>2, RawIsInt, MultiplyExact
<1>4. /\ Weights(market, "Unknown").asset = One /\ Weights(market, "Unknown").liab = One
  BY WeightsAre
<1>5. Weighed(pos, i, market, "Unknown") = Multiply(v, One)
  BY <1>4 DEF Weighed
<1>6. Multiply(v, One) = v
  <2> HIDE DEF v
  <2>1. QED
    BY <1>3, MultiplyOne
<1>7. pos * price(i) \in Int
  BY <1>1, <1>3
<1> DEFINE g == pos * price(i)
<1> HIDE DEF v, g
<1>8. g \div One \in Int /\ (g \div One) * One <= g /\ g < (g \div One) * One + One /\ (g \div One) * One \in Int
  BY <1>1, <1>7, CutBack DEF g
<1>9. v = g \div One
  BY <1>3 DEF g
<1> DEFINE y == (g \div One) * One
<1>10. y \in Int /\ y <= g /\ g < y + One /\ g \in Int
  BY <1>7, <1>8 DEF g
<1> HIDE DEF y
<1>11. g <= y + One
  BY <1>1, <1>10
<1>12. QED
  BY <1>3, <1>5, <1>6, <1>8, <1>9, <1>10, <1>11 DEF g, y

\* what a market's balances and open orders add to the health
SpotHealth(i) ==
  SpotComponent(i, orders).quote + Weighed(SpotComponent(i, orders).pos, i, group.spot[i], "Unknown")

\* Both cases have the exact worth, but for the bit the quotient loses.
LEMMA CasesExact ==
  ASSUME Typed, OrdersTyped, NEW i \in Markets, price(i) > 0, SpotFits(i), Loaded(i),
         NEW case \in {SpotBids(i, OrdersOn(i)), SpotAsks(i, OrdersOn(i))},
         case.pos \in Int
  PROVE  /\ case.quote \in Int /\ SpotExact(i) \in Int
         /\ case.pos * price(i) + case.quote * One <= SpotExact(i)
         /\ SpotExact(i) <= case.pos * price(i) + case.quote * One + price(i)
<1> DEFINE oo == OrdersOn(i)
           bids == SpotBids(i, oo)
           asks == SpotAsks(i, oo)
           p == price(i)
           net == getNet(i)
           s == splitOpenOrders(oo)
<1>1. p \in Nat \ {0} /\ One \in Nat \ {0} /\ Top \in Nat \ {0} /\ net \in Int
  <2>1. net \in Int
    BY NetTyped DEF Tokens
  <2>2. QED
    BY <2>1, MarketsTyped, OneAssumption, TopAssumption
<1>2. oo \in OpenOrdersAccount
  BY DEF OrdersTyped, Loaded, OrdersOn
<1>3. AmountsFit(i, oo) /\ LockedFits(i, oo)
  BY DEF SpotFits
<1>4. SpotExact(i) = (net + oo.baseTokenTotal * One) * p
                       + ((oo.quoteTokenTotal + oo.referrerRebatesAccrued) * One) * One
  BY DEF SpotExact
<1>5. case \in {bids, asks}
  OBVIOUS
<1> HIDE DEF oo
<1>6. /\ bids.quote \in Int /\ asks.quote \in Int
      /\ (bids.pos - asks.pos) * p <= (asks.quote - bids.quote) * One
      /\ (asks.quote - bids.quote) * One <= (bids.pos - asks.pos) * p + p
  BY <1>2, <1>3, SpotBalances
<1>7. \A case2 \in {bids, asks} : case2.pos \in Int
  BY <1>2, <1>3, OrdersAdd
<1>8. /\ oo.baseTokenFree \in Nat /\ oo.baseTokenTotal \in Nat /\ oo.quoteTokenFree \in Nat
      /\ oo.quoteTokenTotal \in Nat /\ oo.referrerRebatesAccrued \in Nat
  <2>1. /\ oo.baseTokenFree \in Uint64 /\ oo.baseTokenTotal \in Uint64 /\ oo.quoteTokenFree \in Uint64
        /\ oo.quoteTokenTotal \in Uint64 /\ oo.referrerRebatesAccrued \in Uint64
    BY <1>2 DEF OpenOrdersAccount
  <2>2. QED
    BY <2>1, WordsAre
<1> DEFINE bf == oo.baseTokenFree
           bl == oo.baseTokenTotal - oo.baseTokenFree
           ql == oo.quoteTokenFree + oo.referrerRebatesAccrued + (oo.quoteTokenTotal - oo.quoteTokenFree)
<1>9. s.baseFree = bf /\ s.baseLocked = bl /\ s.quoteFree + s.quoteLocked = ql
  BY <1>2, <1>3, SplitIs
<1>10. asks.pos = net + Fixed(bf) /\ asks.quote = Times(bl, p) + Fixed(ql)
  BY <1>9 DEF SpotAsks, Case
<1>11. /\ bf \in Nat /\ bl \in Nat /\ ql \in Nat
       /\ bf * One < Top /\ ql * One < Top /\ bl * One < Top /\ Exact(Fixed(bl), p)
  <2>1. /\ s.baseFree * One < Top
        /\ s.baseLocked * One < Top /\ Exact(Fixed(s.baseLocked), p)
        /\ (s.quoteFree + s.quoteLocked) * One < Top
    BY <1>3 DEF AmountsFit
  <2>2. s.baseFree \in Nat /\ s.baseLocked \in Nat /\ s.quoteFree \in Nat /\ s.quoteLocked \in Nat
    BY <1>2, <1>3, SplitIs
  <2> HIDE DEF s, bf, bl, ql
  <2>3. QED
    BY <1>9, <2>1, <2>2
<1>12. oo.baseTokenTotal = bf + bl /\ oo.quoteTokenTotal + oo.referrerRebatesAccrued = ql
  BY <1>8
<1> HIDE DEF bf, bl, ql, s
<1>13. Fixed(bf) = bf * One /\ Fixed(ql) = ql * One
  <2> SUFFICES ASSUME NEW n \in Nat, n * One < Top
               PROVE  Fixed(n) = n * One
    BY <1>11
  <2>1. n \in Int /\ n * One \in Nat /\ -Top <= n * One
    BY <1>1
  <2>2. QED
    BY <2>1, FixedExact
<1>14. Times(bl, p) = bl * p
  <2>1. p \in Nat
    BY <1>1
  <2> HIDE DEF p
  <2>2. QED
    BY <1>11, <2>1, TimesExact
<1> HIDE DEF bids, asks, p, net
<1>15. asks.pos * p + asks.quote * One = SpotExact(i) /\ SpotExact(i) \in Int
  <2>1. asks.pos = net + bf * One /\ asks.quote = bl * p + ql * One
    BY <1>10, <1>13, <1>14
  <2>2. (net + bf * One) * p + (bl * p + ql * One) * One = (net + (bf + bl) * One) * p + (ql * One) * One
    BY <1>1, <1>11
  <2>3. (net + (bf + bl) * One) * p + (ql * One) * One \in Int
    BY <1>1, <1>11
  <2>4. QED
    BY <1>4, <1>12, <2>1, <2>2, <2>3
<1>16. /\ bids.pos * p + bids.quote * One <= SpotExact(i)
       /\ SpotExact(i) <= bids.pos * p + bids.quote * One + p
  <2> DEFINE bp == bids.pos * p
             ap == asks.pos * p
             bq == bids.quote * One
             aq == asks.quote * One
  <2>1. bids.pos \in Int /\ asks.pos \in Int
    BY <1>7
  <2>2. bp \in Int /\ ap \in Int /\ bq \in Int /\ aq \in Int
    BY <1>1, <1>6, <2>1
  <2>3. (bids.pos - asks.pos) * p = bp - ap /\ (asks.quote - bids.quote) * One = aq - bq
    BY <1>1, <1>6, <2>1
  <2>4. bp - ap <= aq - bq /\ aq - bq <= bp - ap + p /\ ap + aq = SpotExact(i)
    BY <1>6, <1>15, <2>3
  <2> HIDE DEF bp, ap, bq, aq
  <2>5. bp + bq <= ap + aq /\ ap + aq <= bp + bq + p
    BY <1>1, <2>2, <2>4
  <2>6. QED
    BY <2>4, <2>5 DEF bp, ap, bq, aq
<1>17. /\ asks.pos * p + asks.quote * One <= SpotExact(i)
       /\ SpotExact(i) <= asks.pos * p + asks.quote * One + p
  BY <1>1, <1>15
<1>18. QED
  BY <1>5, <1>6, <1>15, <1>16, <1>17 DEF p

\* What a market adds to the health is the exact worth but for rounding.
LEMMA SpotHealthIs ==
  ASSUME Typed, OrdersTyped, NEW i \in Markets, price(i) > 0, SpotFits(i),
         Weighable(SpotComponent(i, orders).pos, i, group.spot[i]), Loaded(i) => info.inMarginBasket[i]
  PROVE  /\ SpotHealth(i) \in Int
         /\ SpotComponent(i, orders).quote \in Int
         /\ Weighed(SpotComponent(i, orders).pos, i, group.spot[i], "Unknown") \in Int
         /\ SpotHealth(i) * One <= SpotExact(i)
         /\ SpotExact(i) <= SpotHealth(i) * One + price(i) + One
<1> DEFINE p == price(i)
           c == SpotComponent(i, orders)
           w == Weighed(c.pos, i, group.spot[i], "Unknown")
<1>1. p \in Nat \ {0} /\ One \in Nat \ {0} /\ group.spot[i] \in MarketInfo
  BY MarketsTyped, OneAssumption
<1>2. c.pos \in Int /\ c.pos * p \in Int /\ w \in Int /\ w * One <= c.pos * p /\ c.pos * p <= w * One + One
  BY <1>1, WeighedOne
<1>3. /\ c.quote \in Int /\ SpotExact(i) \in Int
      /\ c.pos * p + c.quote * One <= SpotExact(i)
      /\ SpotExact(i) <= c.pos * p + c.quote * One + p
  <2>1. CASE Loaded(i)
    <3>1. c = Worse(SpotBids(i, OrdersOn(i)), SpotAsks(i, OrdersOn(i)))
      BY <2>1 DEF SpotComponent, Loaded, OrdersOn
    <3>2. c \in {SpotBids(i, OrdersOn(i)), SpotAsks(i, OrdersOn(i))}
      BY <3>1 DEF Worse
    <3> HIDE DEF c
    <3>3. QED
      BY <1>2, <2>1, <3>2, CasesExact
  <2>2. CASE ~Loaded(i)
    <3>1. c = Case(getNet(i), 0)
      BY <2>2 DEF SpotComponent, Loaded
    <3>2. c.pos = getNet(i) /\ c.quote = 0
      BY <3>1 DEF Case
    <3>3. SpotExact(i) = getNet(i) * p
      BY <2>2 DEF SpotExact
    <3> HIDE DEF c, p
    <3>4. 0 * One = 0
      BY <1>1
    <3> DEFINE g == c.pos * p
    <3>5. SpotExact(i) = g /\ g \in Int /\ c.pos * p + c.quote * One = g + 0
      BY <1>2, <3>2, <3>3, <3>4
    <3> HIDE DEF g
    <3>6. QED
      BY <1>1, <3>2, <3>5
  <2>3. QED
    BY <2>1, <2>2
<1>4. SpotHealth(i) = c.quote + w
  BY DEF SpotHealth
<1> HIDE DEF c, w, p
<1> DEFINE g == c.pos * p
           k == c.quote * One
           y == w * One
<1>5. (c.quote + w) * One = k + y
  BY <1>1, <1>2, <1>3
<1>6. /\ g \in Int /\ k \in Int /\ y \in Int /\ y <= g /\ g <= y + One /\ g + k <= SpotExact(i)
      /\ SpotExact(i) <= g + k + p
  <2>1. k \in Int /\ y \in Int
    BY <1>1, <1>2, <1>3
  <2>2. QED
    BY <1>2, <1>3, <2>1
<1> HIDE DEF g, k, y
<1>7. k + y <= SpotExact(i) /\ SpotExact(i) <= (k + y) + p + One
  BY <1>1, <1>3, <1>6
<1>8. QED
  BY <1>2, <1>3, <1>4, <1>5, <1>7 DEF c, w, p

\* The two computations of the funding that is not settled agree, although one
\* takes the longs first and the other the shorts.
LEMMA FundingAgrees ==
  ASSUME Typed, NEW i \in Markets
  PROVE  RealQuote(i) = getQuotePosition(i)
<1> DEFINE p == info.perpAccounts[i]
           l == cache.long_funding[i] - p.longSettledFunding
           s == cache.short_funding[i] - p.shortSettledFunding
           b == p.basePosition
<1>1. info \in MangoAccountInfo /\ cache \in MangoCache /\ b \in Int
  <2>1. b \in Int64
    BY PerpNumbers
  <2> HIDE DEF b
  <2>2. QED
    BY <2>1, LayoutAssumption, WordsAre DEF Typed
<1>2. l \in Int /\ s \in Int
  <2>1. p \in PerpAccountInfo
    BY <1>1 DEF MangoAccountInfo
  <2> HIDE DEF p
  <2>2. p.longSettledFunding \in Int /\ p.shortSettledFunding \in Int
    BY <2>1, RawIsInt DEF PerpAccountInfo
  <2>3. cache.long_funding[i] \in Int /\ cache.short_funding[i] \in Int
    <3>1. cache.long_funding[i] \in Raw /\ cache.short_funding[i] \in Raw
      BY <1>1 DEF MangoCache
    <3>2. QED
      BY <3>1, RawIsInt
  <2>4. QED
    BY <2>2, <2>3
<1>3. getQuotePosition(i) = p.quotePosition - (IF b < 0 THEN Times(b, s) ELSE Times(b, l))
  BY DEF getQuotePosition, getUnsettledFunding
<1>4. RealQuote(i) = p.quotePosition - (IF b > 0 THEN Multiply(l, Fixed(b)) ELSE Multiply(s, Fixed(b)))
  BY DEF RealQuote
<1> HIDE DEF p, l, s, b
<1>5. Times(b, s) = Multiply(s, Fixed(b)) /\ Times(b, l) = Multiply(l, Fixed(b))
  BY <1>1, <1>2, FixedTyped, MultiplyCommutes DEF Times
<1>6. ASSUME b = 0
      PROVE  Times(b, l) = Multiply(s, Fixed(b))
  <2>1. Fixed(0) = 0
    <3>1. One \in Nat \ {0} /\ Top \in Nat \ {0}
      BY OneAssumption, TopAssumption
    <3>2. 0 * One = 0
      BY <3>1
    <3>3. 0 \in Int /\ -Top <= 0 * One /\ 0 * One < Top
      BY <3>1, <3>2
    <3>4. QED
      BY <3>2, <3>3, FixedExact
  <2>2. Multiply(0, l) = 0 /\ Multiply(0, s) = 0 /\ Multiply(s, 0) = Multiply(0, s)
    BY <1>2, MultiplyZero, MultiplyCommutes
  <2>3. QED
    BY <1>6, <2>1, <2>2 DEF Times
<1>7. CASE b > 0
  BY <1>1, <1>3, <1>4, <1>5, <1>7
<1>8. CASE b < 0
  BY <1>1, <1>3, <1>4, <1>5, <1>8
<1>9. CASE b = 0
  BY <1>3, <1>4, <1>6, <1>9
<1>10. QED
  BY <1>1, <1>7, <1>8, <1>9

\* what a perpetual position is worth without rounding, scaled as SpotExact is
PerpExact(i) ==
  ((info.perpAccounts[i].basePosition * group.perp[i].baseLotSize) * One) * price(i) + getQuotePosition(i) * One

\* what it adds to the value, and to the health
PerpValue(i) == PerpUi(getPerpAccountAssetVal(i)) - PerpUi(getPerpAccountLiabsVal(i))

PerpHealth(i) == PerpComponent(i).quote + Weighed(PerpComponent(i).pos, i, group.perp[i], "Unknown")

\* The price of a position of any sign is their product, if it fits.
LEMMA NotionalIs ==
  ASSUME Typed, NEW i \in Markets, price(i) > 0, NEW n \in Int, n * One \in Raw, n * price(i) \in Raw
  PROVE  Fixed(n) = n * One /\ Times(n, price(i)) = n * price(i)
<1> DEFINE p == price(i)
<1>1. p \in Int /\ One \in Nat \ {0} /\ Top \in Nat \ {0}
  BY MarketsTyped, OneAssumption, TopAssumption
<1>2. Fixed(n) = n * One
  <2>1. -Top <= n * One /\ n * One < Top
    BY <1>1 DEF Raw
  <2>2. QED
    BY <2>1, FixedExact
<1> DEFINE g == n * p
<1>3. g \in Raw /\ g \in Int
  BY RawIsInt
<1> HIDE DEF p
<1>4. (n * One) * p = g * One
  BY <1>1
<1> HIDE DEF g
<1>5. (g * One) \div One = g
  <2>1. g * One \in Int /\ g * One = g * One + 0 /\ 0 < One
    BY <1>1, <1>3
  <2>2. QED
    BY <1>1, <1>3, <2>1, DivUnique
<1>6. ((n * One) * p) \div One = g
  BY <1>4, <1>5
<1>7. Multiply(n * One, p) = g
  <2>1. n * One \in Int
    BY <1>1
  <2>2. Exact(n * One, p)
    BY <1>3, <1>6 DEF Exact
  <2>3. QED
    BY <1>1, <1>6, <2>1, <2>2, MultiplyExact
<1>8. QED
  BY <1>2, <1>7 DEF Times, g, p

\* What a perpetual position adds to the value is its exact worth but for the
\* last bits of its two sides.
LEMMA PerpValueIs ==
  ASSUME Typed, NEW i \in Markets, price(i) > 0, PerpFits(i), TokenFits(QUOTE_INDEX),
         group.decimals[QUOTE_INDEX] # 0
  PROVE  LET Q == PowTen(Decimals(QUOTE_INDEX))
         IN  /\ PerpUi(getPerpAccountAssetVal(i)) \in Int /\ PerpUi(getPerpAccountLiabsVal(i)) \in Int
             /\ PerpValue(i) \in Int /\ PerpExact(i) \in Int
             /\ (Q * PerpValue(i)) * One <= PerpExact(i) + Q * One
             /\ PerpExact(i) <= (Q * PerpValue(i)) * One + Q * One
<1> DEFINE Q == PowTen(Decimals(QUOTE_INDEX))
           p == price(i)
           b == info.perpAccounts[i].basePosition
           K == b * group.perp[i].baseLotSize
           R == getQuotePosition(i)
           a == getPerpAccountAssetVal(i)
           l == getPerpAccountLiabsVal(i)
           N == K * p
<1>1. /\ p \in Nat \ {0} /\ One \in Nat \ {0} /\ Top \in Nat \ {0} /\ R \in Int /\ b \in Int
      /\ group.perp[i].baseLotSize \in Nat
  <2>1. b \in Int64 /\ group.perp[i].baseLotSize \in Int64 /\ group.perp[i].baseLotSize >= 0 /\ R \in Int
    BY PerpNumbers DEF PerpFits
  <2> HIDE DEF b, R
  <2>2. b \in Int /\ group.perp[i].baseLotSize \in Int
    BY <2>1, WordsAre
  <2>3. QED
    BY <2>1, <2>2, MarketsTyped, OneAssumption, TopAssumption
<1>2. Q \in Nat \ {0} /\ Decimals(QUOTE_INDEX) \in 0 .. 255
  <2>1. Decimals(QUOTE_INDEX) \in 0 .. 255
    BY TokensTyped DEF Tokens
  <2>2. QED
    BY <2>1, PowerPositive
<1>3. K \in Int64 /\ K * One \in Raw /\ N \in Raw /\ a < Top /\ l < Top
  BY DEF PerpFits
<1>4. K \in Int /\ (b > 0 => K >= 0) /\ (b < 0 => K <= 0) /\ (b = 0 => K = 0)
  <2> DEFINE m == group.perp[i].baseLotSize
  <2>1. m \in Nat /\ b \in Int
    BY <1>1
  <2> HIDE DEF m, b
  <2>2. b * m \in Int
    BY <2>1
  <2>3. b >= 0 => 0 * m <= b * m
    BY <2>1, ProductMonotone
  <2>4. b <= 0 => b * m <= 0 * m
    BY <2>1, ProductMonotone
  <2>5. 0 * m = 0
    BY <2>1
  <2>6. QED
    BY <2>1, <2>2, <2>3, <2>4, <2>5 DEF m
<1>5. N \in Int /\ (b > 0 => N >= 0) /\ (b < 0 => N <= 0) /\ (b = 0 => N = 0)
  <2> HIDE DEF K, b, p
  <2>1. K * p \in Int
    BY <1>1, <1>4
  <2>2. K >= 0 => 0 * p <= K * p
    BY <1>1, <1>4, ProductMonotone
  <2>3. K <= 0 => K * p <= 0 * p
    BY <1>1, <1>4, ProductMonotone
  <2>4. 0 * p = 0
    BY <1>1
  <2>5. QED
    BY <1>1, <1>4, <2>1, <2>2, <2>3, <2>4
<1>6. PerpNotional(i) = N
  <2> HIDE DEF K
  <2>1. Times(K, p) = K * p
    BY <1>3, <1>4, NotionalIs
  <2>2. Lots(i, b) = K
    <3>1. Lots(i, b) = ToInt64(K)
      BY DEF Lots, K
    <3>2. QED
      BY <1>3, <3>1, WordsAre
  <2>3. QED
    BY <2>1, <2>2 DEF PerpNotional, K
<1>7. RealQuote(i) = R
  BY FundingAgrees
<1>8. /\ a = (IF b > 0 THEN N ELSE 0) + (IF R > 0 THEN R ELSE 0)
      /\ l = -((IF b < 0 THEN N ELSE 0) + (IF R < 0 THEN R ELSE 0))
  BY <1>6, <1>7 DEF getPerpAccountAssetVal, getPerpAccountLiabsVal
<1>9. PerpExact(i) = (N + R) * One
  <2>1. PerpExact(i) = (K * One) * p + R * One
    BY DEF PerpExact
  <2> HIDE DEF K, R, p
  <2>2. (K * One) * p + R * One = (K * p + R) * One
    BY <1>1, <1>4
  <2>3. QED
    BY <2>1, <2>2
<1> HIDE DEF N, R, a, l, b
<1>10. a \in Nat /\ l \in Nat /\ a - l = N + R
  BY <1>1, <1>5, <1>8
<1>11. PerpUi(a) = a \div Q /\ PerpUi(l) = l \div Q
  <2>1. /\ PowTen(Decimals(QUOTE_INDEX)) * One < Top
        /\ PowTen(Decimals(QUOTE_INDEX)) * One <= (2 * Top) \div One
    BY DEF TokenFits
  <2>2. group.decimals[QUOTE_INDEX] = Decimals(QUOTE_INDEX)
    BY DEF Decimals
  <2>3. QED
    BY <1>2, <1>3, <1>10, <2>1, <2>2, UiIs DEF PerpUi
<1> HIDE DEF Q
<1>12. /\ a \div Q \in Int /\ (a \div Q) * Q \in Int /\ (a \div Q) * Q <= a /\ a < (a \div Q) * Q + Q
       /\ l \div Q \in Int /\ (l \div Q) * Q \in Int /\ (l \div Q) * Q <= l /\ l < (l \div Q) * Q + Q
  BY <1>2, <1>10, CutBack
<1> DEFINE x == a \div Q
           y == l \div Q
<1> HIDE DEF x, y
<1>13. x \in Int /\ y \in Int /\ x - y \in Int /\ PerpUi(a) - PerpUi(l) = x - y
  BY <1>11, <1>12 DEF x, y
<1> DEFINE xq == x * Q
           yq == y * Q
<1>14. xq \in Int /\ yq \in Int /\ xq <= a /\ a < xq + Q /\ yq <= l /\ l < yq + Q
  BY <1>12 DEF x, y
<1>15. Q * (x - y) = xq - yq
  BY <1>2, <1>13
<1> HIDE DEF xq, yq
<1>16. /\ xq - yq <= (N + R) + Q /\ N + R <= (xq - yq) + Q /\ xq - yq \in Int /\ N + R \in Int
  BY <1>1, <1>2, <1>5, <1>10, <1>14
<1> DEFINE v == xq - yq
           e == N + R
<1> HIDE DEF v, e
<1>17. v \in Int /\ e \in Int /\ v <= e + Q /\ e <= v + Q /\ e + Q \in Int /\ v + Q \in Int
  BY <1>2, <1>16 DEF v, e
<1>18. v * One <= (e + Q) * One /\ e * One <= (v + Q) * One /\ e * One \in Int
  BY <1>1, <1>17, ProductMonotone
<1>19. (e + Q) * One = e * One + Q * One /\ (v + Q) * One = v * One + Q * One
  BY <1>1, <1>2, <1>17
<1>20. PerpValue(i) = x - y
  BY <1>13 DEF PerpValue, a, l
<1>21. (Q * PerpValue(i)) * One = v * One /\ PerpExact(i) = e * One
  BY <1>9, <1>15, <1>20 DEF v, e
<1>22. PerpUi(a) \in Int /\ PerpUi(l) \in Int
  BY <1>11, <1>12
<1>23. QED
  BY <1>13, <1>18, <1>19, <1>20, <1>21, <1>22 DEF Q, a, l

\* What it adds to the health is the exact worth but for a bit.
LEMMA PerpHealthIs ==
  ASSUME Typed, NEW i \in Markets, price(i) > 0, PerpFits(i),
         Weighable(PerpComponent(i).pos, i, group.perp[i]),
         info.perpAccounts[i].takerBase = 0, info.perpAccounts[i].takerQuote = 0,
         ~group.perp[i].listed => info.perpAccounts[i].basePosition = 0 /\ info.perpAccounts[i].quotePosition = 0
  PROVE  /\ PerpHealth(i) \in Int
         /\ PerpComponent(i).quote \in Int
         /\ Weighed(PerpComponent(i).pos, i, group.perp[i], "Unknown") \in Int
         /\ PerpHealth(i) * One <= PerpExact(i)
         /\ PerpExact(i) <= PerpHealth(i) * One + One
<1> DEFINE p == price(i)
           c == PerpComponent(i)
           w == Weighed(c.pos, i, group.perp[i], "Unknown")
           K == info.perpAccounts[i].basePosition * group.perp[i].baseLotSize
           R == getQuotePosition(i)
           bids == Lots(i, info.perpAccounts[i].bidsQuantity)
           asks == Lots(i, info.perpAccounts[i].asksQuantity)
<1>1. /\ p \in Nat \ {0} /\ One \in Nat \ {0} /\ Top \in Nat \ {0} /\ R \in Int /\ group.perp[i] \in MarketInfo
      /\ info.perpAccounts[i].basePosition \in Int /\ group.perp[i].baseLotSize \in Int
      /\ bids \in Nat /\ asks \in Nat
  <2>1. QuantitiesFit(i)
    BY DEF PerpFits
  <2>2. bids \in Nat /\ asks \in Nat
    BY <2>1, QuantitiesAre
  <2>3. info.perpAccounts[i].basePosition \in Int64 /\ group.perp[i].baseLotSize \in Int64 /\ R \in Int
    BY PerpNumbers
  <2> HIDE DEF bids, asks, R
  <2>4. info.perpAccounts[i].basePosition \in Int /\ group.perp[i].baseLotSize \in Int
    BY <2>3, WordsAre
  <2>5. QED
    BY <2>2, <2>3, <2>4, MarketsTyped, OneAssumption, TopAssumption
<1>2. K \in Int
  BY <1>1
<1>3. c.pos \in Int /\ c.pos * p \in Int /\ w \in Int /\ w * One <= c.pos * p /\ c.pos * p <= w * One + One
  BY <1>1, WeighedOne
<1>4. PerpExact(i) = (K * One) * p + R * One
  BY DEF PerpExact
<1>5. Fixed(0) = 0
  <2>1. 0 * One = 0
    BY <1>1
  <2>2. 0 \in Int /\ -Top <= 0 * One /\ 0 * One < Top
    BY <1>1, <2>1
  <2>3. QED
    BY <2>1, <2>2, FixedExact
<1>6. c.quote \in Int /\ PerpExact(i) = c.pos * p + c.quote * One
  <2>1. CASE group.perp[i].listed
    <3>1. /\ PerpBase(i) = K /\ PerpBidsBase(i) = K + bids /\ PerpAsksBase(i) = K - asks
          /\ (K + bids) * One \in Raw /\ (K - asks) * One \in Raw
          /\ \A quantity \in {bids, asks} : quantity * One < Top /\ quantity * p < Top
      <4>1. info.perpAccounts[i].basePosition + info.perpAccounts[i].takerBase = info.perpAccounts[i].basePosition
        BY <1>1
      <4>2. QuantitiesFit(i)
        BY DEF PerpFits
      <4>3. PerpBase(i) = K
        BY <4>1, <4>2, QuantitiesAre
      <4>4. /\ PerpBidsBase(i) = PerpBase(i) + bids /\ PerpAsksBase(i) = PerpBase(i) - asks
            /\ (PerpBase(i) + bids) * One \in Raw /\ (PerpBase(i) - asks) * One \in Raw
            /\ \A quantity \in {bids, asks} : quantity * One < Top /\ quantity * p < Top
        BY <4>2, QuantitiesAre
      <4> HIDE DEF K, bids, asks
      <4>5. QED
        BY <4>3, <4>4
    <3>2. PerpQuote(i) = R
      <4>1. group.perp[i].quoteLotSize \in Int
        <5>1. group.perp[i].quoteLotSize \in Int64
          BY PerpNumbers
        <5>2. QED
          BY <5>1, WordsAre
      <4>2. info.perpAccounts[i].takerQuote * group.perp[i].quoteLotSize = 0
        BY <4>1
      <4>3. ToInt64(0) = 0
        <5>1. 0 \in Int64
          BY WordAssumption DEF Int64
        <5>2. QED
          BY <5>1, WordsAre
      <4>4. PerpQuote(i) = R + 0
        BY <1>5, <4>2, <4>3 DEF PerpQuote
      <4> HIDE DEF R
      <4>5. QED
        BY <1>1, <4>4
    <3>3. bids * One < Top /\ bids * p < Top /\ asks * One < Top /\ asks * p < Top
      <4> HIDE DEF bids, asks
      <4>1. QED
        BY <3>1
    <3>4. c = PerpBids(i) \/ c = PerpAsks(i)
      BY <2>1 DEF PerpComponent
    <3>5. /\ PerpBids(i).pos = Fixed(K + bids) /\ PerpBids(i).quote = R - Times(bids, p)
          /\ PerpAsks(i).pos = Fixed(K - asks) /\ PerpAsks(i).quote = R + Times(asks, p)
      BY <3>1, <3>2 DEF PerpBids, PerpAsks, Case
    <3> HIDE DEF c, K, R, bids, asks
    <3>6. Fixed(K + bids) = (K + bids) * One /\ Fixed(K - asks) = (K - asks) * One
      <4>1. \A n \in Int : n * One \in Raw => Fixed(n) = n * One
        <5> SUFFICES ASSUME NEW n \in Int, n * One \in Raw
                     PROVE  Fixed(n) = n * One
          OBVIOUS
        <5>1. -Top <= n * One /\ n * One < Top
          BY <1>1 DEF Raw
        <5>2. QED
          BY <5>1, FixedExact
      <4>2. K + bids \in Int /\ K - asks \in Int
        BY <1>1, <1>2
      <4>3. QED
        BY <3>1, <4>1, <4>2
    <3>7. Times(bids, p) = bids * p /\ Times(asks, p) = asks * p
      <4> SUFFICES ASSUME NEW n \in Nat, n * One < Top, n * p < Top
                   PROVE  Times(n, p) = n * p
        BY <1>1, <3>3
      <4> HIDE DEF p
      <4>1. n * One \in Nat /\ n * p \in Nat
        BY <1>1
      <4>2. n * One \in Raw /\ n * p \in Raw
        BY <1>1, <4>1 DEF Raw
      <4>3. QED
        BY <4>2, NotionalIs DEF p
    <3> HIDE DEF p
    <3>8. CASE c = PerpBids(i)
      <4>1. c.pos = (K + bids) * One /\ c.quote = R - bids * p
        BY <3>5, <3>6, <3>7, <3>8
      <4>2. ((K + bids) * One) * p + (R - bids * p) * One = (K * One) * p + R * One
        BY <1>1, <1>2
      <4>3. QED
        BY <1>1, <1>4, <4>1, <4>2
    <3>9. CASE c = PerpAsks(i)
      <4>1. c.pos = (K - asks) * One /\ c.quote = R + asks * p
        BY <3>5, <3>6, <3>7, <3>9
      <4>2. ((K - asks) * One) * p + (R + asks * p) * One = (K * One) * p + R * One
        BY <1>1, <1>2
      <4>3. QED
        BY <1>1, <1>4, <4>1, <4>2
    <3>10. QED
      BY <3>4, <3>8, <3>9
  <2>2. CASE ~group.perp[i].listed
    <3>1. c.pos = 0 /\ c.quote = 0
      BY <2>2 DEF PerpComponent, Case
    <3>2. K = 0
      BY <1>1, <2>2
    <3>3. R = 0
      <4>1. getUnsettledFunding(i) = Times(0, cache.long_funding[i] - info.perpAccounts[i].longSettledFunding)
        BY <2>2 DEF getUnsettledFunding
      <4> DEFINE l == cache.long_funding[i] - info.perpAccounts[i].longSettledFunding
      <4>2. l \in Int
        <5>1. info \in MangoAccountInfo /\ cache \in MangoCache
          BY LayoutAssumption DEF Typed
        <5>2. info.perpAccounts[i] \in PerpAccountInfo
          BY <5>1 DEF MangoAccountInfo
        <5>3. info.perpAccounts[i].longSettledFunding \in Raw
          BY <5>2 DEF PerpAccountInfo
        <5>4. cache.long_funding[i] \in Raw
          BY <5>1 DEF MangoCache
        <5>5. QED
          BY <5>3, <5>4, RawIsInt
      <4> HIDE DEF l
      <4>3. Times(0, l) = 0
        BY <1>5, <4>2, MultiplyZero DEF Times
      <4>4. QED
        BY <2>2, <4>1, <4>3 DEF getQuotePosition, l
    <3> HIDE DEF c, K, R, p
    <3>4. (0 * One) * p = 0 /\ 0 * One = 0 /\ 0 * p = 0
      BY <1>1
    <3>5. PerpExact(i) = (0 * One) * p + 0 * One /\ c.pos * p + c.quote * One = 0 * p + 0 * One
      BY <1>4, <3>1, <3>2, <3>3
    <3>6. QED
      BY <3>1, <3>4, <3>5
  <2>3. QED
    BY <2>1, <2>2
<1>7. PerpHealth(i) = c.quote + w
  BY DEF PerpHealth
<1> HIDE DEF c, w, p
<1> DEFINE g == c.pos * p
           k == c.quote * One
           y == w * One
<1>8. (c.quote + w) * One = k + y
  BY <1>1, <1>3, <1>6
<1>9. g \in Int /\ k \in Int /\ y \in Int /\ y <= g /\ g <= y + One /\ PerpExact(i) = g + k
  <2>1. k \in Int /\ y \in Int
    BY <1>1, <1>3, <1>6
  <2>2. QED
    BY <1>3, <1>6, <2>1
<1> HIDE DEF g, k, y
<1>10. k + y <= PerpExact(i) /\ PerpExact(i) <= (k + y) + One
  BY <1>1, <1>9
<1>11. QED
  BY <1>3, <1>6, <1>7, <1>8, <1>10 DEF c, w

\* Sums are as far apart as their terms are, taken together, also when one of
\* them is scaled.
LEMMA SumsWithin ==
  ASSUME NEW S, IsFiniteSet(S), NEW f \in [S -> Int], NEW g \in [S -> Int], NEW e \in [S -> Int],
         NEW c \in Int, \A i \in S : c * f[i] - g[i] <= e[i] /\ g[i] - c * f[i] <= e[i]
  PROVE  /\ SumFunction(f) \in Int /\ SumFunction(g) \in Int /\ SumFunction(e) \in Int
         /\ c * SumFunction(f) - SumFunction(g) <= SumFunction(e)
         /\ SumFunction(g) - c * SumFunction(f) <= SumFunction(e)
<1>1. PICK F : IsSum(F, S, f) /\ SumFunction(f) = F[S]
  BY SumIs
<1>2. PICK G : IsSum(G, S, g) /\ SumFunction(g) = G[S]
  BY SumIs
<1>3. PICK E : IsSum(E, S, e) /\ SumFunction(e) = E[S]
  BY SumIs
<1>4. /\ F[{}] = 0
      /\ \A s \in SUBSET S : s # {} => /\ Picked(s) \in s /\ s \ {Picked(s)} \in SUBSET S
                                       /\ F[s] = f[Picked(s)] + F[s \ {Picked(s)}]
      /\ \A s \in SUBSET S : F[s] \in Int
  BY <1>1, SumFacts
<1>5. /\ G[{}] = 0
      /\ \A s \in SUBSET S : s # {} => /\ Picked(s) \in s /\ s \ {Picked(s)} \in SUBSET S
                                       /\ G[s] = g[Picked(s)] + G[s \ {Picked(s)}]
      /\ \A s \in SUBSET S : G[s] \in Int
  BY <1>2, SumFacts
<1>6. /\ E[{}] = 0
      /\ \A s \in SUBSET S : s # {} => /\ Picked(s) \in s /\ s \ {Picked(s)} \in SUBSET S
                                       /\ E[s] = e[Picked(s)] + E[s \ {Picked(s)}]
      /\ \A s \in SUBSET S : E[s] \in Int
  BY <1>3, SumFacts
<1> DEFINE P == {s \in SUBSET S : c * F[s] - G[s] <= E[s] /\ G[s] - c * F[s] <= E[s]}
<1>7. {} \in P
  <2>1. c * 0 = 0
    OBVIOUS
  <2>2. QED
    BY <1>4, <1>5, <1>6, <2>1
<1>8. ASSUME NEW s \in SUBSET S, s # {}, s \ {Picked(s)} \in P
      PROVE  s \in P
  <2> DEFINE t == s \ {Picked(s)}
             x == Picked(s)
  <2>1. x \in S /\ t \in SUBSET S /\ c * F[t] - G[t] <= E[t] /\ G[t] - c * F[t] <= E[t]
    BY <1>4, <1>8
  <2>2. F[s] = f[x] + F[t] /\ G[s] = g[x] + G[t] /\ E[s] = e[x] + E[t]
    BY <1>4, <1>5, <1>6, <1>8
  <2>3. /\ f[x] \in Int /\ g[x] \in Int /\ e[x] \in Int /\ F[t] \in Int /\ G[t] \in Int /\ E[t] \in Int
        /\ c * f[x] - g[x] <= e[x] /\ g[x] - c * f[x] <= e[x]
    BY <1>4, <1>5, <1>6, <2>1
  <2> HIDE DEF t, x
  <2>4. c * (f[x] + F[t]) = c * f[x] + c * F[t] /\ c * f[x] \in Int /\ c * F[t] \in Int
    BY <2>3
  <2>5. c * F[s] - G[s] <= E[s] /\ G[s] - c * F[s] <= E[s]
    BY <2>1, <2>2, <2>3, <2>4
  <2>6. QED
    BY <2>5
<1>9. \A s \in SUBSET S : s \in P
  <2> HIDE DEF P
  <2>1. QED
    BY <1>7, <1>8, SubsetInduction
<1>10. QED
  BY <1>1, <1>2, <1>3, <1>4, <1>5, <1>6, <1>9

\* The sum of sums.
LEMMA SumOfSums ==
  ASSUME NEW S, IsFiniteSet(S), NEW f \in [S -> Int], NEW g \in [S -> Int]
  PROVE  SumFunction([i \in S |-> f[i] + g[i]]) = SumFunction(f) + SumFunction(g)
<1> DEFINE h == [i \in S |-> f[i] + g[i]]
<1>1. h \in [S -> Int] /\ [i \in S |-> h[i] - g[i]] = f
  OBVIOUS
<1> HIDE DEF h
<1>2. /\ SumFunction(h) \in Int /\ SumFunction(g) \in Int
      /\ SumFunction([i \in S |-> h[i] - g[i]]) = SumFunction(h) - SumFunction(g)
  BY <1>1, SumOfDifferences
<1>3. SumFunction(f) = SumFunction(h) - SumFunction(g)
  BY <1>1, <1>2
<1>4. QED
  BY <1>2, <1>3 DEF h

\* what is asked for of the positions in a market
Settled(i) ==
  /\ info.perpAccounts[i].takerBase = 0 /\ info.perpAccounts[i].takerQuote = 0
  /\ ~group.perp[i].listed => info.perpAccounts[i].basePosition = 0 /\ info.perpAccounts[i].quotePosition = 0
  /\ Loaded(i) => info.inMarginBasket[i]

\* A market adds the same to the value as to the health, but for its rounding.
LEMMA MarketAgrees ==
  ASSUME Typed, OrdersTyped, ValueFits, NEW i \in Markets, Settled(i)
  PROVE  LET v == PowTen(Decimals(QUOTE_INDEX)) * (SpotValue(i) + PerpValue(i))
             h == SpotHealth(i) + PerpHealth(i)
         IN  /\ SpotValue(i) \in Int /\ PerpValue(i) \in Int /\ SpotHealth(i) \in Int /\ PerpHealth(i) \in Int
             /\ MarketRounding(i) \in Int
             /\ v - h <= MarketRounding(i) /\ h - v <= MarketRounding(i)
<1> DEFINE p == price(i)
           D == PowTen(Decimals(i))
           Q == PowTen(Decimals(QUOTE_INDEX))
           sv == SpotValue(i)
           pv == PerpValue(i)
           sh == SpotHealth(i)
           ph == PerpHealth(i)
           se == SpotExact(i)
           pe == PerpExact(i)
           BL == BaseLost(i)
           QL == QuoteLost(i)
<1>1. /\ price(i) > 0 /\ TokenFits(i) /\ TokenFits(QUOTE_INDEX) /\ SpotFits(i) /\ PerpFits(i)
      /\ Weighable(SpotComponent(i, orders).pos, i, group.spot[i])
      /\ Weighable(PerpComponent(i).pos, i, group.perp[i])
      /\ group.decimals[QUOTE_INDEX] # 0
  BY ComponentsAre DEF ValueFits, NothingWraps, Tokens
<1>2. p \in Nat \ {0} /\ D \in Nat \ {0} /\ Q \in Nat \ {0} /\ One \in Nat \ {0}
  <2>1. Decimals(QUOTE_INDEX) \in 0 .. 255 /\ Decimals(i) \in 0 .. 255
    BY TokensTyped DEF Tokens
  <2>2. Q \in Nat \ {0} /\ D \in Nat \ {0}
    BY ScalesAre
  <2>3. p \in Nat \ {0}
    BY <1>1, MarketsTyped
  <2>4. QED
    BY <2>2, <2>3, OneAssumption
<1>3. /\ sv \in Int /\ se \in Int
      /\ (Q * sv) * One <= se + (2 * D + BL) * p + (2 * Q + QL) * One
      /\ se <= (Q * sv) * One + (2 * One + 3 * D + BL) * p + (4 * Q + QL) * One
      /\ BL \in Nat /\ QL \in Nat
  BY <1>1, SpotValueIs, LossesAre
<1>4. /\ pv \in Int /\ pe \in Int
      /\ (Q * pv) * One <= pe + Q * One /\ pe <= (Q * pv) * One + Q * One
  BY <1>1, PerpValueIs
<1>5. sh \in Int /\ sh * One <= se /\ se <= sh * One + p + One
  BY <1>1, SpotHealthIs DEF Settled
<1>6. ph \in Int /\ ph * One <= pe /\ pe <= ph * One + One
  BY <1>1, PerpHealthIs DEF Settled
<1>7. MarketRounding(i) = 2 * p + 5 * Q + 2 + QL + (((3 * D + 1 + BL) * p) \div One)
  BY DEF MarketRounding
<1> HIDE DEF p, D, Q, sv, pv, sh, ph, se, pe, BL, QL
<1> DEFINE k == 2 * p + 5 * Q + 2 + QL
           r == (3 * D + 1 + BL) * p
           v == Q * (sv + pv)
           h == sh + ph
<1>8. v \in Int /\ h \in Int /\ k \in Int /\ r \in Int
  BY <1>2, <1>3, <1>4, <1>5, <1>6
<1>9. (v - h) * One <= k * One + r /\ (h - v) * One <= k * One + r
  <2> DEFINE qs == (Q * sv) * One
             qp == (Q * pv) * One
             so == sh * One
             po == ph * One
             qo == Q * One
             op == One * p
             dp == D * p
             bp == BL * p
             ql == QL * One
  <2>1. /\ qs \in Int /\ qp \in Int /\ so \in Int /\ po \in Int /\ qo \in Nat /\ op \in Nat /\ dp \in Nat
        /\ bp \in Nat /\ ql \in Nat
    BY <1>2, <1>3, <1>4, <1>5, <1>6
  <2>2. (v - h) * One = qs + qp - so - po /\ (h - v) * One = so + po - qs - qp
    BY <1>2, <1>3, <1>4, <1>5, <1>6
  <2>3. /\ k * One = 2 * op + 5 * qo + 2 * One + ql /\ r = 3 * dp + p + bp
        /\ (2 * D + BL) * p = 2 * dp + bp /\ (2 * One + 3 * D + BL) * p = 2 * op + 3 * dp + bp
        /\ (2 * Q + QL) * One = 2 * qo + ql /\ (4 * Q + QL) * One = 4 * qo + ql
    BY <1>2, <1>3
  <2>4. /\ qs <= se + (2 * dp + bp) + (2 * qo + ql) /\ se <= qs + (2 * op + 3 * dp + bp) + (4 * qo + ql)
        /\ qp <= pe + qo /\ pe <= qp + qo
        /\ so <= se /\ se <= so + p + One /\ po <= pe /\ pe <= po + One
    BY <1>3, <1>4, <1>5, <1>6, <2>3
  <2> HIDE DEF qs, qp, so, po, qo, op, dp, bp, ql, k, r, v, h
  <2>5. /\ qs + qp - so - po <= 2 * op + 5 * qo + 2 * One + ql + (3 * dp + p + bp)
        /\ so + po - qs - qp <= 2 * op + 5 * qo + 2 * One + ql + (3 * dp + p + bp)
    BY <1>2, <1>3, <1>4, <2>1, <2>4
  <2>6. QED
    BY <2>2, <2>3, <2>5
<1> HIDE DEF k, r, v, h
<1>10. \A y \in Int : y * One <= k * One + r => y <= k + (r \div One)
  <2> SUFFICES ASSUME NEW y \in Int, y * One <= k * One + r
               PROVE  y <= k + (r \div One)
    OBVIOUS
  <2>1. y * One \in Int /\ k * One + r \in Int
    BY <1>2, <1>8
  <2>2. (y * One) \div One <= (k * One + r) \div One
    BY <1>2, <2>1, CutMonotone
  <2>3. (y * One) \div One = y
    <3>1. y * One = y * One + 0 /\ 0 \in Int /\ 0 < One
      BY <1>2, <2>1
    <3>2. QED
      BY <1>2, <2>1, <3>1, DivUnique
  <2>4. (k * One + r) \div One = k + (r \div One)
    BY ZenonT(60), <1>2, <1>8, DivOfSum
  <2>5. QED
    BY <2>2, <2>3, <2>4
<1>11. v - h \in Int /\ h - v \in Int /\ r \div One \in Int
  BY <1>2, <1>8, DivMod
<1>12. v - h <= k + (r \div One) /\ h - v <= k + (r \div One)
  BY <1>9, <1>10, <1>11
<1>13. MarketRounding(i) = k + (r \div One) /\ MarketRounding(i) \in Int
  BY <1>7, <1>8, <1>11 DEF k, r
<1>14. QED
  BY <1>3, <1>4, <1>5, <1>6, <1>12, <1>13 DEF v, h, sv, pv, sh, ph, Q

\* So does the quote currency.
LEMMA QuoteAgrees ==
  ASSUME Typed, TokenFits(QUOTE_INDEX)
  PROVE  LET Q == PowTen(Decimals(QUOTE_INDEX))
             v == Q * (getUiDeposit(QUOTE_INDEX) - getUiBorrow(QUOTE_INDEX))
             net == getNet(QUOTE_INDEX)
             lost == BalancesLost(QUOTE_INDEX)
         IN  /\ Q \in Nat \ {0} /\ net \in Int /\ lost \in Nat
             /\ getUiDeposit(QUOTE_INDEX) \in Int /\ getUiBorrow(QUOTE_INDEX) \in Int
             /\ v - net <= 2 * One + Q + lost /\ net - v <= 2 * One + Q + lost
<1> DEFINE Q == PowTen(Decimals(QUOTE_INDEX))
           a == getNativeDeposit(QUOTE_INDEX)
           b == getNativeBorrow(QUOTE_INDEX)
           x == getUiDeposit(QUOTE_INDEX)
           y == getUiBorrow(QUOTE_INDEX)
<1>1. QUOTE_INDEX \in Tokens /\ One \in Nat \ {0}
  BY OneAssumption DEF Tokens
<1>2. a \in Int /\ b \in Int /\ getNet(QUOTE_INDEX) = a - b
  BY <1>1, TokensTyped
<1>3. Q \in Nat \ {0}
  <2>1. Decimals(QUOTE_INDEX) \in 0 .. 255
    BY <1>1, TokensTyped
  <2>2. QED
    BY <2>1, PowerPositive
<1> DEFINE La == Lost(a)
           Lb == Lost(b)
<1>4. x \in Nat /\ Q * x \in Int /\ La \in Nat /\ Q * x <= a + La /\ a < Q * x + One + Q + La
  BY <1>1, DepositIs
<1>5. y \in Nat /\ Q * y \in Int /\ Lb \in Nat /\ Q * y < b + One + Lb /\ b < Q * y + Q + Lb
  BY <1>1, BorrowIs
<1>6. BalancesLost(QUOTE_INDEX) = La + Lb
  BY DEF BalancesLost
<1> HIDE DEF Q, a, b, x, y, La, Lb
<1>7. Q * (x - y) = Q * x - Q * y
  BY <1>3, <1>4, <1>5
<1> DEFINE s == Q * x
           t == Q * y
<1>8. /\ s \in Int /\ t \in Int /\ s <= a + La /\ a < s + One + Q + La
      /\ t < b + One + Lb /\ b < t + Q + Lb
  BY <1>4, <1>5
<1> HIDE DEF s, t
<1>9. /\ (s - t) - (a - b) <= 2 * One + Q + (La + Lb) /\ (a - b) - (s - t) <= 2 * One + Q + (La + Lb)
      /\ La + Lb \in Nat
  BY <1>1, <1>2, <1>3, <1>4, <1>5, <1>8
<1>10. QED
  BY <1>2, <1>3, <1>4, <1>5, <1>6, <1>7, <1>9 DEF s, t, Q, x, y

\* the value and the health as sums over the markets
MarketValues == [i \in Markets |-> SpotValue(i) + PerpValue(i)]
MarketHealths == [i \in Markets |-> SpotHealth(i) + PerpHealth(i)]
MarketRoundings == [i \in Markets |-> MarketRounding(i)]

\* The value is that of the quote currency and of the markets.
LEMMA ValueIsSum ==
  ASSUME Typed, OrdersTyped, ValueFits, \A i \in Markets : Settled(i)
  PROVE  computeValue(orders)
           = (getUiDeposit(QUOTE_INDEX) - getUiBorrow(QUOTE_INDEX)) + SumFunction(MarketValues)
<1> DEFINE assets == [i \in Markets |-> getSpotVal(i, orders) + PerpUi(getPerpAccountAssetVal(i))]
           liabs == [i \in Markets |-> Multiply(getUiBorrow(i), Multiply(UiPrice(i), One))
                                         + PerpUi(getPerpAccountLiabsVal(i))]
<1>1. ASSUME NEW i \in Markets
      PROVE  /\ assets[i] \in Int /\ liabs[i] \in Int
             /\ assets[i] - liabs[i] = SpotValue(i) + PerpValue(i)
  <2>1. /\ price(i) > 0 /\ TokenFits(i) /\ TokenFits(QUOTE_INDEX) /\ SpotFits(i) /\ PerpFits(i)
        /\ group.decimals[QUOTE_INDEX] # 0
    BY DEF ValueFits, NothingWraps, Tokens
  <2> DEFINE a == getSpotVal(i, orders)
             b == Multiply(getUiBorrow(i), Multiply(UiPrice(i), One))
             c == PerpUi(getPerpAccountAssetVal(i))
             d == PerpUi(getPerpAccountLiabsVal(i))
  <2>2. a \in Int /\ b \in Int
    BY <2>1, SpotValueIs
  <2>3. c \in Int /\ d \in Int
    BY <2>1, PerpValueIs
  <2>4. SpotValue(i) = a - b /\ PerpValue(i) = c - d
    BY DEF SpotValue, PerpValue
  <2>5. assets[i] = a + c /\ liabs[i] = b + d
    OBVIOUS
  <2> HIDE DEF a, b, c, d, assets, liabs
  <2>6. QED
    BY <2>2, <2>3, <2>4, <2>5
<1>2. assets \in [Markets -> Int] /\ liabs \in [Markets -> Int]
  BY <1>1
<1>3. [i \in Markets |-> assets[i] - liabs[i]] = MarketValues
  <2> HIDE DEF assets, liabs
  <2>1. QED
    BY <1>1 DEF MarketValues
<1>4. /\ getAssetsVal(orders) = getUiDeposit(QUOTE_INDEX) + SumFunction(assets)
      /\ getLiabsVal = getUiBorrow(QUOTE_INDEX) + SumFunction(liabs)
  BY DEF getAssetsVal, getLiabsVal
<1> HIDE DEF assets, liabs
<1>5. /\ SumFunction(assets) \in Int /\ SumFunction(liabs) \in Int
      /\ SumFunction([i \in Markets |-> assets[i] - liabs[i]]) = SumFunction(assets) - SumFunction(liabs)
  BY <1>2, MarketsFinite, SumOfDifferences
<1>6. SumFunction(MarketValues) = SumFunction(assets) - SumFunction(liabs)
  BY <1>3, <1>5
<1>7. getUiDeposit(QUOTE_INDEX) \in Int /\ getUiBorrow(QUOTE_INDEX) \in Int
  BY QuoteAgrees DEF ValueFits, Tokens
<1>8. computeValue(orders) = getAssetsVal(orders) - getLiabsVal
  BY DEF computeValue, ValueFits
<1>9. QED
  BY <1>4, <1>5, <1>6, <1>7, <1>8

\* So is the health.
LEMMA HealthIsSum ==
  ASSUME Typed, OrdersTyped, ValueFits, \A i \in Markets : Settled(i)
  PROVE  getHealth(orders, "Unknown") = getNet(QUOTE_INDEX) + SumFunction(MarketHealths)
<1> DEFINE c == getHealthComponents(orders)
           terms == Terms(c, "Unknown")
           spot == SpotQuotes(orders)
           perp == PerpQuotes
           both == [i \in Markets |-> spot[i] + perp[i]]
<1>1. ASSUME NEW i \in Markets
      PROVE  /\ terms[i] \in Int /\ spot[i] \in Int /\ perp[i] \in Int
             /\ terms[i] + both[i] = SpotHealth(i) + PerpHealth(i)
  <2>1. /\ price(i) > 0 /\ SpotFits(i) /\ PerpFits(i)
        /\ Weighable(SpotComponent(i, orders).pos, i, group.spot[i])
        /\ Weighable(PerpComponent(i).pos, i, group.perp[i])
    BY ComponentsAre DEF ValueFits, NothingWraps
  <2> DEFINE u == SpotComponent(i, orders).quote
             v == PerpComponent(i).quote
             x == Weighed(SpotComponent(i, orders).pos, i, group.spot[i], "Unknown")
             y == Weighed(PerpComponent(i).pos, i, group.perp[i], "Unknown")
  <2>2. u \in Int /\ x \in Int
    BY <2>1, SpotHealthIs DEF Settled
  <2>3. v \in Int /\ y \in Int
    BY <2>1, PerpHealthIs DEF Settled
  <2>4. SpotHealth(i) = u + x /\ PerpHealth(i) = v + y
    BY DEF SpotHealth, PerpHealth
  <2>5. c.spot[i] = SpotComponent(i, orders).pos /\ c.perps[i] = PerpComponent(i).pos
    BY ComponentsAre
  <2>6. terms[i] = x + y
    <3> HIDE DEF c
    <3>1. QED
      BY <2>5 DEF Terms
  <2>7. spot[i] = u /\ perp[i] = v
    BY DEF SpotQuotes, PerpQuotes
  <2>8. both[i] = spot[i] + perp[i]
    OBVIOUS
  <2> HIDE DEF u, v, x, y, terms, spot, perp, both
  <2>9. QED
    BY <2>2, <2>3, <2>4, <2>6, <2>7, <2>8
<1>2. terms \in [Markets -> Int]
  <2>1. terms = [i \in Markets |-> terms[i]]
    <3> HIDE DEF c
    <3>1. QED
      BY DEF Terms
  <2> HIDE DEF terms
  <2>2. QED
    BY <1>1, <2>1
<1>3. spot \in [Markets -> Int] /\ perp \in [Markets -> Int]
  <2>1. spot = [i \in Markets |-> spot[i]] /\ perp = [i \in Markets |-> perp[i]]
    BY DEF SpotQuotes, PerpQuotes
  <2> HIDE DEF spot, perp
  <2>2. QED
    BY <1>1, <2>1
<1>4. both \in [Markets -> Int]
  <2> HIDE DEF spot, perp
  <2>1. QED
    BY <1>3
<1>5. /\ getHealth(orders, "Unknown") = c.quote + SumFunction(terms)
      /\ c.quote = getNet(QUOTE_INDEX) + SumFunction(spot) + SumFunction(perp)
  BY ComponentsAre DEF getHealth, getHealthFromComponents, Terms
<1> HIDE DEF c, terms, spot, perp
<1>6. SumFunction(both) = SumFunction(spot) + SumFunction(perp)
  BY <1>3, MarketsFinite, SumOfSums
<1> DEFINE all == [i \in Markets |-> terms[i] + both[i]]
<1> HIDE DEF both
<1>7. SumFunction(all) = SumFunction(terms) + SumFunction(both)
  BY <1>2, <1>4, MarketsFinite, SumOfSums
<1>8. all = MarketHealths
  BY <1>1 DEF MarketHealths
<1>9. /\ SumFunction(terms) \in Int /\ SumFunction(spot) \in Int /\ SumFunction(perp) \in Int
      /\ getNet(QUOTE_INDEX) \in Int
  BY <1>2, <1>3, MarketsFinite, SumOfDifferences, NetTyped DEF Tokens
<1>10. QED
  BY <1>5, <1>6, <1>7, <1>8, <1>9

\* They agree, but for the rounding of each market and of the quote currency.
LEMMA ValueFollows ==
  ASSUME Typed, OrdersTyped
  PROVE  ValueIsHealth
<1> SUFFICES ASSUME ValueFits, \A i \in Markets : Settled(i)
             PROVE  Magnitude(PowTen(Decimals(QUOTE_INDEX)) * computeValue(orders) - getHealth(orders, "Unknown"))
                      <= ValueRounding
  BY DEF ValueIsHealth, Settled
<1> DEFINE Q == PowTen(Decimals(QUOTE_INDEX))
           x == getUiDeposit(QUOTE_INDEX) - getUiBorrow(QUOTE_INDEX)
           n == getNet(QUOTE_INDEX)
           V == SumFunction(MarketValues)
           H == SumFunction(MarketHealths)
           E == SumFunction(MarketRoundings)
           L == BalancesLost(QUOTE_INDEX)
<1>1. /\ Q \in Nat \ {0} /\ n \in Int /\ x \in Int /\ L \in Nat
      /\ Q * x - n <= 2 * One + Q + L /\ n - Q * x <= 2 * One + Q + L
  BY QuoteAgrees DEF ValueFits, Tokens
<1>2. /\ MarketValues \in [Markets -> Int] /\ MarketHealths \in [Markets -> Int]
      /\ MarketRoundings \in [Markets -> Int]
      /\ \A i \in Markets : /\ Q * MarketValues[i] - MarketHealths[i] <= MarketRoundings[i]
                            /\ MarketHealths[i] - Q * MarketValues[i] <= MarketRoundings[i]
  <2>1. ASSUME NEW i \in Markets
        PROVE  /\ SpotValue(i) + PerpValue(i) \in Int /\ SpotHealth(i) + PerpHealth(i) \in Int
               /\ MarketRounding(i) \in Int
               /\ Q * (SpotValue(i) + PerpValue(i)) - (SpotHealth(i) + PerpHealth(i)) <= MarketRounding(i)
               /\ (SpotHealth(i) + PerpHealth(i)) - Q * (SpotValue(i) + PerpValue(i)) <= MarketRounding(i)
    BY MarketAgrees
  <2> HIDE DEF Q
  <2>2. QED
    BY <2>1 DEF MarketValues, MarketHealths, MarketRoundings
<1>3. V \in Int /\ H \in Int /\ E \in Int /\ Q * V - H <= E /\ H - Q * V <= E
  <2> HIDE DEF Q
  <2>1. Q \in Int
    BY <1>1
  <2>2. QED
    BY <1>2, <2>1, MarketsFinite, SumsWithin
<1>4. computeValue(orders) = x + V
  BY ValueIsSum
<1>5. getHealth(orders, "Unknown") = n + H
  BY HealthIsSum
<1>6. ValueRounding = 2 * One + Q + L + E
  <2>1. ValueRounding = 2 * One + Q + Lost(getNativeDeposit(QUOTE_INDEX)) + Lost(getNativeBorrow(QUOTE_INDEX)) + E
    BY DEF ValueRounding, MarketRoundings
  <2> DEFINE a == Lost(getNativeDeposit(QUOTE_INDEX))
             b == Lost(getNativeBorrow(QUOTE_INDEX))
  <2>2. L = a + b
    BY DEF BalancesLost
  <2>3. a \in Nat /\ b \in Nat
    <3>1. TokenFits(QUOTE_INDEX) /\ QUOTE_INDEX \in Tokens
      BY DEF ValueFits, Tokens
    <3>2. QED
      BY <3>1, DepositIs, BorrowIs
  <2> HIDE DEF a, b, Q, L, E
  <2>4. ValueRounding = 2 * One + Q + a + b + E
    BY <2>1 DEF a, b
  <2>5. E \in Int /\ One \in Int
    BY <1>3, OneAssumption
  <2>6. QED
    BY <1>1, <2>2, <2>3, <2>4, <2>5
<1>7. One \in Int
  BY OneAssumption
<1> HIDE DEF Q, x, n, V, H, E, L
<1>8. Q * (x + V) = Q * x + Q * V /\ Q * x \in Int /\ Q * V \in Int
  BY <1>1, <1>3
<1> DEFINE d == Q * computeValue(orders) - getHealth(orders, "Unknown")
<1>9. d \in Int /\ d <= ValueRounding /\ -d <= ValueRounding
  <2> DEFINE s == Q * x
             t == Q * V
  <2>1. d = s + t - n - H
    BY <1>1, <1>3, <1>4, <1>5, <1>8
  <2>2. /\ s \in Int /\ t \in Int /\ s - n <= 2 * One + Q + L /\ n - s <= 2 * One + Q + L
        /\ t - H <= E /\ H - t <= E
    BY <1>1, <1>3, <1>8
  <2> HIDE DEF s, t, d
  <2>3. QED
    BY <1>1, <1>3, <1>6, <1>7, <2>1, <2>2
<1> HIDE DEF d
<1>10. Magnitude(d) <= ValueRounding
  BY <1>9 DEF Magnitude
<1>11. QED
  BY <1>10 DEF d, Q

----------------------------------------------------------------------------
(* Loading the open orders. *)

\* The addresses that are asked for are addresses of open orders accounts.
LEMMA FilteredTyped ==
  ASSUME Typed
  PROVE  Filtered \in Seq(Keys)
<1> DEFINE V == Seq(Keys)
           Round(k, x) == IF Addresses[k] = Empty THEN x ELSE Append(x, Addresses[k])
           h == [k \in 1 .. NumOracles |-> [x \in V |-> Round(k, x)]]
           Eq(g) == g = [n \in 0 .. NumOracles |-> IF n = 0 THEN <<>> ELSE Round(n, g[n - 1])]
<1>1. NumOracles \in Nat
  BY OraclesAssumption
<1>2. \A k \in 1 .. NumOracles : Addresses[k] \in Keys \cup {Empty}
  <2>1. info \in MangoAccountInfo
    BY LayoutAssumption DEF Typed
  <2>2. info.spotOpenOrders \in [Markets -> Keys \cup {Empty}]
    BY <2>1 DEF MangoAccountInfo
  <2>3. \A k \in 1 .. NumOracles : k - 1 \in Markets /\ Addresses[k] = info.spotOpenOrders[k - 1]
    BY <1>1 DEF Markets, Addresses
  <2>4. QED
    BY <2>2, <2>3
<1>3. \A k \in 1 .. NumOracles : \A x \in V : Round(k, x) \in V
  BY <1>2
<1>4. \E g : Eq(g)
  <2>1. h \in [1 .. NumOracles -> [V -> V]] /\ <<>> \in V
    <3> HIDE DEF Round
    <3>1. QED
      BY <1>3
  <2>2. \A x \in V : \A k \in 1 .. NumOracles : h[k][x] = Round(k, x)
    <3> HIDE DEF Round
    <3>1. QED
      OBVIOUS
  <2> HIDE DEF V, h, Round
  <2>3. PICK g \in [0 .. NumOracles -> V] : Iterates(g, <<>>, NumOracles, h)
    BY <1>1, <2>1, Recursion
  <2>4. \A k \in 1 .. NumOracles : g[k] = Round(k, g[k - 1])
    BY <1>1, <2>2, <2>3 DEF Iterates
  <2>5. Eq(g)
    BY <1>1, <2>3, <2>4 DEF Iterates
  <2>6. QED
    BY <2>5
<1>5. Eq(FilteredUpTo)
  <2>1. FilteredUpTo = CHOOSE g : Eq(g)
    BY DEF FilteredUpTo
  <2> HIDE DEF Eq
  <2>2. QED
    BY <1>4, <2>1
<1> HIDE DEF Round
<1>6. FilteredUpTo[0] = <<>> /\ \A n \in 0 .. NumOracles - 1 : FilteredUpTo[n + 1] = Round(n + 1, FilteredUpTo[n])
  BY <1>1, <1>5
<1> HIDE DEF Eq
<1> DEFINE S == {n \in 0 .. NumOracles : FilteredUpTo[n] \in V}
<1>7. 0 \in S
  <2>1. <<>> \in V /\ 0 \in 0 .. NumOracles
    BY <1>1
  <2> HIDE DEF V
  <2>2. QED
    BY <1>6, <2>1
<1>8. ASSUME NEW n \in 0 .. NumOracles - 1, n \in S
      PROVE  n + 1 \in S
  <2>1. n + 1 \in 0 .. NumOracles /\ n + 1 \in 1 .. NumOracles /\ FilteredUpTo[n] \in V
    BY <1>1, <1>8
  <2>2. FilteredUpTo[n + 1] \in V
    <3> HIDE DEF V
    <3>1. QED
      BY <1>3, <1>6, <2>1
  <2>3. QED
    BY <2>1, <2>2
<1> HIDE DEF S
<1>9. \A n \in 0 .. NumOracles : n \in S
  BY <1>1, <1>7, <1>8, FiniteInduction
<1>10. QED
  BY <1>1, <1>9 DEF S, Filtered

\* While loadOpenOrders waits, what it has asked for are the addresses of the
\* account, which does not change.
LoadInv ==
  /\ Typed
  /\ asked \in Seq(Keys)
  /\ pc = "asked" => asked = Filtered
  /\ LoadedIsAnswered

\* nothing is loaded yet
LEMMA InitLoad == Init => LoadInv
<1> SUFFICES ASSUME Init
             PROVE  LoadInv
  OBVIOUS
<1>1. Typed /\ asked = <<>> /\ pc # "asked"
  BY DEF Init, Typed
<1>2. DOMAIN orders = {} /\ DOMAIN answered = {}
  BY DEF Init, NoOrders, orders
<1>3. LoadedIsAnswered
  BY <1>2 DEF LoadedIsAnswered, AddressesMapped
<1>4. QED
  BY <1>1, <1>3 DEF LoadInv

\* What was loaded stays right among things a step leaves alone.
LEMMA LoadedStays ==
  ASSUME LoadedIsAnswered, UNCHANGED <<info, spotOpenOrdersAccounts, answered>>
  PROVE  LoadedIsAnswered' /\ Filtered' = Filtered
<1>1. Filtered' = Filtered
  BY DEF Filtered, FilteredUpTo, Addresses
<1>2. orders' = orders
  BY DEF orders
<1>3. AddressesMapped' = AddressesMapped
  BY <1>2 DEF AddressesMapped
<1>4. QED
  BY <1>1, <1>2, <1>3 DEF LoadedIsAnswered

\* The loop reaches the only entry of an answer, unless it says the account is
\* closed.
LEMMA ReachedOfOne ==
  ASSUME NEW answer, Len(answer) = 1
  PROVE  Reached(answer) = IF answer[1] = Closed THEN 0 ELSE 1
<1> DEFINE Is(m) == /\ \A n \in 1 .. m : answer[n] # Closed
                    /\ m < Len(answer) => answer[m + 1] = Closed
<1>1. \A m \in 0 .. 1 : Is(m) <=> m = IF answer[1] = Closed THEN 0 ELSE 1
  OBVIOUS
<1>2. Reached(answer) = CHOOSE m \in 0 .. 1 : Is(m)
  BY DEF Reached
<1> HIDE DEF Is
<1>3. QED
  BY <1>1, <1>2

\* The answer replaces what was loaded before.
LEMMA AnswerLoads ==
  ASSUME LoadInv, Answer
  PROVE  LoadInv'
<1>1. UNCHANGED <<info, group, cache, asked>> /\ pc' = "idle" /\ pc = "asked"
  BY DEF Answer
<1>2. Typed' /\ asked' \in Seq(Keys) /\ ~(pc' = "asked")
  BY <1>1 DEF LoadInv, Typed
<1>3. Filtered' = Filtered /\ asked = Filtered /\ asked \in Seq(Keys)
  BY <1>1 DEF LoadInv, Filtered, FilteredUpTo, Addresses
<1> DEFINE answer == [n \in DOMAIN asked |-> chain[asked[n]]]
<1>4. /\ orders' = Inserted(answer)
      /\ answered' = [k \in {asked[n] : n \in DOMAIN asked} |-> chain[k]]
  BY DEF Answer, orders
<1>5. ASSUME Len(asked) <= 1
      PROVE  /\ \A k \in DOMAIN orders' : k \in DOMAIN answered' /\ orders'[k] = answered'[k]
             /\ \A k \in DOMAIN answered' : answered'[k] # Closed => k \in DOMAIN orders'
  <2>1. Len(asked) \in Nat /\ DOMAIN asked = 1 .. Len(asked)
    BY <1>3
  <2>2. CASE Len(asked) = 0
    <3>1. DOMAIN asked = {} /\ answer = <<>>
      BY <2>1, <2>2
    <3>2. Reached(answer) = 0
      BY <3>1 DEF Reached
    <3>3. orders' = NoOrders
      BY <1>4, <3>2 DEF Inserted, Cleared
    <3>4. DOMAIN orders' = {} /\ DOMAIN answered' = {}
      BY <1>4, <3>1, <3>3 DEF NoOrders
    <3>5. QED
      BY <3>4
  <2>3. CASE Len(asked) = 1
    <3>1. DOMAIN asked = {1}
      BY <2>1, <2>3
    <3>2. Len(answer) = 1 /\ answer[1] = chain[asked[1]]
      BY <2>1, <2>3
    <3>3. DOMAIN answered' = {asked[1]} /\ answered'[asked[1]] = chain[asked[1]]
      BY <1>4, <3>1
    <3> HIDE DEF answer
    <3>4. Reached(answer) = IF chain[asked[1]] = Closed THEN 0 ELSE 1
      BY <3>2, ReachedOfOne
    <3>5. CASE chain[asked[1]] = Closed
      <4>1. orders' = NoOrders
        BY <1>4, <3>4, <3>5 DEF Inserted, Cleared
      <4>2. QED
        BY <3>3, <3>5, <4>1 DEF NoOrders
    <3>6. CASE chain[asked[1]] # Closed
      <4>1. orders' = [k \in {asked[1]} \cup DOMAIN NoOrders |->
                         IF k = asked[1] THEN answer[1] ELSE NoOrders[k]]
        BY <1>4, <3>4, <3>6 DEF Inserted, Cleared
      <4>2. DOMAIN orders' = {asked[1]} /\ orders'[asked[1]] = answer[1]
        BY <4>1 DEF NoOrders
      <4>3. QED
        BY <3>2, <3>3, <4>2
    <3>7. QED
      BY <3>5, <3>6
  <2>4. QED
    BY <1>5, <2>1, <2>2, <2>3
<1>6. LoadedIsAnswered'
  BY <1>3, <1>5 DEF LoadedIsAnswered, AddressesMapped
<1>7. QED
  BY <1>2, <1>6 DEF LoadInv

\* Every step keeps it.
LEMMA LoadInductive == LoadInv /\ [Next]_vars => LoadInv'
<1> SUFFICES ASSUME LoadInv, [Next]_vars
             PROVE  LoadInv'
  OBVIOUS
<1>1. CASE LoadOpenOrders
  <2>1. LoadedIsAnswered' /\ Filtered' = Filtered
    BY <1>1, LoadedStays DEF LoadOpenOrders, LoadInv
  <2>2. asked' = Filtered /\ Typed'
    BY <1>1 DEF LoadOpenOrders, LoadInv, Typed
  <2>3. Filtered \in Seq(Keys)
    BY FilteredTyped DEF LoadInv
  <2>4. QED
    BY <2>1, <2>2, <2>3 DEF LoadInv
<1>2. CASE RequestFails
  <2>1. LoadedIsAnswered'
    BY <1>2, LoadedStays DEF RequestFails, LoadInv
  <2>2. QED
    BY <1>2, <2>1 DEF RequestFails, LoadInv, Typed
<1>3. CASE Answer
  BY <1>3, AnswerLoads
<1>4. CASE ChainMoves
  <2>1. UNCHANGED <<pc, info, group, cache, spotOpenOrdersAccounts, asked, answered>>
    BY <1>4 DEF ChainMoves
  <2>2. LoadedIsAnswered' /\ Filtered' = Filtered
    BY <2>1, LoadedStays DEF LoadInv
  <2>3. QED
    BY <2>1, <2>2 DEF LoadInv, Typed
<1>5. CASE FetchCache
  <2>1. LoadedIsAnswered'
    BY <1>5, LoadedStays DEF FetchCache, LoadInv
  <2>2. QED
    BY <1>5, <2>1 DEF FetchCache, LoadInv, Typed
<1>6. CASE UNCHANGED vars
  <2>1. LoadedIsAnswered' /\ Filtered' = Filtered
    BY <1>6, LoadedStays DEF vars, LoadInv
  <2>2. QED
    BY <1>6, <2>1 DEF vars, LoadInv, Typed
<1>7. QED
  BY <1>1, <1>2, <1>3, <1>4, <1>5, <1>6 DEF Next

\* Only accounts are ever put on the map: the chain holds contents of open
\* orders accounts, and the loop stops before an address that has none.
OrdersInv ==
  /\ chain \in [Keys -> OpenOrders \cup {Closed}]
  /\ \A k \in DOMAIN orders : orders[k] \in OpenOrders

\* How far the loop comes, for an answer of any length.
LEMMA ReachedStops ==
  ASSUME NEW A, NEW answer \in Seq(A)
  PROVE  /\ Reached(answer) \in 0 .. Len(answer)
         /\ \A n \in 1 .. Reached(answer) : answer[n] # Closed
<1> DEFINE N == Len(answer)
           Is(m) == /\ \A n \in 1 .. m : answer[n] # Closed
                    /\ m < N => answer[m + 1] = Closed
           S == {m \in Nat : m < N /\ answer[m + 1] = Closed}
<1>1. N \in Nat
  OBVIOUS
<1>2. \E m \in 0 .. N : Is(m)
  <2> HIDE DEF N
  <2>1. CASE S = {}
    <3>1. \A n \in 1 .. N : n - 1 \in Nat /\ n - 1 < N /\ (n - 1) + 1 = n
      BY <1>1
    <3>2. \A n \in 1 .. N : answer[n] # Closed
      BY <2>1, <3>1
    <3>3. N \in 0 .. N /\ Is(N)
      BY <1>1, <3>2
    <3>4. QED
      BY <3>3
  <2>2. CASE S # {}
    <3>1. PICK m \in S : \A k \in S : m <= k
      <4>1. S \in SUBSET Nat
        OBVIOUS
      <4> HIDE DEF S
      <4>2. QED
        BY <2>2, <4>1, LeastElement
    <3>2. m \in Nat /\ m < N /\ answer[m + 1] = Closed
      OBVIOUS
    <3>3. ASSUME NEW n \in 1 .. m
          PROVE  answer[n] # Closed
      <4>1. n - 1 \in Nat /\ n - 1 < N /\ (n - 1) + 1 = n /\ ~(m <= n - 1)
        BY <1>1, <3>2
      <4>2. n - 1 \notin S
        BY <3>1, <4>1
      <4>3. QED
        BY <4>1, <4>2
    <3>4. m \in 0 .. N /\ Is(m)
      BY <1>1, <3>2, <3>3
    <3>5. QED
      BY <3>4
  <2>3. QED
    BY <2>1, <2>2
<1>3. Reached(answer) = CHOOSE m \in 0 .. N : Is(m)
  BY DEF Reached
<1> HIDE DEF N, Is
<1>4. Reached(answer) \in 0 .. N /\ Is(Reached(answer))
  BY <1>2, <1>3
<1>5. QED
  BY <1>4 DEF N, Is

\* nothing is on the map yet
LEMMA InitOrders == Init => OrdersInv
<1> SUFFICES ASSUME Init
             PROVE  OrdersInv
  OBVIOUS
<1>1. DOMAIN orders = {}
  BY DEF Init, NoOrders, orders
<1>2. QED
  BY <1>1 DEF Init, OrdersInv

\* What the loop puts on the map is an entry of the answer it has reached.
LEMMA AnswerOrders ==
  ASSUME LoadInv, OrdersInv, Answer
  PROVE  OrdersInv'
<1> DEFINE answer == [n \in DOMAIN asked |-> chain[asked[n]]]
           held == OpenOrders \cup {Closed}
<1>1. asked \in Seq(Keys) /\ chain \in [Keys -> held]
  BY DEF LoadInv, OrdersInv
<1>2. orders' = Inserted(answer) /\ chain' = chain
  BY DEF Answer, orders
<1>3. answer \in Seq(held)
  BY <1>1
<1> HIDE DEF answer
<1>4. /\ Reached(answer) \in 0 .. Len(answer)
      /\ \A n \in 1 .. Reached(answer) : answer[n] # Closed
  BY <1>3, ReachedStops
<1>5. ASSUME NEW k \in DOMAIN orders'
      PROVE  orders'[k] \in OpenOrders
  <2>1. Reached(answer) # 0
    <3>1. ASSUME Reached(answer) = 0
          PROVE  FALSE
      BY <1>2, <1>5, <3>1 DEF Inserted, Cleared, NoOrders
    <3>2. QED
      BY <3>1
  <2>2. orders' = [j \in {asked[1]} \cup DOMAIN NoOrders |->
                     IF j = asked[1] THEN answer[Reached(answer)] ELSE NoOrders[j]]
    BY <1>2, <2>1 DEF Inserted, Cleared
  <2>3. orders'[k] = answer[Reached(answer)]
    BY <1>5, <2>2 DEF NoOrders
  <2>4. Reached(answer) \in 1 .. Reached(answer) /\ Reached(answer) \in 1 .. Len(answer)
    BY <1>3, <1>4, <2>1
  <2>5. answer[Reached(answer)] \in held
    BY <1>3, <2>4
  <2>6. answer[Reached(answer)] # Closed
    BY <1>4, <2>4
  <2>7. QED
    BY <2>3, <2>5, <2>6
<1>6. QED
  BY <1>1, <1>2, <1>5 DEF OrdersInv

\* Every step keeps it.
LEMMA OrdersInductive == LoadInv /\ OrdersInv /\ [Next]_vars => OrdersInv'
<1> SUFFICES ASSUME LoadInv, OrdersInv, [Next]_vars
             PROVE  OrdersInv'
  OBVIOUS
<1>1. CASE LoadOpenOrders
  BY <1>1 DEF LoadOpenOrders, OrdersInv, orders
<1>2. CASE RequestFails
  BY <1>2 DEF RequestFails, OrdersInv, orders
<1>3. CASE Answer
  BY <1>3, AnswerOrders
<1>4. CASE ChainMoves
  <2>1. PICK k \in Keys, oo \in OpenOrders \cup {Closed} : chain' = [chain EXCEPT ![k] = oo]
    BY <1>4 DEF ChainMoves
  <2>2. chain' \in [Keys -> OpenOrders \cup {Closed}]
    BY <2>1 DEF OrdersInv
  <2>3. orders' = orders
    BY <1>4 DEF ChainMoves, orders
  <2>4. QED
    BY <2>2, <2>3 DEF OrdersInv
<1>5. CASE FetchCache
  BY <1>5 DEF FetchCache, OrdersInv, orders
<1>6. CASE UNCHANGED vars
  BY <1>6 DEF vars, OrdersInv, orders
<1>7. QED
  BY <1>1, <1>2, <1>3, <1>4, <1>5, <1>6 DEF Next

----------------------------------------------------------------------------
(* The theorems. *)

\* the invariant holds in every state
LEMMA LoadHolds == Spec => []LoadInv
BY InitLoad, LoadInductive, PTL DEF Spec

\* and so do only accounts stand on the map
LEMMA OrdersHold == Spec => []OrdersInv
BY InitOrders, OrdersInductive, LoadHolds, PTL DEF Spec

\* For an account on one spot market at most the map holds what the last
\* answer said, through failed requests and closed accounts, whatever happens
\* on the chain meanwhile (MangoAccount.hpp:22-45).
THEOREM LoadedCorrect == Spec => []LoadedIsAnswered
<1>1. LoadInv => LoadedIsAnswered
  BY DEF LoadInv
<1>2. QED
  BY <1>1, LoadHolds, PTL

\* Health by the initial weights is not above health by the maintenance ones,
\* nor that above the unweighted one, for any number of markets
\* (MangoAccount.hpp:207-213, utils.hpp:39-55).
THEOREM TypesOrdered == Spec => []HealthTypesOrdered
<1>1. LoadInv => HealthTypesOrdered
  BY OrderedFollows DEF LoadInv
<1>2. QED
  BY <1>1, LoadHolds, PTL

\* Health is the weighted assets less the weighted liabilities, but for three
\* bits for each position (MangoAccount.hpp:130-194).
THEOREM HealthCorrect == Spec => []HealthIsNet
<1>1. LoadInv => HealthIsNet
  BY NetFollows DEF LoadInv
<1>2. QED
  BY <1>1, LoadHolds, PTL

\* No account is judged safer before its open orders are loaded, whatever they
\* are (MangoAccount.hpp:12-15, 68-99).
THEOREM NeverHurtCorrect == Spec => []OrdersNeverHurt
<1>1. LoadInv /\ OrdersInv => OrdersNeverHurt
  BY LayoutAssumption, NeverHurtFollows DEF LoadInv, OrdersInv, OrdersTyped
<1>2. QED
  BY <1>1, LoadHolds, OrdersHold, PTL

(* The ratio is negative only for an account whose health is, and another  *)
(* one means health of zero or more, but for rounding and for the bits a   *)
(* division by wide liabilities drops (MangoAccount.hpp:195-206).          *)
THEOREM RatioCorrect == Spec => []RatioAgrees
<1>1. LoadInv => RatioAgrees
  BY RatioFollows DEF LoadInv
<1>2. QED
  BY <1>1, LoadHolds, PTL

\* With symmetric weights no execution of all bids, or of all asks, of a market
\* leaves less health than is computed, but for rounding, that of the doubles
\* included by which spot positions are compared (MangoAccount.hpp:54-60,
\* 86-95, 111-124).
THEOREM WorstCorrect == Spec => []WorstCase
<1>1. LoadInv /\ OrdersInv => WorstCase
  BY LayoutAssumption, WorstFollows DEF LoadInv, OrdersInv, OrdersTyped
<1>2. QED
  BY <1>1, LoadHolds, OrdersHold, PTL

\* The value that is shown to the owner and the unweighted health, computed by
\* two functions along different ways, are the same number but for rounding,
\* for any number of markets, prices and decimals; what doubles round is in
\* proportion to the amounts that go through them (MangoAccount.hpp:214-281
\* against 61-129, utils.hpp:135-137).
THEOREM ValueCorrect == Spec => []ValueIsHealth
<1>1. OrdersInv => OrdersTyped
  BY LayoutAssumption DEF OrdersInv, OrdersTyped
<1>2. LoadInv /\ OrdersInv => ValueIsHealth
  BY <1>1, ValueFollows DEF LoadInv
<1>3. QED
  BY <1>2, LoadHolds, OrdersHold, PTL
=============================================================================
