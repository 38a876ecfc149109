---------------------------- MODULE MangoAccount ----------------------------
(***************************************************************************)
(* mango_v3::MangoAccount (include/MangoAccount.hpp) with the functions of *)
(* include/utils.hpp it uses: an account read from the chain, its open     *)
(* orders loaded by a second request, and what its owner computes from     *)
(* both, the group and the cache: health, ratio and value.  The open       *)
(* orders and the prices go on changing while the owner holds old ones.    *)
(***************************************************************************)
EXTENDS FixedPoint, Doubles, Sequences, FiniteSets, SequencesExt

CONSTANTS
  NumOracles,    \* markets are numbered from zero
  Keys,          \* addresses of open orders accounts
  Empty,         \* PublicKey::empty()
  QUOTE_INDEX,   \* the token that is not a market
  Ten,           \* base of the decimals
  DefaultDecimals, \* 6
  HalfWord,      \* two to the 63: the first value that is not an int64_t
  Finer,         \* how many units of doubles make a raw number: fine enough for
                 \* d decimals if LongMantissa * PowTen(d) <= Finer * One
  NoValue,       \* an exception instead of a value
  Accounts,      \* the MangoAccountInfos an owner can have
  Groups,        \* the MangoGroups
  Caches,        \* the MangoCaches
  OpenOrders     \* the contents an open orders account can have

----------------------------------------------------------------------------
(* The accounts of the programs on the chain, as far as the library reads  *)
(* them; fixed-point members are raw numbers.                              *)
Markets == 0 .. NumOracles - 1
Tokens == Markets \cup {QUOTE_INDEX}

Int64 == -HalfWord .. HalfWord - 1
Uint64 == 0 .. 2 * HalfWord - 1

\* sums and products of these types; the signed ones wrap around too with the
\* compilers in use
ToInt64(n) == ((n + HalfWord) % (2 * HalfWord)) - HalfWord
ToUint64(n) == n % (2 * HalfWord)

\* SpotMarketInfo and PerpMarketInfo; the lot sizes are those of the second
MarketInfo ==
  [initAssetWeight: Raw, initLiabWeight: Raw, maintAssetWeight: Raw, maintLiabWeight: Raw,
   listed: BOOLEAN, baseLotSize: Int64, quoteLotSize: Int64]

\* oracle: whether the entry of oracles is not PublicKey::empty().  The array
\* has no entry for the quote currency; what lies behind it is read instead.
MangoGroup ==
  [spot: [Markets -> MarketInfo], perp: [Markets -> MarketInfo], decimals: [Tokens -> 0 .. 255],
   oracle: [Tokens -> BOOLEAN]]

MangoCache ==
  [price: [Markets -> Raw], deposit_index: [Tokens -> Raw], borrow_index: [Tokens -> Raw],
   long_funding: [Markets -> Raw], short_funding: [Markets -> Raw]]

PerpAccountInfo ==
  [basePosition: Int64, quotePosition: Raw, longSettledFunding: Raw, shortSettledFunding: Raw,
   bidsQuantity: Int64, asksQuantity: Int64, takerBase: Int64, takerQuote: Int64]

MangoAccountInfo ==
  [deposits: [Tokens -> Raw], borrows: [Tokens -> Raw],
   spotOpenOrders: [Markets -> Keys \cup {Empty}], inMarginBasket: [Markets -> BOOLEAN],
   perpAccounts: [Markets -> PerpAccountInfo], beingLiquidated: BOOLEAN]

OpenOrdersAccount ==
  [baseTokenFree: Uint64, baseTokenTotal: Uint64, quoteTokenFree: Uint64, quoteTokenTotal: Uint64,
   referrerRebatesAccrued: Uint64]

ASSUME LayoutAssumption ==
  /\ Accounts \subseteq MangoAccountInfo
  /\ Groups \subseteq MangoGroup
  /\ Caches \subseteq MangoCache
  /\ OpenOrders \subseteq OpenOrdersAccount

ASSUME EmptyAssumption == Empty \notin Keys
ASSUME OraclesAssumption == NumOracles \in Nat
ASSUME TenAssumption == Ten \in Nat \ {0}
ASSUME QuoteAssumption == QUOTE_INDEX \in Nat /\ QUOTE_INDEX >= NumOracles
ASSUME DecimalsAssumption == DefaultDecimals \in 1 .. 255
ASSUME FinerAssumption == Finer \in Nat \ {0}

\* everything that is converted is below the largest doubles
ASSUME RangeAssumption == Top <= Largest /\ 2 * HalfWord * One * Finer <= Largest

ASSUME WordAssumption == HalfWord \in Nat \ {0}
ASSUME NoValueAssumption == NoValue \notin Int

VARIABLES
  pc,            \* "idle", "asked" while loadOpenOrders waits
  info,          \* mangoAccountInfo
  group, cache,  \* what the owner last fetched
  spotOpenOrdersAccounts,
  asked,         \* filteredOpenOrders of the last loadOpenOrders
  chain,         \* what the chain holds at each address, <<>> for no account
  answered       \* the last answer, a function of the keys that were asked for

vars == <<pc, info, group, cache, spotOpenOrdersAccounts, asked, chain, answered>>

NoOrders == [k \in {} |-> <<>>]

----------------------------------------------------------------------------
(* Health components. *)

getNet(t) == Multiply(info.deposits[t], cache.deposit_index[t])
               - Multiply(info.borrows[t], cache.borrow_index[t])

price(i) == cache.price[i]

splitOpenOrders(oo) ==
  [quoteFree |-> ToUint64(oo.quoteTokenFree + oo.referrerRebatesAccrued),
   quoteLocked |-> ToUint64(oo.quoteTokenTotal - oo.quoteTokenFree),
   baseFree |-> oo.baseTokenFree, baseLocked |-> ToUint64(oo.baseTokenTotal - oo.baseTokenFree)]

\* A position in a market and what goes with it to the quote currency.
Case(pos, quote) == [pos |-> pos, quote |-> quote]

\* broken: the quote currency the bids would pay is taken off
SpotBidsPaying(i, oo) ==
  LET s == splitOpenOrders(oo)
  IN  Case(getNet(i) + Divide(Fixed(s.quoteLocked), price(i)) + Fixed(s.baseFree) + Fixed(s.baseLocked),
           Fixed(s.quoteFree - s.quoteLocked))

\* the spot position if all bids of the open orders were executed, or all asks
SpotBids(i, oo) ==
  LET s == splitOpenOrders(oo)
  IN  Case(getNet(i) + Divide(Fixed(s.quoteLocked), price(i)) + Fixed(s.baseFree) + Fixed(s.baseLocked),
           Fixed(s.quoteFree))

SpotAsks(i, oo) ==
  LET s == splitOpenOrders(oo)
  IN  Case(getNet(i) + Fixed(s.baseFree),
           Times(s.baseLocked, price(i)) + Fixed(s.quoteFree + s.quoteLocked))

\* broken: the smaller position is taken
Smaller(bids, asks) ==
  IF Magnitude(ToDouble(bids.pos)) > Magnitude(ToDouble(asks.pos)) THEN asks ELSE bids

\* the case with the larger position, as far as doubles tell
Worse(bids, asks) ==
  IF Magnitude(ToDouble(bids.pos)) > Magnitude(ToDouble(asks.pos)) THEN bids ELSE asks

\* the spot part of one round of getHealthComponents, for a map of open orders
SpotComponent(i, orders) ==
  LET key == info.spotOpenOrders[i]
  IN  IF key \in DOMAIN orders /\ info.inMarginBasket[i]
      THEN Worse(SpotBids(i, orders[key]), SpotAsks(i, orders[key]))
      ELSE Case(getNet(i), 0)

getUnsettledFunding(i) ==
  LET p == info.perpAccounts[i]
  IN  IF p.basePosition < 0
      THEN Times(p.basePosition, cache.short_funding[i] - p.shortSettledFunding)
      ELSE Times(p.basePosition, cache.long_funding[i] - p.longSettledFunding)

getQuotePosition(i) == info.perpAccounts[i].quotePosition - getUnsettledFunding(i)

\* the perpetual position if all bids were executed, or all asks
PerpQuote(i) ==
  getQuotePosition(i) + Fixed(ToInt64(info.perpAccounts[i].takerQuote * group.perp[i].quoteLotSize))

Lots(i, n) == ToInt64(n * group.perp[i].baseLotSize)

PerpBase(i) == Lots(i, ToInt64(info.perpAccounts[i].basePosition + info.perpAccounts[i].takerBase))

PerpBidsBase(i) == ToInt64(PerpBase(i) + Lots(i, info.perpAccounts[i].bidsQuantity))
PerpAsksBase(i) == ToInt64(PerpBase(i) - Lots(i, info.perpAccounts[i].asksQuantity))

PerpBids(i) ==
  Case(Fixed(PerpBidsBase(i)), PerpQuote(i) - Times(Lots(i, info.perpAccounts[i].bidsQuantity), price(i)))

PerpAsks(i) ==
  Case(Fixed(PerpAsksBase(i)), PerpQuote(i) + Times(Lots(i, info.perpAccounts[i].asksQuantity), price(i)))

\* the perpetual part of one round, where the sizes compared are integers
PerpComponent(i) ==
  IF ~group.perp[i].listed THEN Case(0, 0)
  ELSE IF ToInt64(Magnitude(PerpBidsBase(i))) > ToInt64(Magnitude(PerpAsksBase(i)))
  THEN PerpBids(i)
  ELSE PerpAsks(i)

Positions(f) == [i \in Markets |-> f[i].pos]
Quotes(f) == SumFunction([i \in Markets |-> f[i].quote])

getHealthComponents(orders) ==
  LET spot == [i \in Markets |-> SpotComponent(i, orders)]
      perps == [i \in Markets |-> PerpComponent(i)]
  IN  [spot |-> Positions(spot), perps |-> Positions(perps),
       quote |-> getNet(QUOTE_INDEX) + Quotes(spot) + Quotes(perps)]

----------------------------------------------------------------------------
(* Weighing them. *)

HealthTypes == {"Unknown", "Init", "Maint"}

\* broken: the two kinds of weights are exchanged
WeightsSwapped(market, type) ==
  CASE type = "Init" -> [asset |-> market.maintAssetWeight, liab |-> market.maintLiabWeight]
    [] type = "Maint" -> [asset |-> market.initAssetWeight, liab |-> market.initLiabWeight]
    [] OTHER -> [asset |-> One, liab |-> One]

\* the asset and the liability weight of a spot or a perpetual market
Weights(market, type) ==
  CASE type = "Maint" -> [asset |-> market.maintAssetWeight, liab |-> market.maintLiabWeight]
    [] type = "Init" -> [asset |-> market.initAssetWeight, liab |-> market.initLiabWeight]
    [] OTHER -> [asset |-> One, liab |-> One]

\* (pos * price) * weight
Weighed(pos, i, market, type) ==
  LET w == Weights(market, type)
  IN  Multiply(Multiply(pos, price(i)), IF pos > 0 THEN w.asset ELSE w.liab)

getHealthFromComponents(c, type) ==
  c.quote + SumFunction([i \in Markets |->
              Weighed(c.spot[i], i, group.spot[i], type) + Weighed(c.perps[i], i, group.perp[i], type)])

getHealth(orders, type) == getHealthFromComponents(getHealthComponents(orders), type)

\* what one position adds to the assets, or, with its sign off, to the liabilities
AssetOf(pos, i, market, type) ==
  IF pos > 0 THEN Multiply(Multiply(pos, price(i)), Weights(market, type).asset) ELSE 0

\* broken: a liability gets the weight of an asset
LiabAssetWeight(pos, i, market, type) ==
  IF pos > 0 THEN 0
  ELSE Multiply(Multiply(Multiply(pos, Fixed(-1)), price(i)), Weights(market, type).asset)

LiabOf(pos, i, market, type) ==
  IF pos > 0 THEN 0
  ELSE Multiply(Multiply(Multiply(pos, Fixed(-1)), price(i)), Weights(market, type).liab)

getWeightedAssetsLiabsVals(c, type) ==
  [assets |-> (IF c.quote > 0 THEN c.quote ELSE 0)
                + SumFunction([i \in Markets |->
                    AssetOf(c.spot[i], i, group.spot[i], type) + AssetOf(c.perps[i], i, group.perp[i], type)]),
   liabs |-> (IF c.quote > 0 THEN 0 ELSE Multiply(c.quote, Fixed(-1)))
                + SumFunction([i \in Markets |->
                    LiabOf(c.spot[i], i, group.spot[i], type) + LiabOf(c.perps[i], i, group.perp[i], type)])]

\* broken: the quotient is not made relative to one
GrossRatio(v) == Times(100, Divide(v.assets, v.liabs))

NetRatio(v) == Times(100, Divide(v.assets, v.liabs) - One)

getHealthRatio(orders, type) ==
  LET v == getWeightedAssetsLiabsVals(getHealthComponents(orders), type)
  IN  IF v.liabs > 0 THEN NetRatio(v) ELSE Fixed(100)

isLiquidatable(orders) ==
  (info.beingLiquidated /\ getHealth(orders, "Init") < 0) \/ getHealth(orders, "Maint") < 0

----------------------------------------------------------------------------
(* The value in units of the user interface. *)

\* pow(10.0L, k) for the decimals a uint8_t can hold
TenTo[k \in 0 .. 255] == IF k = 0 THEN 1 ELSE Ten * TenTo[k - 1]
PowTen(k) == TenTo[k]

nativeI80F48ToUi(amount, decimals) == Divide(amount, Fixed(PowTen(decimals)))

\* getMangoGroupTokenDecimals, which throws for a token without decimals that
\* has no oracle either
Decimals(t) == IF group.decimals[t] = 0 THEN DefaultDecimals ELSE group.decimals[t]
Throws == \E t \in Tokens : group.decimals[t] = 0 /\ ~group.oracle[t]

\* getMangoGroupPrice; no token has fewer decimals than the quote currency
UiPrice(i) == Multiply(price(i), Fixed(PowTen(Decimals(i) - Decimals(QUOTE_INDEX))))

\* floor and ceil of to_double()
Floor(a) == Fixed(ToDouble(a) \div One)
Ceil(a) == Fixed(-((-ToDouble(a)) \div One))

\* what the owner has, and owes, of a token in native units
getNativeDeposit(t) == Multiply(cache.deposit_index[t], info.deposits[t])
getNativeBorrow(t) == Multiply(cache.borrow_index[t], info.borrows[t])

getUiDeposit(t) ==
  nativeI80F48ToUi(Floor(getNativeDeposit(t)), Decimals(t))

getUiBorrow(t) ==
  nativeI80F48ToUi(Ceil(getNativeBorrow(t)), Decimals(t))

\* nativeToUi and the conversion of its double
nativeToUi(amount, decimals) ==
  QuotientAsDouble(amount * One * Finer, PowTen(decimals)) \div Finer

\* getSpotVal with the weight one
getSpotVal(i, orders) ==
  Multiply(getUiDeposit(i), UiPrice(i))
    + (IF info.spotOpenOrders[i] \notin DOMAIN orders THEN 0
       ELSE LET oo == orders[info.spotOpenOrders[i]]
            IN  Multiply(nativeToUi(oo.baseTokenTotal, group.decimals[i]), UiPrice(i))
                  + nativeToUi(ToUint64(oo.quoteTokenTotal + oo.referrerRebatesAccrued), group.decimals[QUOTE_INDEX]))

\* basePosition * baseLotSize * price
PerpNotional(i) == Times(Lots(i, info.perpAccounts[i].basePosition), price(i))

\* broken: long positions settle the funding of shorts
RealQuoteSwapped(i) ==
  LET p == info.perpAccounts[i]
  IN  p.quotePosition - (IF p.basePosition > 0
                         THEN Multiply(cache.short_funding[i] - p.shortSettledFunding, Fixed(p.basePosition))
                         ELSE Multiply(cache.long_funding[i] - p.longSettledFunding, Fixed(p.basePosition)))

\* realQuotePosition, nothing being settled for a position of zero
RealQuote(i) ==
  LET p == info.perpAccounts[i]
  IN  p.quotePosition - (IF p.basePosition > 0
                         THEN Multiply(cache.long_funding[i] - p.longSettledFunding, Fixed(p.basePosition))
                         ELSE Multiply(cache.short_funding[i] - p.shortSettledFunding, Fixed(p.basePosition)))

getPerpAccountAssetVal(i) ==
  (IF info.perpAccounts[i].basePosition > 0 THEN PerpNotional(i) ELSE 0)
    + (IF RealQuote(i) > 0 THEN RealQuote(i) ELSE 0)

getPerpAccountLiabsVal(i) ==
  -((IF info.perpAccounts[i].basePosition < 0 THEN PerpNotional(i) ELSE 0)
      + (IF RealQuote(i) < 0 THEN RealQuote(i) ELSE 0))

PerpUi(amount) == nativeI80F48ToUi(amount, group.decimals[QUOTE_INDEX])

\* getAssetsVal and getLiabsVal with HealthType::Unknown
getAssetsVal(orders) ==
  getUiDeposit(QUOTE_INDEX)
    + SumFunction([i \in Markets |-> getSpotVal(i, orders) + PerpUi(getPerpAccountAssetVal(i))])

getLiabsVal ==
  getUiBorrow(QUOTE_INDEX)
    + SumFunction([i \in Markets |->
        Multiply(getUiBorrow(i), Multiply(UiPrice(i), One)) + PerpUi(getPerpAccountLiabsVal(i))])

computeValue(orders) == IF Throws THEN NoValue ELSE getAssetsVal(orders) - getLiabsVal

----------------------------------------------------------------------------
(* Loading the open orders. *)

\* what an answer has for an address without an account
Closed == <<>>

\* the addresses of the account, market by market
Addresses == [n \in 1 .. NumOracles |-> info.spotOpenOrders[n - 1]]

\* filteredOpenOrders after n rounds of the loop that fills it
FilteredUpTo[n \in 0 .. NumOracles] ==
  IF n = 0 THEN <<>>
  ELSE IF Addresses[n] = Empty THEN FilteredUpTo[n - 1]
  ELSE Append(FilteredUpTo[n - 1], Addresses[n])

Filtered == FilteredUpTo[NumOracles]

Init ==
  /\ pc = "idle"
  /\ info \in Accounts /\ group \in Groups /\ cache \in Caches
  /\ spotOpenOrdersAccounts = NoOrders
  /\ asked = <<>> /\ answered = NoOrders
  /\ chain \in [Keys -> OpenOrders \cup {Closed}]

\* the request of loadOpenOrders
LoadOpenOrders ==
  /\ pc = "idle"
  /\ pc' = "asked" /\ asked' = Filtered
  /\ UNCHANGED <<info, group, cache, spotOpenOrdersAccounts, chain, answered>>

\* the request fails or its answer does not decode, before anything is cleared
RequestFails ==
  /\ pc = "asked"
  /\ pc' = "idle"
  /\ UNCHANGED <<info, group, cache, spotOpenOrdersAccounts, asked, chain, answered>>

\* broken: the map is not cleared
NotCleared == spotOpenOrdersAccounts

Cleared == NoOrders

\* how many entries of an answer the loop reaches before value() throws
Reached(answer) ==
  CHOOSE m \in 0 .. Len(answer) :
    /\ \A n \in 1 .. m : answer[n] # Closed
    /\ m < Len(answer) => answer[m + 1] = Closed

\* The map after the loop.  index is never advanced, so every entry is put at
\* the first address.
Inserted(answer) ==
  IF Reached(answer) = 0 THEN Cleared
  ELSE [k \in {asked[1]} \cup DOMAIN Cleared |->
          IF k = asked[1] THEN answer[Reached(answer)] ELSE Cleared[k]]

\* the answer arrives; the call returns, or throws at an account that is closed
Answer ==
  /\ pc = "asked"
  /\ LET answer == [n \in DOMAIN asked |-> chain[asked[n]]]
     IN  spotOpenOrdersAccounts' = Inserted(answer)
  /\ answered' = [k \in {asked[n] : n \in DOMAIN asked} |-> chain[k]]
  /\ pc' = "idle"
  /\ UNCHANGED <<info, group, cache, asked, chain>>

\* orders are placed, executed and settled, accounts opened and closed
ChainMoves ==
  /\ \E k \in Keys, oo \in OpenOrders \cup {Closed} : chain' = [chain EXCEPT ![k] = oo]
  /\ UNCHANGED <<pc, info, group, cache, spotOpenOrdersAccounts, asked, answered>>

\* the owner fetches the cache again
FetchCache ==
  /\ pc = "idle"
  /\ cache' \in Caches
  /\ UNCHANGED <<pc, info, group, spotOpenOrdersAccounts, asked, chain, answered>>

Next == LoadOpenOrders \/ RequestFails \/ Answer \/ ChainMoves \/ FetchCache

Spec == Init /\ [][Next]_vars

----------------------------------------------------------------------------

orders == spotOpenOrdersAccounts

(* The open orders under an address are those of that address: the map is  *)
(* "map(Address: OpenOrders)" (MangoAccount.hpp:22).                       *)
AddressesMapped ==
  \A k \in DOMAIN orders : k \in DOMAIN answered /\ orders[k] = answered[k]

(* For an account that trades on one spot market at most, the map holds    *)
(* what the last answer said and nothing older, also after a request that  *)
(* failed or an answer that said the account is closed                     *)
(* (MangoAccount.hpp:22-45).                                               *)
LoadedIsAnswered ==
  Len(Filtered) <= 1 =>
    /\ AddressesMapped
    /\ \A k \in DOMAIN answered : answered[k] # Closed => k \in DOMAIN orders

(* The numbers stay in the type, and so are the exact ones but for         *)
(* rounding: what the properties about them ask for.                       *)

\* a product of numbers does not wrap around
Exact(a, b) == (a * b) \div One \in Raw

\* nor does the worth of a position, whatever its sign
Weighable(pos, i, market) ==
  \A p \in {pos, -pos}, type \in HealthTypes :
    LET w == Weights(market, type)
    IN  /\ p \in Raw /\ Exact(p, price(i))
        /\ 0 <= w.asset /\ Exact(Multiply(p, price(i)), w.asset)
        /\ 0 <= w.liab /\ Exact(Multiply(p, price(i)), w.liab)

NothingWraps(c) ==
  /\ c.quote \in Raw /\ -c.quote \in Raw
  /\ \A i \in Markets : /\ price(i) > 0
                        /\ Weighable(c.spot[i], i, group.spot[i])
                        /\ Weighable(c.perps[i], i, group.perp[i])

\* Open orders hold what they have free and more, and none of it wraps around
\* when it is added up, turned into numbers and, at the price, into the other
\* token.
AmountsFit(i, oo) ==
  LET s == splitOpenOrders(oo)
  IN  /\ oo.quoteTokenFree <= oo.quoteTokenTotal /\ oo.baseTokenFree <= oo.baseTokenTotal
      /\ oo.quoteTokenTotal + oo.referrerRebatesAccrued \in Uint64
      /\ \A amount \in {s.quoteFree, s.quoteLocked, s.quoteFree + s.quoteLocked, s.baseFree, s.baseLocked} :
           amount * One < Top
      /\ Divide(Fixed(s.quoteLocked), price(i)) \in 0 .. Top - 1
      /\ Exact(Fixed(s.baseLocked), price(i))

\* how far rounding can move a sum over the positions, two of each market: an
\* asset is cut the same way in both, a liability is cut with the other sign
\* twice, and what is lost before its weight counts up to twice
Rounding == 6 * NumOracles

\* no liability counts more than twice
AtMostDoubled(market) == \A type \in HealthTypes : Weights(market, type).liab <= 2 * One

(* Health is what is left of the weighted assets when the weighted         *)
(* liabilities are paid, although each is computed on its own              *)
(* (MangoAccount.hpp:130-194), or a little less: rounding never makes an   *)
(* account healthier.                                                      *)
HealthIsNet ==
  NothingWraps(getHealthComponents(orders))
    /\ (\A i \in Markets : AtMostDoubled(group.spot[i]) /\ AtMostDoubled(group.perp[i])) =>
    \A type \in HealthTypes :
      LET v == getWeightedAssetsLiabsVals(getHealthComponents(orders), type)
      IN  getHealth(orders, type) - (v.assets - v.liabs) \in -Rounding .. 0

\* both sums, and a hundred times what one is of the other, stay in the type
RatioFits(v) ==
  /\ 100 * One < Top /\ v.assets < Top /\ v.liabs < Top
  /\ v.liabs > 0 => 100 * ((v.assets \div v.liabs) + 1) * One < Top

\* what the division may lose of the liabilities, if its remainder is too wide
Dropped(v) == IF v.liabs > 0 THEN TwoTo[Shifts(v.assets % v.liabs)] - 1 ELSE 0

(* An account with a negative ratio has a negative health, and one with    *)
(* another ratio, or without liabilities, has none (MangoAccount.hpp:      *)
(* 195-206), but for rounding and for the bits the division drops.         *)
RatioAgrees ==
  NothingWraps(getHealthComponents(orders))
    /\ (\A i \in Markets : AtMostDoubled(group.spot[i]) /\ AtMostDoubled(group.perp[i])) =>
    \A type \in HealthTypes :
      LET v == getWeightedAssetsLiabsVals(getHealthComponents(orders), type)
      IN  RatioFits(v) =>
            IF getHealthRatio(orders, type) < 0
            THEN getHealth(orders, type) < 0
            ELSE getHealth(orders, type) >= -(Rounding + Dropped(v))

\* weights as lenders set them: stricter for new debts than for old ones
Stricter(market) ==
  /\ 0 <= market.initAssetWeight /\ market.initAssetWeight <= market.maintAssetWeight
  /\ market.maintAssetWeight <= One /\ One <= market.maintLiabWeight
  /\ market.maintLiabWeight <= market.initLiabWeight

(* The health that new debts are judged by is not above the one that       *)
(* liquidation is, nor that above the unweighted one; so an account that   *)
(* is being liquidated stays so while any of them is negative              *)
(* (MangoAccount.hpp:207-213, utils.hpp:39-55).                            *)
HealthTypesOrdered ==
  NothingWraps(getHealthComponents(orders))
    /\ (\A i \in Markets : Stricter(group.spot[i]) /\ Stricter(group.perp[i])) =>
    /\ getHealth(orders, "Init") <= getHealth(orders, "Maint")
    /\ getHealth(orders, "Maint") <= getHealth(orders, "Unknown")
    /\ info.beingLiquidated /\ ~isLiquidatable(orders) =>
         \A type \in HealthTypes : getHealth(orders, type) >= 0

(* An account whose open orders were not loaded, as the constructor leaves *)
(* it, is never judged safer than with them (MangoAccount.hpp:12-15,       *)
(* 68-99).                                                                 *)
OrdersNeverHurt ==
  /\ NothingWraps(getHealthComponents(orders)) /\ NothingWraps(getHealthComponents(NoOrders))
  /\ \A i \in Markets :
       info.spotOpenOrders[i] \in DOMAIN orders => AmountsFit(i, orders[info.spotOpenOrders[i]])
  => \A type \in HealthTypes : getHealth(NoOrders, type) <= getHealth(orders, type)

\* what a case adds to the health
CaseHealth(case, i, market, type) == case.quote + Weighed(case.pos, i, market, type)

\* an asset loses as much of its value as a liability gains
Symmetric(market) ==
  \A type \in HealthTypes :
    LET w == Weights(market, type) IN w.asset <= One /\ w.asset + w.liab = 2 * One

\* the worth of both positions stays in the type
CasesFit(bids, asks, i, market) ==
  Symmetric(market) /\ Weighable(bids.pos, i, market) /\ Weighable(asks.pos, i, market)

\* and what the bids would buy is the exact quotient, but for its last bit
LockedFits(i, oo) ==
  /\ price(i) <= (2 * Top) \div One
  /\ (splitOpenOrders(oo).quoteLocked * One * One) \div price(i) < Top

\* lots do not wrap around, nor do positions of the other sign, and no order
\* is for less than nothing
QuantitiesFit(i) ==
  LET p == info.perpAccounts[i]
      lot == group.perp[i].baseLotSize
      base == (p.basePosition + p.takerBase) * lot
      bids == p.bidsQuantity * lot
      asks == p.asksQuantity * lot
  IN  /\ {p.basePosition + p.takerBase, base} \subseteq Int64
      /\ {bids, asks} \subseteq 0 .. HalfWord - 1
      /\ \A position \in {base + bids, base - asks} :
           {position, -position} \subseteq Int64 /\ position * One \in Raw
      /\ \A quantity \in {bids, asks} : quantity * One < Top /\ quantity * price(i) < Top

\* A case is at most this much better: rounding, one bit of a quotient that is
\* multiplied by the price again, and the price of what the larger position may
\* be larger than the doubles compared say.
NotAbove(case, other, lost, i, market, type) ==
  CaseHealth(case, i, market, type)
    <= CaseHealth(other, i, market, type) + 3 + ((1 + lost) * price(i)) \div One

\* two positions whose doubles are equal differ by no more
Indistinct(bids, asks) == (Magnitude(bids.pos) + Magnitude(asks.pos)) \div Mantissa

(* With weights that are symmetric the larger position is the worse case:  *)
(* neither all bids nor all asks, if executed, could leave the account     *)
(* with less health than is computed (MangoAccount.hpp:54-60, 86-95,       *)
(* 113-124), but for rounding; that of the doubles by which spot positions *)
(* are compared grows with the positions.                                  *)
WorstCase ==
  \A type \in HealthTypes, i \in Markets :
    /\ price(i) > 0 /\ info.spotOpenOrders[i] \in DOMAIN orders /\ info.inMarginBasket[i] =>
         LET oo == orders[info.spotOpenOrders[i]]
         IN  AmountsFit(i, oo) /\ LockedFits(i, oo) /\ CasesFit(SpotBids(i, oo), SpotAsks(i, oo), i, group.spot[i]) =>
               \A other \in {SpotBids(i, oo), SpotAsks(i, oo)} :
                 NotAbove(SpotComponent(i, orders), other, Indistinct(SpotBids(i, oo), SpotAsks(i, oo)),
                          i, group.spot[i], type)
    /\ price(i) > 0 /\ group.perp[i].listed
         /\ QuantitiesFit(i) /\ CasesFit(PerpBids(i), PerpAsks(i), i, group.perp[i]) =>
           \A other \in {PerpBids(i), PerpAsks(i)} :
             NotAbove(PerpComponent(i), other, 0, i, group.perp[i], type)

\* A token's balances are no debts with another sign, and the divisor for its
\* decimals is not so wide that divide would drop bits.
TokenFits(t) ==
  /\ 0 <= getNativeDeposit(t) /\ ToDouble(getNativeDeposit(t)) < Top
  /\ 0 <= getNativeBorrow(t) /\ ToDouble(getNativeBorrow(t)) + One <= Top
  /\ PowTen(Decimals(t)) * One < Top /\ PowTen(Decimals(t)) * One <= (2 * Top) \div One

Loaded(i) == info.spotOpenOrders[i] \in DOMAIN orders
OrdersOn(i) == orders[info.spotOpenOrders[i]]

\* what is worth something at the price in units of the user interface
SpotFits(i) ==
  /\ Decimals(QUOTE_INDEX) <= Decimals(i)
  /\ price(i) * PowTen(Decimals(i) - Decimals(QUOTE_INDEX)) < Top
  /\ Exact(getUiDeposit(i), UiPrice(i)) /\ Exact(getUiBorrow(i), UiPrice(i))
  /\ Loaded(i) =>
       /\ AmountsFit(i, OrdersOn(i)) /\ LockedFits(i, OrdersOn(i))
       /\ group.decimals[i] # 0
       /\ Exact(nativeToUi(OrdersOn(i).baseTokenTotal, group.decimals[i]), UiPrice(i))

PerpFits(i) ==
  LET base == info.perpAccounts[i].basePosition * group.perp[i].baseLotSize
  IN  /\ group.perp[i].baseLotSize >= 0
      /\ base \in Int64 /\ base * One \in Raw /\ base * price(i) \in Raw /\ QuantitiesFit(i)
      /\ getPerpAccountAssetVal(i) < Top /\ getPerpAccountLiabsVal(i) < Top

\* Amounts of open orders and of the quote currency are not given the default
\* decimals: a token that needs them has none of the first.
ValueFits ==
  /\ NothingWraps(getHealthComponents(orders))
  /\ ~Throws /\ group.decimals[QUOTE_INDEX] # 0
  /\ \A t \in Tokens : TokenFits(t)
  /\ \A i \in Markets : SpotFits(i) /\ PerpFits(i)

\* what a number gains or loses at most on its way through a double
Lost(a) == a \div Mantissa

\* the same for the token of a market and for the quote currency its open orders
\* hold; amounts in open orders are rounded twice, to a quotient and to a double
BaseLost(i) ==
  Lost(getNativeDeposit(i)) + Lost(getNativeBorrow(i))
    + (IF Loaded(i) THEN Lost(3 * (OrdersOn(i).baseTokenTotal * One)) ELSE 0)
QuoteLost(i) ==
  IF Loaded(i) THEN Lost(3 * ((OrdersOn(i).quoteTokenTotal + OrdersOn(i).referrerRebatesAccrued) * One)) ELSE 0

\* How far rounding can move the value of the positions in a market: deposits
\* and borrows are cut to native units, three amounts of tokens to the last bit
\* of a unit of the user interface before they are worth their price, and what
\* they are worth to the last bit again; the health loses a bit of a quotient
\* at the price and one of each product.
MarketRounding(i) ==
  2 * price(i) + 5 * PowTen(Decimals(QUOTE_INDEX)) + 2 + QuoteLost(i)
    + ((3 * PowTen(Decimals(i)) + 1 + BaseLost(i)) * price(i)) \div One

\* the same and what is lost of the quote currency
ValueRounding ==
  2 * One + PowTen(Decimals(QUOTE_INDEX))
    + Lost(getNativeDeposit(QUOTE_INDEX)) + Lost(getNativeBorrow(QUOTE_INDEX))
    + SumFunction([i \in Markets |-> MarketRounding(i)])

(* The value of an account, which is computed in units of the user         *)
(* interface, is its health with all weights one (MangoAccount.hpp:214-281 *)
(* against 61-129), for an account with no trades to settle whose open     *)
(* orders are on markets in its basket, and but for rounding; that of the  *)
(* doubles some amounts go through grows with the amounts.                 *)
ValueIsHealth ==
  ValueFits
    /\ (\A i \in Markets :
          /\ info.perpAccounts[i].takerBase = 0 /\ info.perpAccounts[i].takerQuote = 0
          /\ ~group.perp[i].listed => info.perpAccounts[i].basePosition = 0 /\ info.perpAccounts[i].quotePosition = 0
          /\ Loaded(i) => info.inMarginBasket[i]) =>
    Magnitude(PowTen(Decimals(QUOTE_INDEX)) * computeValue(orders) - getHealth(orders, "Unknown"))
      <= ValueRounding
=============================================================================
