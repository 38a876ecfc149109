---------------------------- MODULE MCMangoAccount ----------------------------
(* Instances of MangoAccount for TLC: two spot markets, the first with a     *)
(* perpetual one, and amounts of some tens of native units.                  *)
EXTENDS MangoAccount

CONSTANTS k0, k1

AllKeys == {k0, k1}

\* a function of the three tokens
PerToken(a, b, q) == (0 :> a) @@ (1 :> b) @@ (2 :> q)
PerMarket(a, b) == (0 :> a) @@ (1 :> b)

Market(ia, il, ma, ml) ==
  [initAssetWeight |-> ia, initLiabWeight |-> il, maintAssetWeight |-> ma, maintLiabWeight |-> ml,
   listed |-> FALSE, baseLotSize |-> 1, quoteLotSize |-> 1]
Listed(market) == [market EXCEPT !.listed = TRUE, !.baseLotSize = 2]

\* weights of 3/4 and 5/4, 7/8 and 9/8, and some that are not symmetric
Even == Market(192, 320, 224, 288)
Uneven == Market(128, 272, 240, 264)

Group(spot0, spot1, perp0, decimals1) ==
  [spot |-> PerMarket(spot0, spot1), perp |-> PerMarket(Listed(perp0), Even),
   decimals |-> PerToken(2, decimals1, 1), oracle |-> PerToken(TRUE, TRUE, FALSE)]

\* in the second the other market has a token without decimals
AllGroups == {Group(Even, Even, Even, 2), Group(Uneven, Even, Uneven, 0)}

AllCaches ==
  {[price |-> PerMarket(p, 384), deposit_index |-> PerToken(d, 256, 256), borrow_index |-> PerToken(319, 256, 300),
    long_funding |-> PerMarket(256, 0), short_funding |-> PerMarket(768, 0)] :
     <<p, d>> \in {<<128, 333>>, <<512, 256>>}}

NoPerp == [basePosition |-> 0, quotePosition |-> 0, longSettledFunding |-> 0, shortSettledFunding |-> 0,
           bidsQuantity |-> 0, asksQuantity |-> 0, takerBase |-> 0, takerQuote |-> 0]
Perp(base, quote, bids, asks, taker) ==
  [NoPerp EXCEPT !.basePosition = base, !.quotePosition = quote * One, !.bidsQuantity = bids,
                 !.asksQuantity = asks, !.takerBase = taker, !.takerQuote = -taker]

AllPerps == {Perp(0, 0, 0, 0, 0), Perp(20, -30, 5, 60, 0), Perp(-20, 50, 15, 0, 0), Perp(10, 7, 3, 3, 4)}

Info(deposits, borrows, keys, basket, perp, bl) ==
  [deposits |-> deposits, borrows |-> borrows, spotOpenOrders |-> keys, inMarginBasket |-> basket,
   perpAccounts |-> PerMarket(perp, NoPerp), beingLiquidated |-> bl]

\* no open orders, on one market, on both, on one that is out of the basket
AllMargins ==
  {<<PerMarket(Empty, Empty), TRUE>>, <<PerMarket(k0, Empty), TRUE>>,
   <<PerMarket(k0, k1), TRUE>>, <<PerMarket(k0, Empty), FALSE>>}

\* base tokens owed and quote currency held, or the other way round
AllAccounts ==
  {Info(PerToken(x * One, 0, 40 * One), PerToken(60 * One, 30 * One, z * One),
        m[1], PerMarket(m[2], TRUE), perp, perp # NoPerp) :
     <<x, z>> \in {<<0, 0>>, <<100, 200>>}, m \in AllMargins, perp \in AllPerps}

AllOpenOrders ==
  {[baseTokenFree |-> 10, baseTokenTotal |-> 90, quoteTokenFree |-> 5, quoteTokenTotal |-> 25, referrerRebatesAccrued |-> 3],
   [baseTokenFree |-> 0, baseTokenTotal |-> 100, quoteTokenFree |-> 0, quoteTokenTotal |-> 100, referrerRebatesAccrued |-> 0]}
=============================================================================
