-------------------------- MODULE MCMarketRegistry --------------------------
(* Three events in pages of two: the first has two markets, the second one  *)
(* is not usable, and the third is listed on the second page.               *)
EXTENDS MarketRegistry

CONSTANTS e1, e2, e3, m1, m2, m3, t1, t2

MCListing == <<e1, e2, e3>>
MCMarketsOf == e1 :> {m1, m2} @@ e2 :> {} @@ e3 :> {m3}
MCNamesOf == m1 :> 2 @@ m2 :> 1 @@ m3 :> 1
MCTokensOf == m1 :> <<t1, NoToken>> @@ m2 :> <<t2>> @@ m3 :> <<t2>>
MCPriceLists == {<<100, 0>>, <<200>>}
MCMids == <<50, 50>>
=============================================================================
