-------------------------- MODULE MCShadowCampaign --------------------------
(* A decision of each of two sources in the same token; either may be seen *)
(* and copied once more, with its id or without.  The book fills an entry  *)
(* at two prices, and a second entry takes the market's share to its end,  *)
(* so that fees come on top.                                               *)
EXTENDS ShadowCampaign

CONSTANTS a1, a2, w1, w2, c1, t1, m1

MCSignalPolicy ==
    [minNotional |-> 250, minDeltaRatio |-> 2, maxLatency |-> 90, excludeNegRisk |-> TRUE,
     minSecondsToClose |-> 4, maxSpread |-> 3000, minDepthMultiple |-> 20, soloRank |-> 80,
     requiredClusters |-> 2]

MCRiskPolicy ==
    [maxPerEntry |-> 10, maxPerMarket |-> 10, maxCorrelated |-> 25, drawdownHalt |-> 15,
     maxBookParticipation |-> 5]

MCGatePolicy ==
    [minWindowDays |-> 2, minQualifiedSignals |-> 2, maxP95Latency |-> 90,
     maxDuplicates |-> 0, maxIncidents |-> 0, minSettledLots |-> 1, minCoverage |-> 60]

MCActionOf ==
    [a \in Actions |->
        [wallet |-> IF a = a2 THEN w2 ELSE w1, token |-> t1, side |-> "BUY", quantity |-> 50,
         notional |-> 2500, vwap |-> 50000, latency |-> 20, positionBefore |-> {100}]]

MCSourceOf ==
    [w \in {w1, w2} |->
        [inFeederSet |-> TRUE, rank |-> {100}, cluster |-> IF w = w1 THEN {c1} ELSE {},
         agreeing |-> 0]]

MCMarketOf ==
    [t \in {t1} |->
        [market |-> m1, active |-> TRUE, closed |-> FALSE, resolved |-> FALSE,
         acceptingOrders |-> TRUE, negRisk |-> FALSE, isSports |-> {FALSE},
         secondsLeft |-> {10}, tickSize |-> {1}, minOrderSize |-> {1}, levels |-> <<>>,
         quoteAge |-> {}]]

MCBooksOf ==
    [t \in {t1} |-> {[levels |-> (50000 :> 1) @@ (52000 :> 43), age |-> {a}] : a \in {1, 60}}]
=============================================================================
