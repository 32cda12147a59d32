----------------------- MODULE MCMarketDataCollector -----------------------
(* Two tokens that need not be in the same cycle: one with ticks enough    *)
(* for an empty, a one-sided, a locked and a crossed book, and one whose    *)
(* book stays empty.  The gap run has the first one only.                  *)
EXTENDS MarketDataCollector, TLC

CONSTANTS t1, t2

MCPricesOf == (t1 :> {1, 2}) @@ (t2 :> {})
=============================================================================
