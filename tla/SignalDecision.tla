--------------------------- MODULE SignalDecision ---------------------------
(***************************************************************************)
(* The decision on one source action: the gates (signals/gates.py), the    *)
(* size (signals/sizing.py) and the shadow broker's fill                   *)
(* (signals/shadow.py).  Pure operators, no state.                         *)
(*                                                                         *)
(* Amounts are integers: One is the price 1, fine enough that the prices,  *)
(* fees and averages of an instance are whole; fractions are per cent;     *)
(* quantities are whole units, and a size is rounded down to one.  A value *)
(* that may be None is a set of at most one value.  A book is a function   *)
(* from its prices to their sizes, as the venue lists a price once.        *)
(***************************************************************************)
EXTENDS Allotment, SequencesExt

CONSTANTS
    One,            \* the price 1
    SignalPolicy,   \* the thresholds of gates.SignalPolicy
    RiskPolicy,     \* the limits of sizing.RiskPolicy, in per cent
    MaxBookAge      \* shadow.ShadowConfig.max_book_age_s

ASSUME DecisionAssumption ==
    /\ One \in Nat
    /\ RiskPolicy.maxPerEntry \in Int /\ RiskPolicy.maxPerMarket \in Int
    /\ RiskPolicy.maxCorrelated \in Int /\ RiskPolicy.maxBookParticipation \in Int
    /\ RiskPolicy.drawdownHalt \in Int

Percent(part, whole) == (part * whole) \div 100
Clamp(low, x, high) == Greater(low, Lesser(high, x))

\* The premium over the source's price that an entry may pay at most.
PriceCap(price) ==
    LET room == Lesser(price, One - price)
    IN  Lesser(Percent(2, One), Greater(Percent(1, One) \div 2, Percent(8, room)))

Takeable(levels, limit, side) ==
    {p \in DOMAIN levels : IF side = "BUY" THEN p <= limit ELSE p >= limit}

WalkBook(levels, limit, side) == SumFunctionOnSet(levels, Takeable(levels, limit, side))

\* What `quantity` costs when the levels are taken best first.
VwapFor(levels, quantity, side) ==
    LET better == [p \in DOMAIN levels |->
                     {q \in DOMAIN levels : IF side = "SELL" THEN q > p ELSE q < p}]
        taken  == Allot(levels, better, quantity)
        filled == SumFunction(taken)
        cost   == SumFunction([p \in DOMAIN taken |-> taken[p] * p])
    IN  IF quantity <= 0 \/ filled <= 0
        THEN {}
        ELSE {[vwap |-> cost \div filled, filled |-> filled]}

-----------------------------------------------------------------------------
(* gates.qualify.  An action has wallet, market, token, side, quantity,     *)
(* notional, vwap, latency and positionBefore; a source has inFeederSet,    *)
(* rank and agreeing; a market has the fields of MarketContext.             *)

LimitPrice(action) ==
    Clamp(0, IF action.side = "BUY" THEN action.vwap + PriceCap(action.vwap)
                                    ELSE action.vwap - PriceCap(action.vwap), One)

\* position_delta_ratio, in per cent: unknown without a position to divide by.
DeltaRatio(action) ==
    {(100 * action.quantity) \div (IF p < 0 THEN -p ELSE p) : p \in action.positionBefore \ {0}}

BestWithin(levels, limit, side) == Takeable(levels, limit, side) # {}

GateOrder ==
    <<"feeder_member", "is_entry", "materiality_absolute", "materiality_relative", "freshness",
      "market_open", "accepting_orders", "not_neg_risk", "non_sports", "time_to_close",
      "market_metadata", "book_present", "price_cap", "spread", "depth", "consensus">>

\* The outcome of every gate.  The spread is not asked of a book with fewer
\* than two prices, which is as good as passing.
Gates(action, source, market) ==
    LET limit == LimitPrice(action)
        depth == WalkBook(market.levels, limit, action.side)
        proposed == market.minOrderSize \ {0}
        reference == IF proposed = {} THEN 1 ELSE CHOOSE m \in proposed : TRUE
        prices == DOMAIN market.levels
    IN  [feeder_member |-> source.inFeederSet,
         is_entry |-> action.side = "BUY",
         materiality_absolute |-> action.notional >= SignalPolicy.minNotional,
         materiality_relative |-> \E r \in DeltaRatio(action) : r >= SignalPolicy.minDeltaRatio,
         freshness |-> action.latency <= SignalPolicy.maxLatency,
         market_open |-> market.active /\ ~market.closed /\ ~market.resolved,
         accepting_orders |-> market.acceptingOrders,
         not_neg_risk |-> SignalPolicy.excludeNegRisk => ~market.negRisk,
         non_sports |-> market.isSports = {FALSE},
         time_to_close |-> \E s \in market.secondsLeft : s >= SignalPolicy.minSecondsToClose,
         market_metadata |-> market.tickSize # {} /\ market.minOrderSize # {},
         book_present |-> prices # {},
         price_cap |-> BestWithin(market.levels, limit, action.side),
         spread |-> Cardinality(prices) >= 2 => Max(prices) - Min(prices) <= SignalPolicy.maxSpread,
         depth |-> depth >= reference * SignalPolicy.minDepthMultiple,
         consensus |-> \/ Max({0} \cup source.rank) >= SignalPolicy.soloRank
                       \/ source.agreeing + 1 >= SignalPolicy.requiredClusters]

Qualify(action, source, market) ==
    LET gates == Gates(action, source, market)
        failed == {n \in DOMAIN GateOrder : ~gates[GateOrder[n]]}
    IN  [accepted |-> failed = {},
         rejectReason |-> IF failed = {} THEN {} ELSE {GateOrder[Min(failed)]},
         limit |-> LimitPrice(action),
         depth |-> IF DOMAIN market.levels = {} THEN {}
                   ELSE {WalkBook(market.levels, LimitPrice(action), action.side)}]

-----------------------------------------------------------------------------
(* sizing.size_entry.  A portfolio has nav, cash, byMarket, byCluster,      *)
(* byTheme, openOrders and dayStartNav.                                     *)

DailyDrawdown(portfolio) ==
    IF portfolio.dayStartNav <= 0 THEN 0
    ELSE Greater(0, (100 * (portfolio.dayStartNav - portfolio.nav)) \div portfolio.dayStartNav)

\* Faulty variant: only resting orders count against the market's cap.
MarketExposureResting(portfolio, market) == portfolio.openOrders[market]

MarketExposure(portfolio, market) ==
    portfolio.byMarket[market] + portfolio.openOrders[market]

QualityFactor(rank) == IF rank = {} THEN 50 ELSE Clamp(50, CHOOSE r \in rank : TRUE, 100)

\* Full size when the book holds twenty times base / limit.
LiquidityFactor(depth, base, limit) ==
    IF depth = {} \/ limit <= 0 \/ base <= 0 THEN 50
    ELSE Clamp(25, (5 * limit * (CHOOSE d \in depth : TRUE)) \div base, 100)

Skipped(reason) == [quantity |-> 0, notional |-> 0, skipped |-> {reason}]

SizeEntry(portfolio, limit, depth, minOrderSize, rank, confidence, market, cluster, theme) ==
    LET base == Percent(RiskPolicy.maxPerEntry, portfolio.nav)
        scaled == Percent(QualityFactor(rank), Percent(QualityFactor(confidence),
                      Percent(LiquidityFactor(depth, base, limit), base)))
        correlated == Percent(RiskPolicy.maxCorrelated, portfolio.nav)
        marketRoom == Percent(RiskPolicy.maxPerMarket, portfolio.nav)
                      - MarketExposure(portfolio, market)
        clusterRoom == {correlated - portfolio.byCluster[c] : c \in cluster}
        themeRoom == {correlated - portfolio.byTheme[t] : t \in theme}
        notional == Min({scaled, marketRoom, portfolio.cash} \cup clusterRoom \cup themeRoom)
        affordable == IF limit > 0 THEN notional \div limit ELSE 0
        quantity == Min({affordable}
                        \cup {Percent(RiskPolicy.maxBookParticipation, d) : d \in depth})
    IN  IF portfolio.nav <= 0 THEN Skipped("no_nav")
        ELSE IF DailyDrawdown(portfolio) >= RiskPolicy.drawdownHalt
             THEN Skipped("daily_drawdown_halt")
        ELSE IF marketRoom <= 0 THEN Skipped("market_cap")
        ELSE IF \E r \in clusterRoom : r <= 0 THEN Skipped("cluster_cap")
        ELSE IF \E r \in themeRoom : r <= 0 THEN Skipped("correlated_cap")
        ELSE IF notional <= 0 THEN Skipped("no_cash")
        ELSE IF \E m \in minOrderSize : quantity < m THEN Skipped("below_min_order_size")
        ELSE [quantity |-> quantity, notional |-> quantity * limit, skipped |-> {}]

Actionable(size) == size.skipped = {} /\ size.quantity > 0

-----------------------------------------------------------------------------
(* shadow.simulate: a fill-or-kill order against the book that was seen.    *)

NoFill(reason) == [filled |-> FALSE, reason |-> reason, quantity |-> 0, vwap |-> 0, fees |-> 0]

Simulate(side, quantity, limit, levels, feeRate, bookAge) ==
    LET takeable == Restrict(levels, Takeable(levels, limit, side))
        priced == VwapFor(takeable, quantity, side)
    IN  IF quantity <= 0 THEN NoFill("zero_quantity")
        ELSE IF DOMAIN levels = {} THEN NoFill("no_book")
        ELSE IF \E age \in bookAge : age > MaxBookAge THEN NoFill("stale_book")
        ELSE IF DOMAIN takeable = {} THEN NoFill("limit_exceeded")
        ELSE IF SumFunction(takeable) < quantity \/ priced = {} THEN NoFill("insufficient_depth")
        ELSE LET p == CHOOSE x \in priced : TRUE
             IN  [filled |-> TRUE, reason |-> "filled", quantity |-> p.filled, vwap |-> p.vwap,
                  fees |-> Percent(feeRate, p.vwap * p.filled)]
=============================================================================
