------------------------- MODULE ShadowCampaignProofs -------------------------
(***************************************************************************)
(* Proofs about ShadowCampaign, for any actions, sources, books, policies  *)
(* and bounds.                                                             *)
(*                                                                         *)
(* That live mode rests on evidence: a packet judges a window that has     *)
(* ended.  What is recorded later lies outside of it, and what it has      *)
(* counted does not change: rows stay, and a lot that is no longer open    *)
(* stays so.                                                               *)
(*                                                                         *)
(* That the book adds up: each lot keeps what it was opened for, and what  *)
(* it has returned, counting what is gone at cost, grows by exactly what a *)
(* sale or a settlement pays.  The exposure is charged in full when a lot  *)
(* is opened, and lots only shrink afterwards.  An entry is filled within  *)
(* its limit, and its size times the limit is within every room, so that   *)
(* what it costs before its fees is.                                       *)
(***************************************************************************)
EXTENDS ShadowCampaign, SumTheorems, TLAPS

LotFields ==
    {"mode", "wallet", "cluster", "market", "token", "openedAt", "entry", "opened", "open",
     "fees", "pnl", "status", "evaluation"}

-----------------------------------------------------------------------------
(* Sets of rows.                                                           *)

\* The values that a finite set of rows takes are finitely many.
LEMMA ImagesAreFinite ==
  ASSUME NEW S, IsFiniteSet(S), NEW f, DOMAIN f = S, f = [x \in S |-> f[x]]
  PROVE  IsFiniteSet({f[x] : x \in S})
  <1> DEFINE T == {f[x] : x \in S}
  <1>1. f \in Surjection(S, T)
    BY DEF Surjection
  <1> QED
    BY <1>1, FS_Surjection

\* Two rows are more than one.
LEMMA TwoAreMany ==
  ASSUME NEW S, IsFiniteSet(S), NEW i \in S, NEW j \in S, i # j
  PROVE  Cardinality(S) > 1
  <1>1. Cardinality({i}) = 1 /\ IsFiniteSet({i})
    BY FS_Singleton
  <1>2. Cardinality({i} \cup {j}) = 2 /\ IsFiniteSet({i} \cup {j})
    BY <1>1, FS_AddElement
  <1>3. ({i} \cup {j}) \in SUBSET S
    OBVIOUS
  <1>4. Cardinality({i} \cup {j}) <= Cardinality(S) /\ Cardinality(S) \in Nat
    BY <1>3, FS_Subset, FS_CardinalityType
  <1> QED
    BY <1>2, <1>4

\* The rows of a table are finitely many.
LEMMA RowsAreFinite ==
  ASSUME NEW table, Len(table) \in Nat, DOMAIN table = 1..Len(table)
  PROVE  \A S : S \subseteq DOMAIN table => IsFiniteSet(S) /\ Cardinality(S) \in Nat
  <1>1. IsFiniteSet(DOMAIN table)
    BY FS_Interval
  <1> QED
    BY <1>1, FS_Subset, FS_CardinalityType
-----------------------------------------------------------------------------
(* Decisions.                                                              *)

\* A share of an integer is one.
LEMMA PercentIsInteger == \A p, w \in Int : Percent(p, w) \in Int
  <1> SUFFICES ASSUME NEW p \in Int, NEW w \in Int PROVE Percent(p, w) \in Int
    OBVIOUS
  <1>1. p * w \in Int
    OBVIOUS
  <1> QED
    BY <1>1 DEF Percent

\* A share of something, up to all of it, is something up to all of it.
LEMMA PercentIsAShare ==
  ASSUME NEW p \in Nat, p <= 100, NEW w \in Nat
  PROVE  Percent(p, w) \in Nat /\ Percent(p, w) <= w
  <1>1. p * w \in Nat /\ 100 * w \in Nat /\ w * p <= w * 100
    BY ProductsGrow
  <1>2. p * w <= 100 * w
    BY <1>1
  <1>3. PICK x \in Nat : x = p * w /\ x <= 100 * w
    BY <1>1, <1>2
  <1>4. x \div 100 \in Nat /\ x \div 100 <= w
    BY <1>3
  <1> QED
    BY <1>3, <1>4 DEF Percent

\* The least of a finite set that is not empty is in it, and is the least.
LEMMA MinIsLeast ==
  ASSUME NEW S, IsFiniteSet(S), S \subseteq Int, S # {}
  PROVE  Min(S) \in S /\ \A x \in S : Min(S) <= x
  <1>1. \E m \in S : \A x \in S : m <= x
    BY LeastExists
  <1> QED
    BY <1>1 DEF Min

\* A limit is a price that is not negative.
LEMMA LimitIsAPrice ==
  ASSUME NEW action, action.vwap \in Int
  PROVE  LimitPrice(action) \in Nat
  <1>1. PriceCap(action.vwap) \in Int
    <2> DEFINE room == Lesser(action.vwap, One - action.vwap)
    <2>1. room \in Int
      BY DecisionAssumption DEF Lesser
    <2> HIDE DEF room
    <2>2. /\ Percent(2, One) \in Int /\ Percent(1, One) \div 2 \in Int
          /\ Percent(8, room) \in Int
      <3>1. PICK p \in Int : p = Percent(1, One)
        BY PercentIsInteger, DecisionAssumption
      <3>2. p \div 2 \in Int
        OBVIOUS
      <3> QED
        BY <2>1, <3>1, <3>2, PercentIsInteger, DecisionAssumption
    <2>3. PriceCap(action.vwap)
            = Lesser(Percent(2, One), Greater(Percent(1, One) \div 2, Percent(8, room)))
      BY DEF PriceCap, room
    <2> QED
      BY <2>2, <2>3 DEF Lesser, Greater
  <1> QED
    BY <1>1, DecisionAssumption DEF LimitPrice, Clamp, Lesser, Greater

\* The depth of a book is unknown or not negative.
LEMMA DepthIsANumber ==
  ASSUME NEW action, NEW source, NEW market, IsBookSide(market.levels)
  PROVE  LET depth == Qualify(action, source, market).depth
         IN  IsFiniteSet(depth) /\ depth \subseteq Nat
  <1> DEFINE T == Takeable(market.levels, LimitPrice(action), action.side)
             d == WalkBook(market.levels, LimitPrice(action), action.side)
  <1>1. d \in Nat
    <2>1. IsFiniteSet(T) /\ \A p \in T : market.levels[p] \in Nat
      <3>1. T \subseteq DOMAIN market.levels
        BY DEF Takeable
      <3> HIDE DEF T
      <3> QED
        BY <3>1, FS_Subset DEF IsBookSide
    <2>2. d = SumFunctionOnSet(market.levels, T)
      BY DEF WalkBook
    <2> HIDE DEF T, d
    <2> QED
      BY <2>1, <2>2, SumIsNatural
  <1>2. Qualify(action, source, market).depth \in {{}, {d}}
    BY DEF Qualify
  <1> HIDE DEF d
  <1>3. IsFiniteSet({}) /\ IsFiniteSet({d})
    BY FS_EmptySet, FS_Singleton
  <1> QED
    BY <1>1, <1>2, <1>3

\* The factors that a size is scaled by are numbers.
LEMMA FactorsAreIntegers ==
  /\ \A rank \in SUBSET Int : QualityFactor(rank) \in Int
  /\ \A depth \in SUBSET Int, base \in Int, limit \in Nat :
       LiquidityFactor(depth, base, limit) \in Int
  <1>1. ASSUME NEW rank \in SUBSET Int PROVE QualityFactor(rank) \in Int
    <2>1. rank # {} => (CHOOSE r \in rank : TRUE) \in Int
      OBVIOUS
    <2> QED
      BY <2>1 DEF QualityFactor, Clamp, Lesser, Greater
  <1>2. ASSUME NEW depth \in SUBSET Int, NEW base \in Int, NEW limit \in Nat
        PROVE  LiquidityFactor(depth, base, limit) \in Int
    <2>1. CASE depth = {} \/ limit <= 0 \/ base <= 0
      BY <2>1 DEF LiquidityFactor
    <2>2. CASE ~ (depth = {} \/ limit <= 0 \/ base <= 0)
      <3> DEFINE d == CHOOSE x \in depth : TRUE
      <3>1. d \in Int /\ base > 0
        <4>1. depth # {} /\ ~ (base <= 0)
          BY <2>2, Zenon
        <4>2. d \in depth
          BY <4>1
        <4>3. \A n \in Int : ~ (n <= 0) => n > 0
          OBVIOUS
        <4> HIDE DEF d
        <4> QED
          BY <4>1, <4>2, <4>3
      <3>2. LiquidityFactor(depth, base, limit) = Clamp(25, (5 * limit * d) \div base, 100)
        BY <2>2, Zenon DEF LiquidityFactor
      <3> HIDE DEF d
      <3>3. PICK n \in Int : n = 5 * limit * d
        BY <3>1
      <3>4. n \div base \in Int
        BY <3>1
      <3> QED
        BY <3>2, <3>3, <3>4 DEF Clamp, Lesser, Greater
    <2> QED
      BY <2>1, <2>2
  <1> QED
    BY <1>1, <1>2

\* A size that is acted on stays within the room that the market and the
\* cluster leave and within the cash, and is not given after a halt.
LEMMA SizeStaysWithinRoom ==
  ASSUME NEW fund, fund.nav \in Int, fund.cash \in Int, fund.dayStartNav \in Int,
         NEW market, fund.byMarket[market] \in Int, fund.openOrders[market] = 0,
         NEW cluster, IsFiniteSet(cluster), \A c \in cluster : fund.byCluster[c] \in Int,
         NEW limit \in Nat, NEW depth, IsFiniteSet(depth), depth \subseteq Int,
         NEW minOrderSize, NEW rank, rank \subseteq Int,
         NEW size, size = SizeEntry(fund, limit, depth, minOrderSize, rank, rank, market,
                                    cluster, {}),
         Actionable(size)
  PROVE  /\ size.quantity \in Nat /\ size.quantity > 0 /\ limit * size.quantity \in Nat
         /\ limit * size.quantity
              <= Percent(RiskPolicy.maxPerMarket, fund.nav) - fund.byMarket[market]
         /\ \A c \in cluster : limit * size.quantity
              <= Percent(RiskPolicy.maxCorrelated, fund.nav) - fund.byCluster[c]
         /\ limit * size.quantity <= fund.cash
         /\ DailyDrawdown(fund) < RiskPolicy.drawdownHalt
  <1> DEFINE base == Percent(RiskPolicy.maxPerEntry, fund.nav)
             scaled == Percent(QualityFactor(rank), Percent(QualityFactor(rank),
                          Percent(LiquidityFactor(depth, base, limit), base)))
             correlated == Percent(RiskPolicy.maxCorrelated, fund.nav)
             marketRoom == Percent(RiskPolicy.maxPerMarket, fund.nav)
                             - MarketExposure(fund, market)
             clusterRoom == {correlated - fund.byCluster[c] : c \in cluster}
             rooms == {scaled, marketRoom, fund.cash} \cup clusterRoom
             notional == Min(rooms)
             affordable == IF limit > 0 THEN notional \div limit ELSE 0
             sizes == {affordable} \cup {Percent(RiskPolicy.maxBookParticipation, d) : d \in depth}
             quantity == Min(sizes)
  <1>1. base \in Int /\ correlated \in Int
    BY PercentIsInteger, DecisionAssumption
  <1>2. scaled \in Int
    <2>1. QualityFactor(rank) \in Int
      BY FactorsAreIntegers
    <2>2. LiquidityFactor(depth, base, limit) \in Int
      <3> HIDE DEF base
      <3> QED
        BY <1>1, FactorsAreIntegers
    <2> HIDE DEF base
    <2> QED
      BY <1>1, <2>1, <2>2, PercentIsInteger
  <1>3. marketRoom \in Int
        /\ marketRoom = Percent(RiskPolicy.maxPerMarket, fund.nav) - fund.byMarket[market]
    <2>1. PICK p \in Int : p = Percent(RiskPolicy.maxPerMarket, fund.nav)
      BY PercentIsInteger, DecisionAssumption
    <2>2. MarketExposure(fund, market) = fund.byMarket[market] + 0
      BY DEF MarketExposure
    <2> QED
      BY <2>1, <2>2
  <1>4. IsFiniteSet(clusterRoom) /\ clusterRoom \subseteq Int
    <2> DEFINE f == [c \in cluster |-> correlated - fund.byCluster[c]]
    <2>1. clusterRoom = {f[c] : c \in cluster} /\ DOMAIN f = cluster
          /\ f = [c \in cluster |-> f[c]]
      OBVIOUS
    <2>2. \A c \in cluster : f[c] \in Int
      BY <1>1
    <2> HIDE DEF f, clusterRoom, correlated
    <2> QED
      BY <2>1, <2>2, ImagesAreFinite
  <1>5. notional \in Int /\ \A r \in rooms : notional <= r
    <2>1. IsFiniteSet(rooms) /\ rooms \subseteq Int /\ rooms # {}
      <3> HIDE DEF scaled, marketRoom, clusterRoom
      <3>1. IsFiniteSet({fund.cash})
        BY FS_Singleton
      <3>2. IsFiniteSet({fund.cash} \cup {marketRoom})
        BY <3>1, FS_AddElement
      <3>3. IsFiniteSet(({fund.cash} \cup {marketRoom}) \cup {scaled})
        BY <3>2, FS_AddElement
      <3>4. IsFiniteSet((({fund.cash} \cup {marketRoom}) \cup {scaled}) \cup clusterRoom)
        BY <1>4, <3>3, FS_Union
      <3>5. rooms = (({fund.cash} \cup {marketRoom}) \cup {scaled}) \cup clusterRoom
        OBVIOUS
      <3> QED
        BY <1>2, <1>3, <1>4, <3>4, <3>5
    <2> HIDE DEF rooms
    <2> QED
      BY <2>1, MinIsLeast
  <1>6. /\ notional <= marketRoom /\ notional <= fund.cash
        /\ \A c \in cluster : notional <= correlated - fund.byCluster[c]
    <2>1. /\ marketRoom \in rooms /\ fund.cash \in rooms
          /\ \A c \in cluster : correlated - fund.byCluster[c] \in rooms
      OBVIOUS
    <2> HIDE DEF rooms, notional, marketRoom, correlated
    <2> QED
      BY <1>5, <2>1
  <1>7. affordable \in Int
    <2> HIDE DEF notional
    <2> QED
      BY <1>5
  <1>8. quantity \in Int /\ quantity <= affordable
    <2> DEFINE shares == {Percent(RiskPolicy.maxBookParticipation, d) : d \in depth}
               f == [d \in depth |-> Percent(RiskPolicy.maxBookParticipation, d)]
    <2>1. shares = {f[d] : d \in depth} /\ DOMAIN f = depth /\ f = [d \in depth |-> f[d]]
      OBVIOUS
    <2>2. shares \subseteq Int
      BY PercentIsInteger, DecisionAssumption
    <2>3. IsFiniteSet(shares)
      <3> HIDE DEF f, shares
      <3> QED
        BY <2>1, ImagesAreFinite
    <2>4. sizes = {affordable} \cup shares
      OBVIOUS
    <2> HIDE DEF shares, affordable, sizes
    <2>5. IsFiniteSet({affordable})
      BY FS_Singleton
    <2>6. IsFiniteSet(sizes) /\ sizes \subseteq Int /\ sizes # {} /\ affordable \in sizes
      <3>1. IsFiniteSet({affordable} \cup shares)
        BY <2>3, <2>5, FS_Union
      <3> QED
        BY <1>7, <2>2, <2>4, <3>1
    <2> QED
      BY <2>6, MinIsLeast
  <1>9. /\ size.quantity = quantity /\ quantity > 0
        /\ ~ (DailyDrawdown(fund) >= RiskPolicy.drawdownHalt)
    <2> DEFINE entered == [quantity |-> quantity, notional |-> quantity * limit, skipped |-> {}]
    <2>1. size = IF fund.nav <= 0 THEN Skipped("no_nav")
                 ELSE IF DailyDrawdown(fund) >= RiskPolicy.drawdownHalt
                      THEN Skipped("daily_drawdown_halt")
                 ELSE IF marketRoom <= 0 THEN Skipped("market_cap")
                 ELSE IF \E r \in clusterRoom : r <= 0 THEN Skipped("cluster_cap")
                 ELSE IF notional <= 0 THEN Skipped("no_cash")
                 ELSE IF \E m \in minOrderSize : quantity < m
                      THEN Skipped("below_min_order_size")
                 ELSE entered
      <3>1. {correlated - fund.byTheme[t] : t \in {}} = {}
        OBVIOUS
      <3>2. rooms \cup {} = rooms
        OBVIOUS
      <3> QED
        BY <3>1, <3>2 DEF SizeEntry, quantity
    <2>2. size.skipped = {} /\ size.quantity > 0
      BY DEF Actionable
    <2>3. \A reason : Skipped(reason).skipped # {}
      BY DEF Skipped
    <2>4. entered.quantity = quantity
      OBVIOUS
    <2> HIDE DEF marketRoom, clusterRoom, notional, quantity, entered
    <2>5. size = entered /\ ~ (DailyDrawdown(fund) >= RiskPolicy.drawdownHalt)
      BY <2>1, <2>2, <2>3
    <2> QED
      BY <2>2, <2>4, <2>5
  <1>10. limit > 0 /\ affordable = notional \div limit
    <2> HIDE DEF notional, quantity
    <2> QED
      BY <1>8, <1>9
  <1>11. limit * quantity \in Nat /\ limit * quantity <= notional
    <2> HIDE DEF quantity, notional, affordable
    <2>1. PICK n \in Int, q \in Int : n = notional /\ q = quantity /\ q > 0 /\ q <= n \div limit
      BY <1>5, <1>8, <1>9, <1>10
    <2>2. limit * (n \div limit) <= n /\ n \div limit \in Nat
      BY <1>10, <2>1
    <2>3. limit * q <= limit * (n \div limit) /\ limit * q \in Nat /\ limit * (n \div limit) \in Nat
      BY <2>1, <2>2, ProductsGrow
    <2> QED
      BY <2>1, <2>2, <2>3
  <1>12. DailyDrawdown(fund) \in Int
    BY DEF DailyDrawdown, Greater
  <1> HIDE DEF quantity, notional, marketRoom, correlated, affordable
  <1>13. \A c \in cluster : correlated - fund.byCluster[c] \in Int
    BY <1>1
  <1>14. /\ limit * quantity <= marketRoom /\ limit * quantity <= fund.cash
         /\ \A c \in cluster : limit * quantity <= correlated - fund.byCluster[c]
    BY <1>3, <1>5, <1>6, <1>11, <1>13
  <1>15. DailyDrawdown(fund) < RiskPolicy.drawdownHalt
    BY <1>9, <1>12, DecisionAssumption
  <1> QED
    BY <1>3, <1>8, <1>9, <1>11, <1>14, <1>15 DEF correlated

\* What a fill pays is no more than the limit for each unit that was asked for.
LEMMA FillIsWithinLimit ==
  ASSUME NEW levels, IsBookSide(levels), NEW limit \in Nat, NEW quantity \in Nat, quantity > 0,
         NEW rate \in Nat, NEW age,
         NEW fill, fill = Simulate("BUY", quantity, limit, levels, rate, age), fill.filled
  PROVE  /\ fill.quantity = quantity /\ fill.vwap \in Nat /\ fill.fees \in Nat
         /\ fill.vwap * quantity \in Nat /\ fill.vwap * quantity <= limit * quantity
  <1> DEFINE T == Takeable(levels, limit, "BUY")
             takeable == Restrict(levels, T)
             better == [p \in DOMAIN takeable |->
                          {q \in DOMAIN takeable : IF "BUY" = "SELL" THEN q > p ELSE q < p}]
             taken == Allot(takeable, better, quantity)
             paid == [p \in DOMAIN taken |-> taken[p] * p]
             priced == VwapFor(takeable, quantity, "BUY")
  <1>1. /\ T \subseteq Nat /\ IsFiniteSet(T) /\ DOMAIN takeable = T
        /\ takeable \in [T -> Nat] /\ \A p \in T : p <= limit
    <2>1. T \subseteq DOMAIN levels /\ \A p \in T : p <= limit
      BY DEF Takeable
    <2>2. IsFiniteSet(T)
      <3> HIDE DEF T
      <3> QED
        BY <2>1, FS_Subset DEF IsBookSide
    <2> HIDE DEF T
    <2> QED
      BY <2>1, <2>2 DEF IsBookSide, Restrict
  <1>2. Ordered(better, T)
    <2>1. better = [p \in T |-> {q \in T : q < p}]
      BY <1>1
    <2> HIDE DEF better, T
    <2> QED
      BY <1>1, <2>1, PricesAreOrdered
  <1>3. /\ DOMAIN taken = T /\ (\A p \in T : taken[p] \in Nat)
        /\ SumFunctionOnSet(taken, T) = Lesser(quantity, SumFunctionOnSet(takeable, T))
    <2> HIDE DEF better, T, takeable
    <2>1. /\ DOMAIN Allot(takeable, better, quantity) = T
          /\ \A p \in T : /\ Allot(takeable, better, quantity)[p] \in Nat
                          /\ Allot(takeable, better, quantity)[p] <= takeable[p]
      <3>1. quantity \in Int /\ IsFiniteSet(T) /\ takeable \in [T -> Nat]
        BY <1>1
      <3> HIDE DEF taken, paid, priced
      <3> QED
        BY <1>2, <3>1, AllotmentIsBounded
    <2>2. SumFunctionOnSet(Allot(takeable, better, quantity), T)
            = Lesser(quantity, SumFunctionOnSet(takeable, T))
      BY <1>1, <1>2, AllotmentIsWhole
    <2> QED
      BY <2>1, <2>2
  <1>4. /\ SumFunctionOnSet(paid, T) \in Nat
        /\ SumFunctionOnSet(paid, T) <= limit * SumFunctionOnSet(taken, T)
    <2>1. \A p \in T : paid[p] = taken[p] * p
      BY <1>3
    <2> HIDE DEF T, taken, paid
    <2> QED
      BY <1>1, <1>3, <2>1, CostIsBounded
  <1> DEFINE filled == SumFunction(taken)
             cost == SumFunction(paid)
  <1>5. /\ filled = SumFunctionOnSet(taken, T) /\ cost = SumFunctionOnSet(paid, T)
        /\ SumFunction(takeable) = SumFunctionOnSet(takeable, T)
    <2>1. DOMAIN paid = T
      BY <1>3
    <2> HIDE DEF T, taken, paid, takeable
    <2> QED
      BY <1>1, <1>3, <2>1 DEF SumFunction
  <1>6. priced = IF quantity <= 0 \/ filled <= 0 THEN {}
                 ELSE {[vwap |-> cost \div filled, filled |-> filled]}
    BY DEF VwapFor
  <1> HIDE DEF priced, takeable, filled, cost
  <1> DEFINE p == CHOOSE x \in priced : TRUE
             done == [filled |-> TRUE, reason |-> "filled", quantity |-> p.filled,
                      vwap |-> p.vwap, fees |-> Percent(rate, p.vwap * p.filled)]
  <1>7. fill = done /\ priced # {} /\ ~ (SumFunction(takeable) < quantity)
    <2>1. \A reason : NoFill(reason).filled = FALSE
      BY DEF NoFill
    <2>2. \/ \E reason : fill = NoFill(reason)
          \/ fill = done /\ priced # {} /\ ~ (SumFunction(takeable) < quantity)
      BY Zenon DEF Simulate, priced, takeable
    <2> HIDE DEF done
    <2> QED
      BY <2>1, <2>2
  <1>8. SumFunction(takeable) \in Nat
    <2>1. \A x \in T : takeable[x] \in Nat
      BY <1>1
    <2> HIDE DEF T
    <2> QED
      BY <1>1, <1>5, <2>1, SumIsNatural
  <1>9. filled = quantity
    BY <1>3, <1>5, <1>7, <1>8 DEF Lesser
  <1>10. p = [vwap |-> cost \div quantity, filled |-> quantity]
    <2>1. priced = {[vwap |-> cost \div quantity, filled |-> quantity]}
      BY <1>6, <1>7, <1>9
    <2> QED
      BY <2>1
  <1> HIDE DEF p
  <1>11. p.vwap = cost \div quantity /\ p.filled = quantity
    BY <1>10
  <1>12. /\ fill.quantity = quantity /\ fill.vwap = cost \div quantity
         /\ fill.fees = Percent(rate, fill.vwap * quantity)
    BY <1>7, <1>11
  <1>13. /\ cost \in Nat /\ cost <= limit * quantity
    BY <1>4, <1>5, <1>9
  <1>14. /\ cost \div quantity \in Nat /\ (cost \div quantity) * quantity <= cost
         /\ (cost \div quantity) * quantity \in Nat
    BY <1>13
  <1>15. /\ fill.vwap \in Nat /\ fill.vwap * quantity <= cost /\ fill.vwap * quantity \in Nat
    BY <1>12, <1>14
  <1>16. fill.fees \in Nat
    <2>1. PICK n \in Nat : n = fill.vwap * quantity
      BY <1>15
    <2>2. rate * n \in Nat
      BY ProductsGrow
    <2>3. fill.fees = (rate * n) \div 100
      BY <1>12, <2>1 DEF Percent
    <2>4. \A m \in Nat : m \div 100 \in Nat
      OBVIOUS
    <2> QED
      BY <2>2, <2>3, <2>4
  <1>17. limit * quantity \in Nat
    BY ProductsGrow
  <1>18. fill.vwap * quantity <= limit * quantity
    <2>1. PICK a \in Nat, b \in Nat : a = fill.vwap * quantity /\ b = limit * quantity
      BY <1>15, <1>17
    <2> QED
      BY <1>13, <1>15, <2>1
  <1> QED
    BY <1>12, <1>15, <1>16, <1>18

-----------------------------------------------------------------------------
(* The invariant.                                                          *)

Tables ==
    /\ Len(evaluations) \in Nat /\ DOMAIN evaluations = 1..Len(evaluations)
    /\ Len(fills) \in Nat /\ DOMAIN fills = 1..Len(fills)
    /\ Len(lots) \in Nat /\ DOMAIN lots = 1..Len(lots)
    /\ Len(gateRuns) \in Nat /\ DOMAIN gateRuns = 1..Len(gateRuns)
    /\ today \in Nat

\* A lot is linked to the accepted evaluation that opened it.
LotsAreLinked ==
    \A i \in DOMAIN lots :
        /\ DOMAIN lots[i] = LotFields
        /\ lots[i].evaluation \in DOMAIN evaluations
        /\ evaluations[lots[i].evaluation].accepted
        /\ evaluations[lots[i].evaluation].at = lots[i].openedAt

\* A window has ended when it is judged.
WindowsHaveEnded ==
    /\ \A i \in DOMAIN gateRuns : gateRuns[i].end \in Int /\ gateRuns[i].end <= today
    /\ \A i \in DOMAIN evaluations : evaluations[i].at \in Nat

Inductive == Tables /\ LotsAreLinked /\ WindowsHaveEnded /\ LiveRestsOnEvidence

\* What a step may do to the rows: add some of today, and close lots.
RowsStay ==
    /\ today' \in Nat /\ today' >= today
    /\ Len(evaluations') \in Nat /\ DOMAIN evaluations' = 1..Len(evaluations')
    /\ Len(fills') \in Nat /\ DOMAIN fills' = 1..Len(fills')
    /\ Len(lots') \in Nat /\ DOMAIN lots' = 1..Len(lots')
    /\ DOMAIN evaluations \subseteq DOMAIN evaluations'
    /\ \A i \in DOMAIN evaluations : evaluations'[i] = evaluations[i]
    /\ \A i \in DOMAIN evaluations' \ DOMAIN evaluations : evaluations'[i].at = today
    /\ DOMAIN lots \subseteq DOMAIN lots'
    /\ \A i \in DOMAIN lots :
        /\ DOMAIN lots'[i] = LotFields
        /\ lots'[i].mode = lots[i].mode /\ lots'[i].openedAt = lots[i].openedAt
        /\ lots'[i].evaluation = lots[i].evaluation
        /\ lots[i].status # "open" => lots'[i].status # "open"
    /\ \A i \in DOMAIN lots' \ DOMAIN lots :
        /\ DOMAIN lots'[i] = LotFields
        /\ lots'[i].openedAt = today
        /\ lots'[i].evaluation \in DOMAIN evaluations'
        /\ evaluations'[lots'[i].evaluation].accepted
        /\ evaluations'[lots'[i].evaluation].at = today

-----------------------------------------------------------------------------
\* No row is there at first.
LEMMA InitInductive == Init => Inductive
  <1> SUFFICES ASSUME Init PROVE Inductive
    OBVIOUS
  <1>1. Tables /\ LotsAreLinked /\ WindowsHaveEnded
    BY DEF Init, Tables, LotsAreLinked, WindowsHaveEnded
  <1>2. LiveRestsOnEvidence
    BY DEF Init, LiveRestsOnEvidence
  <1> QED
    BY <1>1, <1>2 DEF Inductive

\* What was earned remains earned.
LEMMA EarnedRemains ==
  ASSUME Inductive, RowsStay, NEW run, run.end \in Int, run.end <= today, Earned(run)
  PROVE  Earned(run)'
  <1> DEFINE during(time) == Within(time, run.start, run.end)
             accepted == {i \in DOMAIN evaluations :
                             evaluations[i].accepted /\ during(evaluations[i].at)}
             opened == {i \in DOMAIN lots : during(lots[i].openedAt) /\ lots[i].mode = "shadow"}
             settled == {i \in opened : lots[i].status # "open"}
             opened2 == {i \in DOMAIN lots' : during(lots'[i].openedAt) /\ lots'[i].mode = "shadow"}
             settled2 == {i \in opened2 : lots'[i].status # "open"}
             accepted2 == {i \in DOMAIN evaluations' :
                             evaluations'[i].accepted /\ during(evaluations'[i].at)}
  <1>1. ~ during(today)
    BY DEF Inductive, Tables, Within
  <1>2. accepted2 = accepted
    BY <1>1 DEF RowsStay
  <1>3. opened2 = opened
    BY <1>1 DEF RowsStay
  <1>4. settled \subseteq settled2
    BY <1>3 DEF RowsStay
  <1>5. Cardinality(settled) <= Cardinality(settled2)
    <2>1. settled2 \subseteq DOMAIN lots'
      OBVIOUS
    <2>2. IsFiniteSet(settled2)
      BY <2>1, RowsAreFinite DEF RowsStay
    <2> QED
      BY <1>4, <2>2, FS_Subset
  <1>6. /\ Cardinality(accepted) >= GatePolicy.minQualifiedSignals
        /\ Cardinality(settled) >= GatePolicy.minSettledLots
        /\ \A i, j \in opened : i # j =>
             /\ lots[i].evaluation # lots[j].evaluation
             /\ \/ evaluations[lots[i].evaluation].source = {}
                \/ evaluations[lots[i].evaluation].source
                     # evaluations[lots[j].evaluation].source
        /\ run.end - run.start >= GatePolicy.minWindowDays
    BY DEF Earned
  <1>7. Cardinality(settled2) >= GatePolicy.minSettledLots
    <2>1. /\ Cardinality(settled) \in Nat /\ Cardinality(settled2) \in Nat
          /\ GatePolicy.minSettledLots \in Nat
      <3>1. settled \subseteq DOMAIN lots /\ settled2 \subseteq DOMAIN lots'
        OBVIOUS
      <3> HIDE DEF settled, settled2
      <3> QED
        BY <3>1, RowsAreFinite, GatePolicyAssumption DEF Inductive, Tables, RowsStay
    <2> QED
      BY <1>5, <1>6, <2>1
  <1>8. \A i, j \in opened2 : i # j =>
          /\ lots'[i].evaluation # lots'[j].evaluation
          /\ \/ evaluations'[lots'[i].evaluation].source = {}
             \/ evaluations'[lots'[i].evaluation].source
                  # evaluations'[lots'[j].evaluation].source
    <2>1. \A i \in opened : /\ i \in DOMAIN lots
                            /\ lots'[i].evaluation = lots[i].evaluation
                            /\ lots[i].evaluation \in DOMAIN evaluations
                            /\ evaluations'[lots[i].evaluation] = evaluations[lots[i].evaluation]
      BY DEF Inductive, LotsAreLinked, RowsStay
    <2> QED
      BY <1>3, <1>6, <2>1
  <1>9. Cardinality(accepted2) >= GatePolicy.minQualifiedSignals
    BY <1>2, <1>6
  <1> QED
    BY <1>6, <1>7, <1>8, <1>9 DEF Earned

\* A step that changes the rows as it may, and neither records a packet nor
\* changes the mode, preserves the invariant.
LEMMA RowsStayPreserves ==
  ASSUME Inductive, RowsStay, UNCHANGED console
  PROVE  Inductive'
  <1>1. UNCHANGED <<gateRuns, mode, promotion>>
    BY DEF console
  <1>2. Tables'
    BY <1>1 DEF Inductive, Tables, RowsStay
  <1>3. LotsAreLinked'
    <2> SUFFICES ASSUME NEW i \in DOMAIN lots'
                 PROVE  /\ DOMAIN lots'[i] = LotFields
                        /\ lots'[i].evaluation \in DOMAIN evaluations'
                        /\ evaluations'[lots'[i].evaluation].accepted
                        /\ evaluations'[lots'[i].evaluation].at = lots'[i].openedAt
      BY DEF LotsAreLinked
    <2>1. CASE i \in DOMAIN lots
      BY <2>1 DEF Inductive, LotsAreLinked, RowsStay
    <2>2. CASE i \notin DOMAIN lots
      BY <2>2 DEF RowsStay
    <2> QED
      BY <2>1, <2>2
  <1>4. WindowsHaveEnded'
    BY <1>1 DEF Inductive, Tables, WindowsHaveEnded, RowsStay
  <1>5. LiveRestsOnEvidence'
    <2>1. ASSUME NEW i \in DOMAIN gateRuns, gateRuns[i].verdict = "pass"
          PROVE  Earned(gateRuns[i])'
      <3>1. PICK run : run = gateRuns[i]
        OBVIOUS
      <3>2. Earned(run) /\ run.end \in Int /\ run.end <= today
        BY <2>1, <3>1 DEF Inductive, LiveRestsOnEvidence, WindowsHaveEnded
      <3>3. Earned(run)'
        BY <3>2, EarnedRemains
      <3> QED
        BY <1>1, <3>1, <3>3 DEF Earned
    <2> QED
      BY <1>1, <2>1 DEF Inductive, LiveRestsOnEvidence, LatestPassing
  <1> QED
    BY <1>2, <1>3, <1>4, <1>5 DEF Inductive

\* A step that leaves the rows of decisions alone.
LEMMA SameDecisionsStay ==
  ASSUME Inductive, UNCHANGED <<today, decided, lots>>
  PROVE  RowsStay
  BY DEF decided, Inductive, Tables, LotsAreLinked, RowsStay

-----------------------------------------------------------------------------
(* The steps.                                                              *)

\* What is filled was accepted.
LEMMA FilledIsAccepted ==
  ASSUME NEW action, NEW source, NEW market, NEW fund, NEW kind,
         Evaluate(action, source, market, fund, kind).fill # {}
  PROVE  Evaluate(action, source, market, fund, kind).accepted
  BY DEF Evaluate, SizeAndFill

\* One decision adds its rows together.
LEMMA DecidePreserves ==
  ASSUME Inductive, NEW a \in Actions, NEW seen, Decide(a, seen)
  PROVE  Inductive'
  <1>1. PICK action, source, market :
          \E ev \in {Evaluate(action, source, market, portfolio, mode)}, link \in Links(a) :
              Record(a, link, action, source, market, ev)
    BY Zenon DEF Decide
  <1>2. PICK ev, link : /\ Record(a, link, action, source, market, ev)
                        /\ ev.fill # {} => ev.accepted
    BY <1>1, FilledIsAccepted
  <1>3. UNCHANGED today /\ UNCHANGED console
    BY DEF Decide
  <1>4. evaluations' = Append(evaluations,
            [action |-> a, source |-> link, version |-> version, accepted |-> ev.accepted,
             reason |-> ev.rejectReason, at |-> today])
    BY <1>2 DEF Record
  <1>5. fills' = fills \/ \E f : fills' = Append(fills, f)
    BY <1>2 DEF Record
  <1>6. \/ lots' = lots
        \/ ev.accepted /\ \E f : lots' = Append(lots,
              OpenLot(Len(evaluations) + 1, mode, action.wallet, source.cluster,
                      market.market, action.token, today, f.vwap, f.quantity, f.fees))
    BY <1>2, Zenon DEF Record
  <1>7. ASSUME NEW f, NEW n
        PROVE  LET lot == OpenLot(n, mode, action.wallet, source.cluster, market.market,
                                  action.token, today, f.vwap, f.quantity, f.fees)
               IN  DOMAIN lot = LotFields /\ lot.openedAt = today /\ lot.evaluation = n
    BY DEF OpenLot, LotFields
  <1>8. \/ lots' = lots
        \/ ev.accepted /\ \E lot : /\ lots' = Append(lots, lot)
                                   /\ DOMAIN lot = LotFields /\ lot.openedAt = today
                                   /\ lot.evaluation = Len(evaluations) + 1
    <2>1. CASE lots' = lots
      BY <2>1
    <2>2. CASE ev.accepted /\ lots' # lots
      <3>1. PICK f : lots' = Append(lots,
              OpenLot(Len(evaluations) + 1, mode, action.wallet, source.cluster,
                      market.market, action.token, today, f.vwap, f.quantity, f.fees))
        BY <1>6, <2>2
      <3> DEFINE lot == OpenLot(Len(evaluations) + 1, mode, action.wallet, source.cluster,
                      market.market, action.token, today, f.vwap, f.quantity, f.fees)
      <3>2. DOMAIN lot = LotFields /\ lot.openedAt = today /\ lot.evaluation = Len(evaluations) + 1
        BY <1>7
      <3> QED
        BY <2>2, <3>1, <3>2
    <2> QED
      BY <1>6, <2>1, <2>2
  <1>9. RowsStay
    BY <1>3, <1>4, <1>5, <1>8 DEF Inductive, Tables, LotsAreLinked, RowsStay
  <1> QED
    BY <1>3, <1>9, RowsStayPreserves

\* An exit changes what is open of a lot, and may close it.
LEMMA ApplyTheExitPreserves ==
  ASSUME Inductive, NEW price, ApplyTheExit(price)
  PROVE  Inductive'
  <1>1. UNCHANGED <<today, decided>> /\ UNCHANGED console
    BY DEF ApplyTheExit
  <1>2. lots' = ApplyExit(lots, plan, price, ExitFeePerUnit * TotalQuantity(plan))
    BY DEF ApplyTheExit
  <1>3. /\ DOMAIN lots' = DOMAIN lots
        /\ \A i \in DOMAIN lots :
             /\ DOMAIN lots'[i] = DOMAIN lots[i]
             /\ lots'[i].mode = lots[i].mode /\ lots'[i].openedAt = lots[i].openedAt
             /\ lots'[i].evaluation = lots[i].evaluation
             /\ lots[i].status # "open" => lots'[i].status # "open"
    BY <1>2 DEF ApplyExit, LotFields, Inductive, LotsAreLinked
  <1>4. Len(lots') = Len(lots)
    BY <1>2, <1>3 DEF Inductive, Tables
  <1>5. RowsStay
    BY <1>1, <1>3, <1>4 DEF decided, Inductive, Tables, LotsAreLinked, RowsStay
  <1> QED
    BY <1>1, <1>5, RowsStayPreserves

\* So does a settlement.
LEMMA SettlePreserves ==
  ASSUME Inductive, NEW token, NEW price, Settle(token, price)
  PROVE  Inductive'
  <1>1. UNCHANGED <<today, decided>> /\ UNCHANGED console
    BY DEF Settle
  <1>2. lots' = SettleLots(lots, token, price)
    BY DEF Settle
  <1>3. /\ DOMAIN lots' = DOMAIN lots
        /\ \A i \in DOMAIN lots :
             /\ DOMAIN lots'[i] = DOMAIN lots[i]
             /\ lots'[i].mode = lots[i].mode /\ lots'[i].openedAt = lots[i].openedAt
             /\ lots'[i].evaluation = lots[i].evaluation
             /\ lots[i].status # "open" => lots'[i].status # "open"
    BY <1>2 DEF SettleLots, LotFields, Inductive, LotsAreLinked
  <1>4. Len(lots') = Len(lots)
    BY <1>2, <1>3 DEF Inductive, Tables
  <1>5. RowsStay
    BY <1>1, <1>3, <1>4 DEF decided, Inductive, Tables, LotsAreLinked, RowsStay
  <1> QED
    BY <1>1, <1>5, RowsStayPreserves

\* A day that passes takes nothing from a window that has ended.
LEMMA NextDayPreserves ==
  ASSUME Inductive, NextDay
  PROVE  Inductive'
  <1>1. UNCHANGED <<decided, lots>> /\ UNCHANGED console /\ today' = today + 1
    BY DEF NextDay, book
  <1>2. RowsStay
    BY <1>1 DEF decided, Inductive, Tables, LotsAreLinked, RowsStay
  <1> QED
    BY <1>1, <1>2, RowsStayPreserves

-----------------------------------------------------------------------------
(* The gate.                                                               *)

\* Duplicates are counted among finitely many rows.
LEMMA DuplicatesAreFinite ==
  ASSUME Inductive, NEW window
  PROVE  IsFiniteSet(Duplicates(evaluations, fills, lots, window))
  <1> DEFINE accepted == {i \in DOMAIN evaluations :
                /\ evaluations[i].accepted
                /\ Within(evaluations[i].at, window.start, window.end)
                /\ evaluations[i].source # {}}
             linked == {i \in DOMAIN lots :
                /\ lots[i].mode = "shadow"
                /\ Within(lots[i].openedAt, window.start, window.end)
                /\ lots[i].evaluation # 0}
             filled == {i \in DOMAIN fills :
                fills[i].filled /\ Within(fills[i].at, window.start, window.end)}
             bySource == [i \in accepted |-> <<"evaluations", evaluations[i].source>>]
             byEvaluation == [i \in linked |-> <<"lots", lots[i].evaluation>>]
             byFill == [i \in filled |-> <<"fills", fills[i].evaluation>>]
             keys == {bySource[i] : i \in accepted} \cup {byEvaluation[i] : i \in linked}
                         \cup {byFill[i] : i \in filled}
  <1>1. IsFiniteSet(accepted) /\ IsFiniteSet(linked) /\ IsFiniteSet(filled)
    <2>1. /\ accepted \subseteq DOMAIN evaluations /\ linked \subseteq DOMAIN lots
          /\ filled \subseteq DOMAIN fills
      OBVIOUS
    <2> HIDE DEF accepted, linked, filled
    <2> QED
      BY <2>1, RowsAreFinite DEF Inductive, Tables
  <1>2. /\ IsFiniteSet({bySource[i] : i \in accepted})
        /\ IsFiniteSet({byEvaluation[i] : i \in linked})
        /\ IsFiniteSet({byFill[i] : i \in filled})
    <2> HIDE DEF accepted, linked, filled
    <2> QED
      BY <1>1, ImagesAreFinite
  <1>3. IsFiniteSet(keys)
    <2> HIDE DEF accepted, linked, filled, bySource, byEvaluation, byFill
    <2> QED
      BY <1>2, FS_Union
  <1>4. Duplicates(evaluations, fills, lots, window) \subseteq keys
    BY DEF Duplicates, RepeatedKeys
  <1> QED
    BY <1>3, <1>4, FS_Subset

\* A packet that passes has been earned.
LEMMA PassingIsEarned ==
  ASSUME Inductive, NEW days \in GateWindows, NEW run,
         run = Packet(actions, evaluations, fills, lots, breaks, days, today),
         run.verdict = "pass"
  PROVE  Earned(run)
  <1> DEFINE length == IF days = 0 THEN GatePolicy.minWindowDays ELSE days
             window == [start |-> today - length, end |-> today]
             ev == Collect(actions, evaluations, fills, lots, breaks, window)
             during(time) == Within(time, window.start, window.end)
             accepted == {i \in DOMAIN evaluations :
                             evaluations[i].accepted /\ during(evaluations[i].at)}
             named == {i \in DOMAIN evaluations :
                          /\ evaluations[i].accepted
                          /\ Within(evaluations[i].at, window.start, window.end)
                          /\ evaluations[i].source # {}}
             opened == {i \in DOMAIN lots : during(lots[i].openedAt) /\ lots[i].mode = "shadow"}
             settled == {i \in opened : lots[i].status # "open"}
             counted == {i \in opened : lots[i].status \in {"closed", "settled"}}
  <1>1. /\ run.start = today - length /\ run.end = today
        /\ Verdict(Criteria(ev)) = "pass"
    BY DEF Packet
  <1>2. /\ WindowDuration(ev) = "pass" /\ SampleSize(ev) = "pass"
        /\ NetPositive(ev) = "pass" /\ NoDuplicates(ev) = "pass"
    BY <1>1 DEF Verdict, Criteria, WindowDuration, SampleSize, NetPositive, NoDuplicates, Outcome
  <1>3. /\ ev.qualified = Cardinality(accepted)
        /\ ev.settled = Cardinality(counted)
        /\ ev.duplicates = Duplicates(evaluations, fills, lots, window)
    <2>1. {i \in {j \in DOMAIN lots : lots[j].mode = "shadow" /\ during(lots[j].openedAt)} :
              lots[i].status \in {"closed", "settled"}} = counted
      OBVIOUS
    <2> QED
      BY <2>1 DEF Collect
  <1>4. ev.qualified >= GatePolicy.minQualifiedSignals
    BY <1>2 DEF SampleSize, Outcome
  <1>5. Cardinality(settled) >= GatePolicy.minSettledLots
    <2>1. ev.settled >= GatePolicy.minSettledLots
      BY <1>2 DEF NetPositive, Outcome
    <2>2. counted \subseteq settled /\ settled \subseteq DOMAIN lots
      OBVIOUS
    <2>3. /\ IsFiniteSet(settled) /\ Cardinality(settled) \in Nat /\ Cardinality(counted) \in Nat
          /\ Cardinality(counted) <= Cardinality(settled)
      <3> HIDE DEF settled, counted
      <3> QED
        BY <2>2, RowsAreFinite, FS_Subset DEF Inductive, Tables
    <2> QED
      BY <1>3, <2>1, <2>3, GatePolicyAssumption
  <1>6. ev.duplicates = {}
    <2>1. Cardinality(ev.duplicates) <= 0
      BY <1>2, GatePolicyAssumption DEF NoDuplicates, Outcome
    <2>2. IsFiniteSet(ev.duplicates)
      BY DuplicatesAreFinite, <1>3
    <2> QED
      BY <2>1, <2>2, FS_EmptySet, FS_CardinalityType
  <1>7. /\ RepeatedKeys(named, LAMBDA i : <<"evaluations", evaluations[i].source>>) = {}
        /\ RepeatedKeys(opened, LAMBDA i : <<"lots", lots[i].evaluation>>) = {}
    <2>1. {i \in DOMAIN lots : /\ lots[i].mode = "shadow"
                               /\ Within(lots[i].openedAt, window.start, window.end)
                               /\ lots[i].evaluation # 0} = opened
      BY DEF Inductive, Tables, LotsAreLinked
    <2> QED
      BY <1>3, <1>6, <2>1 DEF Duplicates
  <1>8. IsFiniteSet(named) /\ IsFiniteSet(opened)
    <2>1. named \subseteq DOMAIN evaluations /\ opened \subseteq DOMAIN lots
      OBVIOUS
    <2> HIDE DEF named, opened
    <2> QED
      BY <2>1, RowsAreFinite DEF Inductive, Tables
  <1>9. \A i, j \in opened : i # j =>
          /\ lots[i].evaluation # lots[j].evaluation
          /\ \/ evaluations[lots[i].evaluation].source = {}
             \/ evaluations[lots[i].evaluation].source # evaluations[lots[j].evaluation].source
    <2> SUFFICES ASSUME NEW i \in opened, NEW j \in opened, i # j
                 PROVE  /\ lots[i].evaluation # lots[j].evaluation
                        /\ \/ evaluations[lots[i].evaluation].source = {}
                           \/ evaluations[lots[i].evaluation].source
                                # evaluations[lots[j].evaluation].source
      OBVIOUS
    <2>1. lots[i].evaluation \in accepted /\ lots[j].evaluation \in accepted
      BY DEF Inductive, LotsAreLinked
    <2>2. ASSUME lots[i].evaluation = lots[j].evaluation PROVE FALSE
      <3> DEFINE key == <<"lots", lots[i].evaluation>>
                 same == {n \in opened : <<"lots", lots[n].evaluation>> = key}
      <3>1. Cardinality(same) > 1
        <4>1. i \in same /\ j \in same /\ same \subseteq opened
          BY <2>2
        <4> HIDE DEF same, opened
        <4> QED
          BY <1>8, <4>1, FS_Subset, TwoAreMany
      <3>2. key \in RepeatedKeys(opened, LAMBDA n : <<"lots", lots[n].evaluation>>)
        <4> HIDE DEF opened
        <4> QED
          BY <3>1 DEF RepeatedKeys
      <3> QED
        BY <1>7, <3>2
    <2>3. ASSUME evaluations[lots[i].evaluation].source # {},
                 evaluations[lots[i].evaluation].source = evaluations[lots[j].evaluation].source
          PROVE  FALSE
      <3> DEFINE key == <<"evaluations", evaluations[lots[i].evaluation].source>>
                 same == {n \in named : <<"evaluations", evaluations[n].source>> = key}
      <3>1. lots[i].evaluation \in named /\ lots[j].evaluation \in named
        BY <2>1, <2>3
      <3>2. Cardinality(same) > 1
        <4>1. /\ lots[i].evaluation \in same /\ lots[j].evaluation \in same
              /\ same \subseteq named
          BY <2>3, <3>1
        <4> HIDE DEF same, named
        <4> QED
          BY <1>8, <2>2, <4>1, FS_Subset, TwoAreMany
      <3>3. key \in RepeatedKeys(named, LAMBDA n : <<"evaluations", evaluations[n].source>>)
        <4> HIDE DEF named
        <4> QED
          BY <3>1, <3>2 DEF RepeatedKeys
      <3> QED
        BY <1>7, <3>3
    <2> QED
      BY <2>2, <2>3
  <1>10. run.end - run.start >= GatePolicy.minWindowDays
    <2>1. ev.days >= GatePolicy.minWindowDays
      BY <1>2 DEF WindowDuration, Outcome
    <2>2. ev.days = run.end - run.start
      BY <1>1 DEF Collect
    <2> QED
      BY <2>1, <2>2
  <1> QED
    BY <1>1, <1>3, <1>4, <1>5, <1>9, <1>10 DEF Earned

\* A packet that passed is found.
LEMMA PassingRunIsFound ==
  ASSUME NEW runs
  PROVE  LatestPassing(runs) # {} <=> \E i \in DOMAIN runs : runs[i].verdict = "pass"
  BY DEF LatestPassing

\* A run adds its packet to those that were earned before.
LEMMA RunGatePreserves ==
  ASSUME Inductive, NEW days \in GateWindows, RunGate(days)
  PROVE  Inductive'
  <1> DEFINE run == Packet(actions, evaluations, fills, lots, breaks, days, today)
  <1>1. /\ gateRuns' = Append(gateRuns, run)
        /\ UNCHANGED <<today, decided, lots, mode, promotion>>
    BY DEF RunGate, book
  <1>2. run.end = today
    BY DEF Packet
  <1>3. run.verdict = "pass" => Earned(run)
    BY PassingIsEarned
  <1> HIDE DEF run
  <1>4. /\ Len(gateRuns') = Len(gateRuns) + 1 /\ DOMAIN gateRuns' = 1..(Len(gateRuns) + 1)
        /\ \A i \in DOMAIN gateRuns : gateRuns'[i] = gateRuns[i]
        /\ gateRuns'[Len(gateRuns) + 1] = run
    BY <1>1 DEF Inductive, Tables
  <1>5. Tables' /\ LotsAreLinked' /\ WindowsHaveEnded'
    BY <1>1, <1>2, <1>4
       DEF decided, Inductive, Tables, LotsAreLinked, WindowsHaveEnded
  <1>6. LiveRestsOnEvidence'
    <2>1. \A r : Earned(r) => Earned(r)'
      BY <1>1 DEF decided, Earned
    <2>2. ASSUME NEW i \in DOMAIN gateRuns', gateRuns'[i].verdict = "pass"
          PROVE  Earned(gateRuns[i])'
      <3>1. PICK r : r = gateRuns'[i]
        OBVIOUS
      <3>2. Earned(r)
        <4>1. CASE i \in DOMAIN gateRuns
          BY <1>4, <2>2, <3>1, <4>1 DEF Inductive, LiveRestsOnEvidence
        <4>2. CASE i = Len(gateRuns) + 1
          BY <1>3, <1>4, <2>2, <3>1, <4>2
        <4> QED
          BY <1>4, <4>1, <4>2 DEF Inductive, Tables
      <3>3. Earned(r)'
        BY <2>1, <3>2
      <3> QED
        BY <3>1, <3>3 DEF Earned
    <2>3. mode' = "live" \/ promotion' # {} => LatestPassing(gateRuns') # {}
      <3> SUFFICES ASSUME mode' = "live" \/ promotion' # {}
                   PROVE  LatestPassing(gateRuns') # {}
        OBVIOUS
      <3>1. PICK i \in DOMAIN gateRuns : gateRuns[i].verdict = "pass"
        BY <1>1, PassingRunIsFound DEF Inductive, LiveRestsOnEvidence
      <3>2. i \in DOMAIN gateRuns' /\ gateRuns'[i].verdict = "pass"
        BY <1>4, <3>1 DEF Inductive, Tables
      <3> QED
        BY <3>2, PassingRunIsFound
    <2> QED
      BY <2>2, <2>3 DEF LiveRestsOnEvidence
  <1> QED
    BY <1>5, <1>6 DEF Inductive

\* A request to go live reads the packet before it updates the mode.
LEMMA ConsolePreserves ==
  ASSUME Inductive,
         \/ \E role \in Roles, c \in BOOLEAN : RequestLive(role, c)
         \/ GoLive
         \/ \E role \in Roles, m \in {"paused", "shadow"} : StandDown(role, m)
  PROVE  Inductive'
  <1>1. UNCHANGED <<today, decided, lots, gateRuns>>
    BY DEF RequestLive, GoLive, StandDown, book
  <1>2. Tables' /\ LotsAreLinked' /\ WindowsHaveEnded'
    BY <1>1 DEF decided, Inductive, Tables, LotsAreLinked, WindowsHaveEnded
  <1>3. mode' = "live" \/ promotion' # {} => LatestPassing(gateRuns) # {}
    BY DEF RequestLive, GoLive, StandDown, Inductive, LiveRestsOnEvidence
  <1>4. \A i \in DOMAIN gateRuns : gateRuns[i].verdict = "pass" => Earned(gateRuns[i])'
    <2>1. \A r : Earned(r) => Earned(r)'
      BY <1>1 DEF decided, Earned
    <2> SUFFICES ASSUME NEW i \in DOMAIN gateRuns, gateRuns[i].verdict = "pass"
                 PROVE  Earned(gateRuns[i])'
      OBVIOUS
    <2>2. PICK r : r = gateRuns[i]
      OBVIOUS
    <2>3. Earned(r)'
      BY <2>1, <2>2 DEF Inductive, LiveRestsOnEvidence
    <2> QED
      BY <1>1, <2>2, <2>3 DEF Earned
  <1>5. LiveRestsOnEvidence'
    BY <1>1, <1>3, <1>4 DEF LiveRestsOnEvidence
  <1> QED
    BY <1>2, <1>5 DEF Inductive

\* Every step preserves the invariant.
LEMMA NextPreserves == Inductive /\ [Next]_vars => Inductive'
  <1> SUFFICES ASSUME Inductive, [Next]_vars PROVE Inductive'
    OBVIOUS
  <1>1. ASSUME UNCHANGED <<today, decided, lots, console>> PROVE Inductive'
    BY <1>1, SameDecisionsStay, RowsStayPreserves
  <1>2. ASSUME NEW a \in Actions, NEW seen \in BooksOf[ActionOf[a].token], Decide(a, seen)
        PROVE  Inductive'
    BY <1>2, DecidePreserves
  <1>3. CASE BumpPolicy
    BY <1>1, <1>3 DEF BumpPolicy, book
  <1>4. CASE \E w \in Wallets, t \in Tokens, r \in Ratios : PlanAnExit(w, t, r)
    BY <1>1, <1>4 DEF PlanAnExit
  <1>5. CASE \E p \in ExitPrices : ApplyTheExit(p)
    BY <1>5, ApplyTheExitPreserves
  <1>6. CASE \E t \in Tokens, p \in {0, One} : Settle(t, p)
    BY <1>6, SettlePreserves
  <1>7. CASE \E v \in Marks : Mark(v)
    BY <1>1, <1>7 DEF Mark
  <1>8. CASE Break \/ ResolveBreak
    BY <1>1, <1>8 DEF Break, ResolveBreak, book
  <1>9. CASE \E days \in GateWindows : RunGate(days)
    BY <1>9, RunGatePreserves
  <1>10. CASE \/ \E role \in Roles, c \in BOOLEAN : RequestLive(role, c)
              \/ GoLive
              \/ \E role \in Roles, m \in {"paused", "shadow"} : StandDown(role, m)
    BY <1>10, ConsolePreserves
  <1>11. CASE NextDay
    BY <1>11, NextDayPreserves
  <1>12. CASE UNCHANGED vars
    BY <1>1, <1>12 DEF vars, book
  <1> QED
    BY <1>2, <1>3, <1>4, <1>5, <1>6, <1>7, <1>8, <1>9, <1>10, <1>11, <1>12 DEF Next

-----------------------------------------------------------------------------
\* Whatever is decided, copied, settled or deployed, and whenever the gate is
\* run, the console (mode/route.ts) promotes the system only on a recorded
\* packet that passed, and each of those had the signals and the settled lots
\* it needs in its window and no two lots of one source action (gate.py,
\* gate_store.py).
THEOREM LiveIsEarned == Spec => []LiveRestsOnEvidence
  <1>1. Inductive => LiveRestsOnEvidence
    BY DEF Inductive
  <1> QED
    BY <1>1, InitInductive, NextPreserves, PTL DEF Spec
-----------------------------------------------------------------------------
(* The decision and the fill.                                              *)

\* What qualifies is an entry, in a market that has not resolved.
LEMMA QualifiedIsAnEntry ==
  ASSUME NEW action, NEW source, NEW market, Qualify(action, source, market).accepted
  PROVE  action.side = "BUY" /\ ~ market.resolved
  <1> DEFINE gates == Gates(action, source, market)
  <1>1. \A n \in DOMAIN GateOrder : gates[GateOrder[n]]
    BY Zenon DEF Qualify
  <1>2. /\ 2 \in DOMAIN GateOrder /\ GateOrder[2] = "is_entry"
        /\ 6 \in DOMAIN GateOrder /\ GateOrder[6] = "market_open"
    BY DEF GateOrder
  <1>3. /\ gates["is_entry"] = (action.side = "BUY")
        /\ gates["market_open"] = (market.active /\ ~ market.closed /\ ~ market.resolved)
    BY DEF Gates
  <1> HIDE DEF gates
  <1>4. gates["is_entry"] /\ gates["market_open"]
    BY <1>1, <1>2
  <1> QED
    BY <1>3, <1>4, Zenon

\* A decision fills what is accepted, by what the shadow broker says of it.
LEMMA FillOfADecision ==
  ASSUME NEW action, NEW source, NEW market, NEW fund, NEW kind, NEW qualified,
         NEW size, size = SizeEntry(fund, qualified.limit, qualified.depth, market.minOrderSize,
                                    source.rank, source.rank, market.market, source.cluster, {}),
         NEW f \in SizeAndFill(action, source, market, fund, kind, qualified).fill
  PROVE  /\ qualified.accepted /\ Actionable(size)
         /\ f = Simulate(action.side, size.quantity, qualified.limit, market.levels, FeeRate,
                         market.quoteAge)
  <1> DEFINE accepted == qualified.accepted /\ Actionable(size)
             fill == IF accepted /\ kind # "live"
                     THEN {Simulate(action.side, size.quantity, qualified.limit, market.levels,
                                    FeeRate, market.quoteAge)}
                     ELSE {}
             reason == IF ~ qualified.accepted THEN qualified.rejectReason
                       ELSE size.skipped \cup {x.reason : x \in {g \in fill : ~ g.filled}}
  <1>1. SizeAndFill(action, source, market, fund, kind, qualified)
          = [accepted |-> accepted, fill |-> fill, rejectReason |-> reason]
    BY Zenon DEF SizeAndFill
  <1>2. [accepted |-> accepted, fill |-> fill, rejectReason |-> reason].fill = fill
    <2> HIDE DEF accepted, fill, reason
    <2> QED
      OBVIOUS
  <1>3. f \in fill
    BY <1>1, <1>2, Zenon
  <1> QED
    BY <1>3, Zenon

-----------------------------------------------------------------------------
(* The invariant of the book.                                              *)

\* What is known of a lot: it is open exactly while something of it is held.
LotTyped(lot) ==
    /\ lot.entry \in Nat /\ lot.opened \in Nat /\ lot.open \in Nat
    /\ lot.pnl \in Int /\ lot.fees \in Int /\ lot.openedAt \in Nat
    /\ lot.open <= lot.opened
    /\ lot.status = "open" <=> lot.open > 0
    /\ lot.market \in MarketIds /\ ClusterKey(lot) \in ClusterKeys

LotsTyped == \A i \in DOMAIN lots : LotTyped(lots[i])

FundTyped ==
    /\ DOMAIN portfolio = {"nav", "cash", "dayStartNav", "byMarket", "byCluster", "byTheme",
                           "openOrders"}
    /\ portfolio.nav \in Int /\ portfolio.cash \in Int /\ portfolio.dayStartNav \in Int
    /\ portfolio.byMarket \in [MarketIds -> Int] /\ portfolio.byCluster \in [ClusterKeys -> Int]
    /\ portfolio.byTheme = <<>> /\ portfolio.openOrders = [m \in MarketIds |-> 0]

\* The plan in hand is of lots that are there, whatever has been sold of them since.
PlanTyped ==
    /\ DOMAIN plan.legs \subseteq DOMAIN lots
    /\ \A i \in DOMAIN plan.legs : plan.legs[i] \in Nat

\* What a lot has brought in beyond the cost of what is still open.
ReturnOf(lot) == lot.pnl + lot.entry * (lot.opened - lot.open)

Returned(ls) == [i \in DOMAIN ls |-> ReturnOf(ls[i])]

Balanced == received \in Int /\ SumFunction(Returned(lots)) = received

BookHolds ==
    /\ LotsTyped /\ FundTyped /\ PlanTyped /\ Balanced /\ ExposureNeverUnderstated

\* The market that an action meets.
MarketSeen(action, seen) ==
    [MarketOf[action.token] EXCEPT !.levels = seen.levels, !.quoteAge = seen.age,
                                   !.resolved = action.token \in resolved]

\* A fill is of an entry that stays within every room, on a token whose market
\* is open.
LEMMA EntryIsWithinRoom ==
  ASSUME FundTyped, NEW a \in Actions, NEW seen \in BooksOf[ActionOf[a].token],
         NEW action, action = ActionOf[a], NEW source, source = SourceOf[action.wallet],
         NEW market, market = MarketSeen(action, seen),
         NEW ev, ev = Evaluate(action, source, market, portfolio, mode),
         NEW f \in ev.fill, f.filled
  PROVE  /\ f.quantity \in Nat /\ f.quantity > 0 /\ f.vwap \in Nat /\ f.fees \in Nat
         /\ f.vwap * f.quantity \in Nat
         /\ f.vwap * f.quantity <= Percent(RiskPolicy.maxPerMarket, portfolio.nav)
                                     - portfolio.byMarket[market.market]
         /\ \A c \in source.cluster :
              f.vwap * f.quantity <= Percent(RiskPolicy.maxCorrelated, portfolio.nav)
                                       - portfolio.byCluster[c]
         /\ f.vwap * f.quantity <= portfolio.cash
         /\ DailyDrawdown(portfolio) < RiskPolicy.drawdownHalt
         /\ action.token \notin resolved /\ market.market \in MarketIds
  <1>q. PICK qualified : qualified = Qualify(action, source, market)
    OBVIOUS
  <1>s. PICK size : size = SizeEntry(portfolio, qualified.limit, qualified.depth,
                                     market.minOrderSize, source.rank, source.rank,
                                     market.market, source.cluster, {})
    OBVIOUS
  <1>f. PICK simulated : simulated = Simulate(action.side, size.quantity, qualified.limit,
                                              market.levels, FeeRate, market.quoteAge)
    OBVIOUS
  <1> DEFINE limit == LimitPrice(action)
  <1>1. /\ action.token \in DOMAIN MarketOf /\ action.wallet \in DOMAIN SourceOf
        /\ action.vwap \in Int
    BY ActionAssumption
  <1>2. /\ market.levels = seen.levels /\ market.resolved = (action.token \in resolved)
        /\ market.market = MarketOf[action.token].market
    <2>1. DOMAIN MarketOf[action.token] = MarketFields
      BY <1>1, ActionAssumption
    <2> QED
      BY <2>1 DEF MarketSeen, MarketFields
  <1>3. IsBookSide(market.levels) /\ market.market \in MarketIds
    BY <1>1, <1>2, ActionAssumption DEF MarketIds, Tokens
  <1>4. qualified.accepted /\ Actionable(size) /\ f = simulated
    <2>1. ev = SizeAndFill(action, source, market, portfolio, mode, qualified)
      BY <1>q DEF Evaluate
    <2>2. f \in SizeAndFill(action, source, market, portfolio, mode, qualified).fill
      BY <2>1
    <2> QED
      BY <1>s, <1>f, <2>2, FillOfADecision
  <1>5. action.side = "BUY" /\ action.token \notin resolved
    BY <1>2, <1>4, <1>q, QualifiedIsAnEntry
  <1>6. limit \in Nat /\ qualified.limit = limit
    BY <1>1, <1>q, LimitIsAPrice DEF Qualify
  <1>7. IsFiniteSet(qualified.depth) /\ qualified.depth \subseteq Int
    <2>1. qualified.depth \subseteq Nat
      BY <1>3, <1>q, DepthIsANumber
    <2> QED
      BY <1>3, <1>q, <2>1, DepthIsANumber
  <1>8. /\ source.rank \subseteq Int /\ IsFiniteSet(source.cluster)
        /\ \A c \in source.cluster : c \in ClusterKeys
    <2>1. \A c, d \in source.cluster : c = d
      BY <1>1, ActionAssumption
    <2>2. CASE source.cluster = {}
      BY <1>1, <2>2, FS_EmptySet, ActionAssumption
    <2>3. CASE source.cluster # {}
      <3>1. PICK c \in source.cluster : source.cluster = {c}
        BY <2>1, <2>3
      <3>2. IsFiniteSet(source.cluster)
        BY <3>1, FS_Singleton
      <3> QED
        BY <1>1, <3>2, ActionAssumption DEF ClusterKeys, Wallets
    <2> QED
      BY <2>2, <2>3
  <1>9. /\ portfolio.nav \in Int /\ portfolio.cash \in Int /\ portfolio.dayStartNav \in Int
        /\ portfolio.byMarket[market.market] \in Int
        /\ portfolio.openOrders[market.market] = 0
        /\ \A c \in source.cluster : portfolio.byCluster[c] \in Int
    BY <1>3, <1>8 DEF FundTyped
  <1>10. /\ size.quantity \in Nat /\ size.quantity > 0 /\ limit * size.quantity \in Nat
         /\ limit * size.quantity <= Percent(RiskPolicy.maxPerMarket, portfolio.nav)
                                       - portfolio.byMarket[market.market]
         /\ \A c \in source.cluster :
              limit * size.quantity <= Percent(RiskPolicy.maxCorrelated, portfolio.nav)
                                         - portfolio.byCluster[c]
         /\ limit * size.quantity <= portfolio.cash
         /\ DailyDrawdown(portfolio) < RiskPolicy.drawdownHalt
    <2>1. size = SizeEntry(portfolio, limit, qualified.depth, market.minOrderSize,
                           source.rank, source.rank, market.market, source.cluster, {})
      BY <1>6, <1>s
    <2>2. PICK depth \in SUBSET Int : depth = qualified.depth /\ IsFiniteSet(depth)
      BY <1>7
    <2>3. PICK m : m = market.market
      OBVIOUS
    <2>4. PICK cluster : cluster = source.cluster
      OBVIOUS
    <2>5. size = SizeEntry(portfolio, limit, depth, market.minOrderSize, source.rank, source.rank,
                           m, cluster, {})
      BY <2>1, <2>2, <2>3, <2>4
    <2> HIDE DEF limit
    <2>6. /\ portfolio.nav \in Int /\ portfolio.cash \in Int /\ portfolio.dayStartNav \in Int
          /\ portfolio.byMarket[m] \in Int /\ portfolio.openOrders[m] = 0
          /\ IsFiniteSet(cluster) /\ \A c \in cluster : portfolio.byCluster[c] \in Int
      BY <1>8, <1>9, <2>3, <2>4
    <2>7. limit \in Nat /\ source.rank \subseteq Int /\ Actionable(size)
      BY <1>4, <1>6, <1>8
    <2>8. /\ size.quantity \in Nat /\ size.quantity > 0 /\ limit * size.quantity \in Nat
          /\ limit * size.quantity
               <= Percent(RiskPolicy.maxPerMarket, portfolio.nav) - portfolio.byMarket[m]
          /\ \A c \in cluster : limit * size.quantity
               <= Percent(RiskPolicy.maxCorrelated, portfolio.nav) - portfolio.byCluster[c]
          /\ limit * size.quantity <= portfolio.cash
          /\ DailyDrawdown(portfolio) < RiskPolicy.drawdownHalt
      BY <2>2, <2>5, <2>6, <2>7, SizeStaysWithinRoom
    <2> QED
      BY <2>3, <2>4, <2>8
  <1>11. f = Simulate("BUY", size.quantity, limit, market.levels, FeeRate, market.quoteAge)
    BY <1>4, <1>5, <1>6, <1>f
  <1>12. /\ f.quantity = size.quantity /\ f.vwap \in Nat /\ f.fees \in Nat
         /\ f.vwap * size.quantity \in Nat
         /\ f.vwap * size.quantity <= limit * size.quantity
    <2> HIDE DEF limit
    <2>1. FeeRate \in Nat
      BY AmountAssumption
    <2> QED
      BY <1>3, <1>6, <1>10, <1>11, <2>1, FillIsWithinLimit
  <1> HIDE DEF limit
  <1>13. /\ Percent(RiskPolicy.maxPerMarket, portfolio.nav) \in Int
         /\ Percent(RiskPolicy.maxCorrelated, portfolio.nav) \in Int
    BY <1>9, PercentIsInteger, DecisionAssumption
  <1>14. PICK spent \in Nat, most \in Nat :
           spent = f.vwap * size.quantity /\ most = limit * size.quantity
    BY <1>10, <1>12
  <1>15. \A room \in Int : most <= room => spent <= room
    BY <1>12, <1>14
  <1>16. /\ spent <= Percent(RiskPolicy.maxPerMarket, portfolio.nav)
                       - portfolio.byMarket[market.market]
         /\ \A c \in source.cluster :
              spent <= Percent(RiskPolicy.maxCorrelated, portfolio.nav) - portfolio.byCluster[c]
         /\ spent <= portfolio.cash
    BY <1>9, <1>10, <1>13, <1>14, <1>15
  <1> QED
    BY <1>3, <1>5, <1>10, <1>12, <1>14, <1>16

-----------------------------------------------------------------------------
(* Sums over lots.                                                         *)

\* What is known of the lots of a table, for what is summed over them.
Priced(ls, D) ==
    /\ IsFiniteSet(D) /\ DOMAIN ls = D
    /\ \A i \in D : /\ ls[i].entry \in Nat /\ ls[i].open \in Nat /\ ls[i].opened \in Nat
                    /\ ls[i].pnl \in Int

\* What lots cost and have returned is a number.
LEMMA LotsAreNumbers ==
  ASSUME NEW ls, NEW D, Priced(ls, D)
  PROVE  /\ DOMAIN Returned(ls) = D
         /\ \A i \in D : /\ CostBasis(ls[i]) \in Nat /\ Returned(ls)[i] \in Int
                         /\ Returned(ls)[i] = ReturnOf(ls[i])
  <1>1. \A i \in D : ls[i].entry * ls[i].open \in Nat
    BY ProductsGrow DEF Priced
  <1>2. \A i \in D : ls[i].entry * (ls[i].opened - ls[i].open) \in Int
    <2>1. \A a \in Nat, b \in Int : a * b \in Int
      OBVIOUS
    <2>2. \A i \in D : ls[i].opened - ls[i].open \in Int
      BY DEF Priced
    <2> QED
      BY <2>1, <2>2 DEF Priced
  <1> QED
    BY <1>1, <1>2 DEF CostBasis, Returned, ReturnOf, Priced

\* The cost of what is open of some lots.
LEMMA ExposureIsASum ==
  ASSUME NEW ls, NEW D, Priced(ls, D), NEW ids \in SUBSET D
  PROVE  /\ ExposureOf(ls, ids) = SumFunctionOnSet([i \in D |-> CostBasis(ls[i])],
                                                   {i \in ids : ls[i].status = "open"})
         /\ IsFiniteSet({i \in ids : ls[i].status = "open"})
         /\ ExposureOf(ls, ids) \in Nat
  <1> DEFINE S == {i \in ids : ls[i].status = "open"}
             cost == [i \in D |-> CostBasis(ls[i])]
  <1>1. ExposureOf(ls, ids) = SumFunctionOnSet(cost, S)
    BY DEF ExposureOf, Priced
  <1>2. S \subseteq D /\ \A i \in S : cost[i] \in Nat
    BY LotsAreNumbers
  <1> HIDE DEF S, cost
  <1>3. IsFiniteSet(S)
    BY <1>2, FS_Subset DEF Priced
  <1>4. SumFunctionOnSet(cost, S) \in Nat
    BY <1>2, <1>3, SumIsNatural
  <1> QED
    BY <1>1, <1>3, <1>4 DEF S, cost

\* Lots of which less is open cost no more.
LEMMA ExposureShrinks ==
  ASSUME NEW ls, NEW ls2, NEW D, Priced(ls, D), Priced(ls2, D),
         \A i \in D : /\ ls2[i].entry = ls[i].entry /\ ls2[i].open <= ls[i].open
                      /\ ls2[i].status = "open" => ls[i].status = "open",
         NEW ids \in SUBSET D
  PROVE  ExposureOf(ls2, ids) <= ExposureOf(ls, ids)
  <1> DEFINE S == {i \in ids : ls[i].status = "open"}
             S2 == {i \in ids : ls2[i].status = "open"}
             cost == [i \in D |-> CostBasis(ls[i])]
             cost2 == [i \in D |-> CostBasis(ls2[i])]
  <1>1. /\ ExposureOf(ls, ids) = SumFunctionOnSet(cost, S) /\ IsFiniteSet(S)
        /\ ExposureOf(ls2, ids) = SumFunctionOnSet(cost2, S2) /\ IsFiniteSet(S2)
    BY ExposureIsASum
  <1>2. S2 \in SUBSET S /\ S \subseteq D
    OBVIOUS
  <1>3. \A i \in D : cost[i] \in Nat /\ cost2[i] \in Nat /\ cost2[i] <= cost[i]
    <2> TAKE i \in D
    <2>1. cost[i] \in Nat /\ cost2[i] \in Nat
      BY LotsAreNumbers
    <2>2. PICK a \in Nat, b \in Nat, c \in Nat :
            a = ls[i].entry /\ b = ls2[i].open /\ c = ls[i].open /\ b <= c
      BY DEF Priced
    <2>3. a * b <= a * c
      BY <2>2, ProductsGrow
    <2>4. cost[i] = a * c /\ cost2[i] = a * b
      BY <2>2 DEF CostBasis
    <2> QED
      BY <2>1, <2>3, <2>4
  <1> HIDE DEF S, S2, cost, cost2
  <1>4. SumFunctionOnSet(cost2, S2) <= SumFunctionOnSet(cost, S2)
    <2>1. \A i \in S2 : cost2[i] \in Int /\ cost[i] \in Int /\ cost2[i] <= cost[i]
      BY <1>2, <1>3
    <2> QED
      BY <1>1, <2>1, SumIsMonotone
  <1>5. SumFunctionOnSet(cost, S2) <= SumFunctionOnSet(cost, S)
    <2>1. \A i \in S : cost[i] \in Nat
      BY <1>2, <1>3
    <2> QED
      BY <1>1, <1>2, <2>1, PartIsAtMostWhole
  <1>6. /\ SumFunctionOnSet(cost2, S2) \in Int /\ SumFunctionOnSet(cost, S2) \in Int
        /\ SumFunctionOnSet(cost, S) \in Int
    <2>1. /\ \A i \in S : cost[i] \in Int
          /\ \A i \in S2 : cost[i] \in Int /\ cost2[i] \in Int
      BY <1>2, <1>3
    <2> QED
      BY <1>1, <2>1, SumIsInteger
  <1> QED
    BY <1>1, <1>4, <1>5, <1>6

\* A lot more costs what it costs, where it counts.
LEMMA ExposureGains ==
  ASSUME NEW ls, NEW ls2, NEW D, NEW n, n \notin D, Priced(ls, D), Priced(ls2, D \cup {n}),
         \A i \in D : ls2[i] = ls[i], ls2[n].status = "open", NEW ids \in SUBSET D
  PROVE  /\ ExposureOf(ls2, ids) = ExposureOf(ls, ids)
         /\ ExposureOf(ls2, ids \cup {n}) = ExposureOf(ls, ids) + CostBasis(ls2[n])
  <1> DEFINE S == {i \in ids : ls[i].status = "open"}
             cost == [i \in D |-> CostBasis(ls[i])]
             cost2 == [i \in D \cup {n} |-> CostBasis(ls2[i])]
  <1>1. /\ ExposureOf(ls, ids) = SumFunctionOnSet(cost, S) /\ IsFiniteSet(S)
    BY ExposureIsASum
  <1>2. ExposureOf(ls2, ids) = SumFunctionOnSet(cost2, S)
    <2>1. {i \in ids : ls2[i].status = "open"} = S
      OBVIOUS
    <2>2. ids \in SUBSET (D \cup {n})
      OBVIOUS
    <2> QED
      BY <2>1, <2>2, ExposureIsASum
  <1>3. ExposureOf(ls2, ids \cup {n}) = SumFunctionOnSet(cost2, S \cup {n})
    <2>1. {i \in ids \cup {n} : ls2[i].status = "open"} = S \cup {n}
      OBVIOUS
    <2>2. ids \cup {n} \in SUBSET (D \cup {n})
      OBVIOUS
    <2> QED
      BY <2>1, <2>2, ExposureIsASum
  <1>4. /\ \A i \in S : cost[i] \in Int /\ cost2[i] = cost[i]
        /\ cost2[n] \in Int /\ cost2[n] = CostBasis(ls2[n]) /\ n \notin S
    <2>1. /\ \A i \in D : CostBasis(ls[i]) \in Nat
          /\ CostBasis(ls2[n]) \in Nat
      BY LotsAreNumbers
    <2> QED
      BY <2>1
  <1> HIDE DEF S, cost, cost2
  <1>5. SumFunctionOnSet(cost2, S) = SumFunctionOnSet(cost, S)
    BY <1>1, <1>4, SumsAgree
  <1>6. SumFunctionOnSet(cost2, S \cup {n}) = SumFunctionOnSet(cost, S) + cost2[n]
    <2>1. n \notin S /\ cost2[n] \in Int /\ IsFiniteSet(S)
      BY <1>1, <1>4
    <2>2. \A i \in S : cost[i] \in Int /\ cost2[i] = cost[i]
      BY <1>4
    <2> QED
      BY <2>1, <2>2, SumGainsOne
  <1> QED
    BY <1>1, <1>2, <1>3, <1>4, <1>5, <1>6

\* Returns change by what each lot gains.
LEMMA ReturnsGain ==
  ASSUME NEW ls, NEW ls2, NEW D, Priced(ls, D), Priced(ls2, D), NEW gain,
         \A i \in D : gain[i] \in Int /\ Returned(ls2)[i] = Returned(ls)[i] + gain[i]
  PROVE  /\ SumFunction(Returned(ls2)) = SumFunction(Returned(ls)) + SumFunctionOnSet(gain, D)
         /\ SumFunctionOnSet(gain, D) \in Int
  <1>1. /\ SumFunction(Returned(ls)) = SumFunctionOnSet(Returned(ls), D)
        /\ SumFunction(Returned(ls2)) = SumFunctionOnSet(Returned(ls2), D)
    BY LotsAreNumbers DEF SumFunction
  <1>2. \A i \in D : /\ Returned(ls)[i] \in Int /\ gain[i] \in Int
                     /\ Returned(ls2)[i] = Returned(ls)[i] + gain[i]
    BY LotsAreNumbers
  <1>3. IsFiniteSet(D)
    BY DEF Priced
  <1>4. SumFunctionOnSet(Returned(ls2), D)
          = SumFunctionOnSet(Returned(ls), D) + SumFunctionOnSet(gain, D)
    BY <1>2, <1>3, SumIsAdditive
  <1>5. SumFunctionOnSet(gain, D) \in Int
    BY <1>2, <1>3, SumIsInteger
  <1> QED
    BY <1>1, <1>4, <1>5

-----------------------------------------------------------------------------
(* The steps of the book.                                                  *)

\* The lots of the table are priced.
LEMMA TableIsPriced ==
  ASSUME Tables, LotsTyped
  PROVE  Priced(lots, DOMAIN lots)
  <1>1. DOMAIN lots = 1..Len(lots) /\ 1 \in Int /\ Len(lots) \in Int
    BY DEF Tables
  <1>2. IsFiniteSet(DOMAIN lots)
    BY <1>1, FS_Interval
  <1> QED
    BY <1>2 DEF Priced, LotsTyped, LotTyped

\* What an exit and a settlement do to a lot: less is open, and the rest stays.
LotShrinks(lot, lot2) ==
    /\ lot2.entry = lot.entry /\ lot2.opened = lot.opened
    /\ lot2.openedAt = lot.openedAt /\ lot2.market = lot.market
    /\ ClusterKey(lot2) = ClusterKey(lot)
    /\ lot2.open \in Nat /\ lot2.open <= lot.open
    /\ lot2.status = "open" <=> lot2.open > 0
    /\ lot2.pnl \in Int /\ lot2.fees \in Int

LotsShrink == DOMAIN lots' = DOMAIN lots /\ \A i \in DOMAIN lots : LotShrinks(lots[i], lots'[i])

\* Lots that shrink stay typed, and the exposure that is kept still covers them.
LEMMA ShrinkingHolds ==
  ASSUME Tables, Tables', BookHolds, LotsShrink, UNCHANGED portfolio,
         plan' = plan \/ plan' = NoPlan
  PROVE  LotsTyped' /\ FundTyped' /\ PlanTyped' /\ ExposureNeverUnderstated'
         /\ Priced(lots, DOMAIN lots) /\ Priced(lots', DOMAIN lots)
  <1>1. LotsTyped /\ LotsTyped'
    <2>1. \A lot, lot2 : LotTyped(lot) /\ LotShrinks(lot, lot2) => LotTyped(lot2)
      BY DEF LotTyped, LotShrinks
    <2>2. \A i \in DOMAIN lots : LotTyped(lots'[i])
      BY <2>1 DEF BookHolds, LotsTyped, LotsShrink
    <2>3. DOMAIN lots' = DOMAIN lots
      BY DEF LotsShrink
    <2>4. LotsTyped
      BY DEF BookHolds
    <2> QED
      BY <2>2, <2>3, <2>4 DEF LotsTyped, LotTyped
  <1>2. FundTyped'
    BY DEF BookHolds, FundTyped
  <1>3. PlanTyped'
    <2>1. DOMAIN lots' = DOMAIN lots /\ PlanTyped
      BY DEF LotsShrink, BookHolds
    <2>2. DOMAIN NoPlan.legs = {}
      BY DEF NoPlan
    <2> QED
      BY <2>1, <2>2 DEF PlanTyped
  <1>4. Priced(lots, DOMAIN lots) /\ Priced(lots', DOMAIN lots)
    <2>1. Priced(lots, DOMAIN lots) /\ IsFiniteSet(DOMAIN lots)
      BY <1>1, TableIsPriced DEF Priced
    <2> QED
      BY <1>1, <2>1 DEF Priced, LotsTyped, LotTyped, LotsShrink
  <1>5. \A ids \in SUBSET (DOMAIN lots) : ExposureOf(lots', ids) <= ExposureOf(lots, ids)
    <2>1. PICK ls, ls2, D : ls = lots /\ ls2 = lots' /\ D = DOMAIN lots
      OBVIOUS
    <2>2. Priced(ls, D) /\ Priced(ls2, D)
      BY <1>4, <2>1
    <2>3. \A i \in D : /\ ls2[i].entry = ls[i].entry /\ ls2[i].open <= ls[i].open
                       /\ ls2[i].status = "open" => ls[i].status = "open"
      BY <1>1, <2>1 DEF LotsShrink, LotShrinks, LotsTyped, LotTyped
    <2>4. \A ids \in SUBSET D : ExposureOf(ls2, ids) <= ExposureOf(ls, ids)
      BY <2>2, <2>3, ExposureShrinks
    <2> QED
      BY <2>1, <2>4
  <1>6. \A ids \in SUBSET (DOMAIN lots) : ExposureOf(lots, ids) \in Nat /\ ExposureOf(lots', ids) \in Nat
    BY <1>4, ExposureIsASum
  <1>7. ASSUME NEW m \in MarketIds
        PROVE  ExposureByMarket(lots', m) <= portfolio'.byMarket[m]
    <2> DEFINE ids == {i \in DOMAIN lots : lots[i].market = m}
    <2>1. ids \in SUBSET (DOMAIN lots) /\ {i \in DOMAIN lots' : lots'[i].market = m} = ids
      BY DEF LotsShrink, LotShrinks
    <2>2. /\ ExposureByMarket(lots', m) = ExposureOf(lots', ids)
          /\ ExposureByMarket(lots, m) = ExposureOf(lots, ids)
      BY <2>1 DEF ExposureByMarket
    <2>3. /\ ExposureByMarket(lots, m) <= portfolio.byMarket[m]
          /\ portfolio.byMarket[m] \in Int /\ portfolio'.byMarket[m] = portfolio.byMarket[m]
      BY DEF BookHolds, ExposureNeverUnderstated, FundTyped
    <2> HIDE DEF ids
    <2> QED
      BY <1>5, <1>6, <2>1, <2>2, <2>3
  <1>8. ASSUME NEW k \in ClusterKeys
        PROVE  ExposureByCluster(lots', k) <= portfolio'.byCluster[k]
    <2> DEFINE ids == {i \in DOMAIN lots : ClusterKey(lots[i]) = k}
    <2>1. ids \in SUBSET (DOMAIN lots) /\ {i \in DOMAIN lots' : ClusterKey(lots'[i]) = k} = ids
      BY DEF LotsShrink, LotShrinks
    <2>2. /\ ExposureByCluster(lots', k) = ExposureOf(lots', ids)
          /\ ExposureByCluster(lots, k) = ExposureOf(lots, ids)
      BY <2>1 DEF ExposureByCluster
    <2>3. /\ ExposureByCluster(lots, k) <= portfolio.byCluster[k]
          /\ portfolio.byCluster[k] \in Int /\ portfolio'.byCluster[k] = portfolio.byCluster[k]
      BY DEF BookHolds, ExposureNeverUnderstated, FundTyped
    <2> HIDE DEF ids
    <2> QED
      BY <1>5, <1>6, <2>1, <2>2, <2>3
  <1>9. ExposureNeverUnderstated'
    BY <1>7, <1>8 DEF ExposureNeverUnderstated
  <1> QED
    BY <1>1, <1>2, <1>3, <1>4, <1>9

\* What an exit sells of a plan is a number of units, at most what is open.
LEMMA SoldIsOpen ==
  ASSUME Tables, BookHolds
  PROVE  /\ TotalQuantity(plan) \in Int
         /\ \A fees \in Int : FeePerUnit(plan, fees) \in Int
         /\ \A i \in DOMAIN lots :
              SoldOf(lots, plan, i) \in Nat /\ SoldOf(lots, plan, i) <= lots[i].open
  <1>1. \A i \in DOMAIN lots :
          SoldOf(lots, plan, i) \in Nat /\ SoldOf(lots, plan, i) <= lots[i].open
    BY DEF BookHolds, LotsTyped, LotTyped, PlanTyped, SoldOf, Lesser
  <1>2. TotalQuantity(plan) \in Int
    <2>1. IsFiniteSet(DOMAIN plan.legs)
      <3>1. IsFiniteSet(DOMAIN lots) /\ DOMAIN plan.legs \subseteq DOMAIN lots
        BY TableIsPriced DEF BookHolds, PlanTyped, Priced
      <3> QED
        BY <3>1, FS_Subset
    <2>2. \A i \in DOMAIN plan.legs : plan.legs[i] \in Int
      BY DEF BookHolds, PlanTyped
    <2> QED
      BY <2>1, <2>2, SumIsInteger DEF TotalQuantity, SumFunction
  <1>3. ASSUME NEW fees \in Int PROVE FeePerUnit(plan, fees) \in Int
    <2>1. PICK t \in Int : t = TotalQuantity(plan)
      BY <1>2
    <2>2. t > 0 => fees \div t \in Int
      OBVIOUS
    <2> QED
      BY <2>1, <2>2 DEF FeePerUnit
  <1> QED
    BY <1>1, <1>2, <1>3

\* What an exit makes of one lot.
AfterSale(lot, sold, price, legFees) ==
    IF sold <= 0 THEN lot
    ELSE [lot EXCEPT !.open = @ - sold,
                     !.pnl = @ + price * sold - lot.entry * sold - legFees,
                     !.fees = @ + legFees,
                     !.status = IF lot.open - sold <= 0 THEN "closed" ELSE @]

\* What the sale brings in after its fees.
Brings(gain, price, fee, sold, legFees) == gain = (price - fee) * sold /\ legFees = fee * sold

\* The returns of a lot change by so much.
Gains(lot, lot2, gain) == ReturnOf(lot2) = ReturnOf(lot) + gain

\* A sale keeps what the lot is, and adds to its returns what it brings in.
LEMMA ExitOfALot ==
  ASSUME NEW lot, LotTyped(lot), DOMAIN lot = LotFields,
         NEW sold \in Nat, sold <= lot.open, NEW price \in Int, NEW fee \in Int,
         NEW legFees \in Int, NEW gain \in Int, Brings(gain, price, fee, sold, legFees),
         NEW lot2, lot2 = AfterSale(lot, sold, price, legFees)
  PROVE  LotShrinks(lot, lot2) /\ Gains(lot, lot2, gain)
  <1>0. /\ lot.entry \in Nat /\ lot.opened \in Nat /\ lot.open \in Nat
        /\ lot.pnl \in Int /\ lot.fees \in Int
        /\ lot.status = "open" <=> lot.open > 0
    BY DEF LotTyped
  <1>1. /\ price * sold \in Int /\ lot.entry * sold \in Int /\ (price - fee) * sold \in Int
        /\ gain = (price - fee) * sold /\ legFees = fee * sold
    BY <1>0 DEF Brings
  <1>2. CASE sold <= 0
    <2>1. sold = 0 /\ lot2 = lot
      BY <1>2 DEF AfterSale
    <2>2. gain = 0
      BY <1>1, <2>1
    <2>3. lot.entry * (lot.opened - lot.open) \in Int /\ lot.pnl \in Int
      BY <1>0
    <2>4. ReturnOf(lot2) = ReturnOf(lot) + gain
      BY <2>1, <2>2, <2>3 DEF ReturnOf
    <2> QED
      BY <1>0, <2>1, <2>4 DEF LotShrinks, Gains
  <1>3. CASE sold > 0
    <2>1. lot2 = [lot EXCEPT !.open = @ - sold,
                             !.pnl = @ + price * sold - lot.entry * sold - legFees,
                             !.fees = @ + legFees,
                             !.status = IF lot.open - sold <= 0 THEN "closed" ELSE @]
      BY <1>3 DEF AfterSale
    <2>2. /\ DOMAIN lot2 = LotFields
          /\ lot2.entry = lot.entry /\ lot2.opened = lot.opened /\ lot2.openedAt = lot.openedAt
          /\ lot2.market = lot.market /\ lot2.cluster = lot.cluster /\ lot2.wallet = lot.wallet
          /\ lot2.open = lot.open - sold
          /\ lot2.pnl = lot.pnl + price * sold - lot.entry * sold - legFees
          /\ lot2.fees = lot.fees + legFees
          /\ lot2.status = IF lot.open - sold <= 0 THEN "closed" ELSE lot.status
      BY <2>1 DEF LotFields
    <2>3. lot2.open \in Nat /\ lot2.open <= lot.open /\ lot2.fees \in Int
      <3>1. lot2.open \in Nat /\ lot2.open <= lot.open
        BY <1>0, <2>2
      <3>2. lot2.fees \in Int
        BY <1>0, <2>2
      <3> QED
        BY <3>1, <3>2
    <2>6. lot2.pnl \in Int
      <3>1. PICK x \in Int, y \in Int, n \in Int :
              x = price * sold /\ y = lot.entry * sold /\ n = lot.pnl
        BY <1>0, <1>1
      <3>2. lot2.pnl = n + x - y - legFees
        BY <2>2, <3>1
      <3> QED
        BY <3>2
    <2>4. lot2.status = "open" <=> lot2.open > 0
      BY <1>0, <1>3, <2>2
    <2>5. ReturnOf(lot2) = ReturnOf(lot) + gain
      <3>1. \A a, o, p, s, n, x, f \in Int :
              (n + x * s - a * s - f * s) + a * (o - (p - s)) = n + a * (o - p) + (x - f) * s
        OBVIOUS
      <3>2. ReturnOf(lot2)
              = (lot.pnl + price * sold - lot.entry * sold - fee * sold)
                  + lot.entry * (lot.opened - (lot.open - sold))
        BY <1>1, <2>2 DEF ReturnOf
      <3>3. PICK a \in Int, o \in Int, p \in Int, n \in Int :
              a = lot.entry /\ o = lot.opened /\ p = lot.open /\ n = lot.pnl
        BY <1>0
      <3>4. (n + price * sold - a * sold - fee * sold) + a * (o - (p - sold))
              = n + a * (o - p) + (price - fee) * sold
        BY <3>1
      <3>5. ReturnOf(lot) + gain = n + a * (o - p) + (price - fee) * sold
        BY <1>1, <3>3 DEF ReturnOf
      <3> QED
        BY <3>2, <3>3, <3>4, <3>5
    <2>7. ClusterKey(lot2) = ClusterKey(lot)
      BY <2>2 DEF ClusterKey
    <2> QED
      BY <2>2, <2>3, <2>4, <2>5, <2>6, <2>7 DEF LotShrinks, Gains
  <1> QED
    BY <1>2, <1>3

\* An exit pays for what it sells of each lot, and for nothing else.
LEMMA ApplyTheExitHolds ==
  ASSUME Tables, Tables', LotsAreLinked, BookHolds, NEW price \in ExitPrices,
         ApplyTheExit(price)
  PROVE  BookHolds'
  <1> DEFINE exitFees == ExitFeePerUnit * TotalQuantity(plan)
             fee == FeePerUnit(plan, exitFees)
             gain == [i \in DOMAIN lots |-> (price - fee) * SoldOf(lots, plan, i)]
  <1>1. price \in Int /\ exitFees \in Int
    BY SoldIsOpen, AmountAssumption
  <1>2. fee \in Int
    BY <1>1, SoldIsOpen
  <1>3. /\ lots' = ApplyExit(lots, plan, price, exitFees) /\ plan' = NoPlan
        /\ received' = received + SumFunction(gain) /\ UNCHANGED portfolio
    BY DEF ApplyTheExit, Proceeds
  <1> HIDE DEF fee
  <1>4. DOMAIN lots' = DOMAIN lots
    BY <1>3 DEF ApplyExit
  <1>5. ASSUME NEW i \in DOMAIN lots
        PROVE  /\ LotShrinks(lots[i], lots'[i]) /\ gain[i] \in Int
               /\ Gains(lots[i], lots'[i], gain[i])
    <2>1. PICK lot, lot2, sold : lot = lots[i] /\ lot2 = lots'[i] /\ sold = SoldOf(lots, plan, i)
      OBVIOUS
    <2>2. sold \in Nat /\ sold <= lot.open
      BY <2>1, SoldIsOpen
    <2>3. DOMAIN lot = LotFields /\ LotTyped(lot)
      BY <2>1 DEF LotsAreLinked, BookHolds, LotsTyped
    <2>4. PICK legFees \in Int : legFees = fee * sold
      BY <1>2, <2>2
    <2>5. lot2 = AfterSale(lot, sold, price, legFees)
      <3> HIDE DEF exitFees
      <3> QED
        BY <1>3, <2>1, <2>4, Zenon DEF ApplyExit, AfterSale, fee
    <2>6. gain[i] = (price - fee) * sold
      BY <2>1
    <2> HIDE DEF gain
    <2>7. gain[i] \in Int /\ Brings(gain[i], price, fee, sold, legFees)
      BY <1>1, <1>2, <2>2, <2>4, <2>6 DEF Brings
    <2>8. LotShrinks(lot, lot2) /\ Gains(lot, lot2, gain[i])
      <3>1. PICK r \in Int, x \in Int : r = fee /\ x = gain[i]
        BY <1>2, <2>7
      <3>2. price \in Int /\ Brings(x, price, r, sold, legFees)
        BY <1>1, <2>7, <3>1
      <3> HIDE DEF exitFees
      <3>3. LotShrinks(lot, lot2) /\ Gains(lot, lot2, x)
        BY <2>2, <2>3, <2>5, <3>2, ExitOfALot
      <3> QED
        BY <3>1, <3>3
    <2> QED
      BY <2>1, <2>7, <2>8
  <1>6. LotsShrink
    BY <1>4, <1>5 DEF LotsShrink
  <1>7. /\ LotsTyped' /\ FundTyped' /\ PlanTyped' /\ ExposureNeverUnderstated'
        /\ Priced(lots, DOMAIN lots) /\ Priced(lots', DOMAIN lots)
    BY <1>3, <1>6, ShrinkingHolds
  <1>8. Balanced'
    <2>1. \A i \in DOMAIN lots : gain[i] \in Int /\ Returned(lots')[i] = Returned(lots)[i] + gain[i]
      BY <1>5, <1>7, LotsAreNumbers DEF Gains
    <2>2. SumFunction(gain) = SumFunctionOnSet(gain, DOMAIN lots)
      BY DEF SumFunction
    <2> HIDE DEF gain
    <2>3. /\ SumFunction(Returned(lots')) = SumFunction(Returned(lots)) + SumFunction(gain)
          /\ SumFunction(gain) \in Int
      BY <1>7, <2>1, <2>2, ReturnsGain
    <2> QED
      BY <1>3, <2>3 DEF BookHolds, Balanced
  <1> QED
    BY <1>7, <1>8 DEF BookHolds

\* A settlement pays the price for all that is open on the token.
LEMMA SettleHolds ==
  ASSUME Tables, Tables', LotsAreLinked, BookHolds, NEW token, NEW price \in Int,
         Settle(token, price)
  PROVE  BookHolds'
  <1> DEFINE S == {i \in DOMAIN lots : Settles(lots[i], token)}
             open == [i \in DOMAIN lots |-> lots[i].open]
             gain == [i \in DOMAIN lots |-> IF i \in S THEN price * open[i] ELSE 0]
  <1>1. /\ lots' = SettleLots(lots, token, price) /\ plan' = plan
        /\ received' = received + price * SumFunctionOnSet(open, S) /\ UNCHANGED portfolio
    BY DEF Settle, Held
  <1>2. DOMAIN lots' = DOMAIN lots
    BY <1>1 DEF SettleLots
  <1>3. \A i \in DOMAIN lots :
          /\ DOMAIN lots[i] = LotFields /\ lots[i].entry \in Nat /\ lots[i].opened \in Nat
          /\ lots[i].open \in Nat /\ lots[i].pnl \in Int /\ lots[i].fees \in Int
          /\ lots[i].status = "open" <=> lots[i].open > 0
    BY DEF LotsAreLinked, BookHolds, LotsTyped, LotTyped
  <1>4. ASSUME NEW i \in DOMAIN lots
        PROVE  /\ LotShrinks(lots[i], lots'[i]) /\ gain[i] \in Int
               /\ Gains(lots[i], lots'[i], gain[i])
    <2>1. PICK lot, lot2 : lot = lots[i] /\ lot2 = lots'[i]
      OBVIOUS
    <2>2. PICK a \in Nat, o \in Nat, p \in Nat, n \in Int :
            a = lot.entry /\ o = lot.opened /\ p = lot.open /\ n = lot.pnl
      BY <1>3, <2>1
    <2>3. a * (o - p) \in Int /\ price * p \in Int /\ (price - a) * p \in Int /\ a * o \in Int
      BY <2>2
    <2>4. CASE i \in S
      <3>1. lot2 = [lot EXCEPT !.pnl = @ + (price - lot.entry) * lot.open, !.open = 0,
                               !.status = "settled"]
        BY <1>1, <2>1, <2>4 DEF SettleLots
      <3>2. /\ lot2.entry = a /\ lot2.opened = o /\ lot2.openedAt = lot.openedAt
            /\ lot2.market = lot.market /\ lot2.cluster = lot.cluster
            /\ lot2.wallet = lot.wallet /\ lot2.fees = lot.fees
            /\ lot2.open = 0 /\ lot2.status = "settled" /\ lot2.pnl = n + (price - a) * p
        BY <1>3, <2>1, <2>2, <3>1 DEF LotFields
      <3>3. gain[i] = price * p
        BY <2>1, <2>2, <2>4
      <3>4. n + (price - a) * p + a * (o - 0) = n + a * (o - p) + price * p
        BY <2>2
      <3>5. ClusterKey(lot2) = ClusterKey(lot)
        BY <3>2 DEF ClusterKey
      <3> HIDE DEF gain, S, open
      <3>6. Gains(lot, lot2, gain[i])
        BY <2>2, <3>2, <3>3, <3>4 DEF ReturnOf, Gains
      <3>7. lot2.pnl \in Int /\ gain[i] \in Int
        BY <2>2, <2>3, <3>2, <3>3
      <3> QED
        BY <1>3, <2>1, <2>2, <3>2, <3>5, <3>6, <3>7 DEF LotShrinks
    <2>5. CASE i \notin S
      <3>1. lots'[i] = lots[i] /\ gain[i] = 0
        BY <1>1, <2>1, <2>5 DEF SettleLots
      <3> HIDE DEF gain, S, open
      <3>2. n + a * (o - p) = n + a * (o - p) + 0
        BY <2>3
      <3>3. Gains(lots[i], lots'[i], gain[i])
        BY <2>1, <2>2, <3>1, <3>2 DEF ReturnOf, Gains
      <3>4. LotShrinks(lots[i], lots'[i])
        BY <1>3, <3>1 DEF LotShrinks
      <3> QED
        BY <3>1, <3>3, <3>4
    <2> QED
      BY <2>4, <2>5
  <1>5. LotsShrink
    BY <1>2, <1>4 DEF LotsShrink
  <1>6. /\ LotsTyped' /\ FundTyped' /\ PlanTyped' /\ ExposureNeverUnderstated'
        /\ Priced(lots, DOMAIN lots) /\ Priced(lots', DOMAIN lots)
    BY <1>1, <1>5, ShrinkingHolds
  <1>7. SumFunctionOnSet(gain, DOMAIN lots) = price * SumFunctionOnSet(open, S)
    <2>1. /\ S \in SUBSET (DOMAIN lots) /\ \A i \in DOMAIN lots : gain[i] \in Int
          /\ \A i \in DOMAIN lots \ S : gain[i] = 0
          /\ \A i \in S : open[i] \in Int /\ gain[i] = price * open[i]
      BY <1>3, <1>4
    <2> HIDE DEF gain, S, open
    <2>2. IsFiniteSet(DOMAIN lots) /\ IsFiniteSet(S)
      BY <1>6, <2>1, FS_Subset DEF Priced
    <2>3. SumFunctionOnSet(gain, DOMAIN lots) = SumFunctionOnSet(gain, S)
      BY <2>1, <2>2, SumSkipsZeros
    <2> QED
      BY <2>1, <2>2, <2>3, SumIsScaled
  <1>8. Balanced'
    <2>1. \A i \in DOMAIN lots : gain[i] \in Int /\ Returned(lots')[i] = Returned(lots)[i] + gain[i]
      BY <1>4, <1>6, LotsAreNumbers DEF Gains
    <2> HIDE DEF gain, S, open
    <2>2. /\ SumFunction(Returned(lots'))
               = SumFunction(Returned(lots)) + SumFunctionOnSet(gain, DOMAIN lots)
          /\ SumFunctionOnSet(gain, DOMAIN lots) \in Int
      BY <1>6, <2>1, ReturnsGain
    <2> QED
      BY <1>1, <1>7, <2>2 DEF BookHolds, Balanced
  <1> QED
    BY <1>6, <1>8 DEF BookHolds

\* A lot that is opened for `cost`: nothing of it is sold, and what it is
\* opened at keeps its market, its cluster and the cash within their rooms.
NewLot(lot, cost) ==
    /\ LotTyped(lot) /\ lot.status = "open" /\ lot.pnl = 0 /\ lot.open = lot.opened
    /\ lot.fees \in Nat /\ CostBasis(lot) \in Nat /\ cost = CostBasis(lot) + lot.fees
    /\ CostBasis(lot) <= Percent(RiskPolicy.maxPerMarket, portfolio.nav)
                           - portfolio.byMarket[lot.market]
    /\ \A c \in lot.cluster :
         /\ c = ClusterKey(lot)
         /\ CostBasis(lot) <= Percent(RiskPolicy.maxCorrelated, portfolio.nav)
                                - portfolio.byCluster[c]
    /\ CostBasis(lot) <= portfolio.cash
    /\ DailyDrawdown(portfolio) < RiskPolicy.drawdownHalt
    /\ lot.token \notin resolved

Charged(fund, market, key, cost) ==
    [fund EXCEPT !.cash = @ - cost, !.byMarket[market] = @ + cost, !.byCluster[key] = @ + cost]

Opens(lot, cost) ==
    lots' = Append(lots, lot) /\ portfolio' = Charged(portfolio, lot.market, ClusterKey(lot), cost)

\* What a fill costs before its fees.
Spends(f, spent) ==
    /\ f.quantity \in Nat /\ f.quantity > 0 /\ f.vwap \in Nat /\ f.fees \in Nat
    /\ spent \in Nat /\ spent = f.vwap * f.quantity

\* So much is within the rooms of a market and a cluster, on a day that is open to entries.
Affordable(spent, market, cluster) ==
    /\ spent <= Percent(RiskPolicy.maxPerMarket, portfolio.nav) - portfolio.byMarket[market]
    /\ \A c \in cluster : spent <= Percent(RiskPolicy.maxCorrelated, portfolio.nav)
                                    - portfolio.byCluster[c]
    /\ spent <= portfolio.cash /\ DailyDrawdown(portfolio) < RiskPolicy.drawdownHalt

\* The lot that is opened for a fill.
LotOfFill(lot, f, wallet, cluster, market, token, day) ==
    \E n, kind : lot = OpenLot(n, kind, wallet, cluster, market, token, day, f.vwap, f.quantity,
                               f.fees)

\* Folding it into the portfolio charges its cost.
Costs(lot, f, cost) ==
    ApplyToPortfolio(portfolio, lot, f) = Charged(portfolio, lot.market, ClusterKey(lot), cost)

\* The lot of a fill that is within the rooms is such a lot.
LEMMA FillOpensALot ==
  ASSUME NEW f, NEW wallet, NEW cluster, NEW market, NEW token, NEW day, NEW spent, NEW lot,
         wallet \in DOMAIN SourceOf, cluster = SourceOf[wallet].cluster,
         market \in MarketIds, token \notin resolved, day \in Nat,
         Spends(f, spent), Affordable(spent, market, cluster),
         LotOfFill(lot, f, wallet, cluster, market, token, day)
  PROVE  NewLot(lot, spent + f.fees) /\ Costs(lot, f, spent + f.fees)
  <1>1. /\ lot.wallet = wallet /\ lot.cluster = cluster /\ lot.market = market
        /\ lot.token = token /\ lot.openedAt = day /\ lot.entry = f.vwap
        /\ lot.opened = f.quantity /\ lot.open = f.quantity /\ lot.fees = f.fees
        /\ lot.pnl = 0 /\ lot.status = "open"
    BY DEF OpenLot, LotOfFill
  <1>2. \A c \in cluster : c = ClusterKey(lot)
    <2>1. \A c, d \in cluster : c = d
      BY ActionAssumption
    <2> QED
      BY <1>1, <2>1 DEF ClusterKey
  <1>3. ClusterKey(lot) \in ClusterKeys
    <2>1. CASE cluster = {}
      BY <1>1, <2>1 DEF ClusterKey, ClusterKeys, Wallets
    <2>2. CASE cluster # {}
      <3>1. ClusterKey(lot) \in cluster
        BY <1>2, <2>2
      <3> QED
        BY <3>1 DEF ClusterKeys, Wallets
    <2> QED
      BY <2>1, <2>2
  <1>4. CostBasis(lot) = spent
    BY <1>1 DEF CostBasis, Spends
  <1>5. LotTyped(lot)
    BY <1>1, <1>3 DEF LotTyped, Spends
  <1>6. Costs(lot, f, spent + f.fees)
    BY Zenon DEF Costs, ApplyToPortfolio, Charged, Spends
  <1> QED
    BY <1>1, <1>2, <1>4, <1>5, <1>6 DEF NewLot, Spends, Affordable

\* A decision opens one lot at most, and only within the rooms.
LEMMA DecisionOpensALot ==
  ASSUME Tables, BookHolds, NEW a \in Actions, NEW seen \in BooksOf[ActionOf[a].token],
         Decide(a, seen)
  PROVE  UNCHANGED <<lots, portfolio>> \/ \E lot, cost : NewLot(lot, cost) /\ Opens(lot, cost)
  <1>a. PICK action : action = ActionOf[a]
    OBVIOUS
  <1>s. PICK source : source = SourceOf[action.wallet]
    OBVIOUS
  <1>m. PICK market : market = MarketSeen(action, seen)
    OBVIOUS
  <1>e. PICK ev : ev = Evaluate(action, source, market, portfolio, mode)
    OBVIOUS
  <1>1. PICK link : Record(a, link, action, source, market, ev)
    BY <1>a, <1>s, <1>m, <1>e, Zenon DEF Decide, MarketSeen
  <1>2. CASE \A f \in ev.fill : ~ f.filled
    BY <1>1, <1>2, Zenon DEF Record
  <1>3. CASE \E f \in ev.fill : f.filled
    <2>1. PICK g \in ev.fill : g.filled
      BY <1>3
    <2>2. PICK f \in ev.fill :
            \E lot \in {OpenLot(Len(evaluations) + 1, mode, action.wallet, source.cluster,
                                market.market, action.token, today, f.vwap, f.quantity, f.fees)} :
                lots' = Append(lots, lot) /\ portfolio' = ApplyToPortfolio(portfolio, lot, f)
      BY <1>1, <2>1, Zenon DEF Record
    <2>3. PICK lot :
            /\ lot = OpenLot(Len(evaluations) + 1, mode, action.wallet, source.cluster,
                             market.market, action.token, today, f.vwap, f.quantity, f.fees)
            /\ lots' = Append(lots, lot) /\ portfolio' = ApplyToPortfolio(portfolio, lot, f)
      BY <2>2
    <2>4. f = g
      <3>1. PICK qualified : qualified = Qualify(action, source, market)
        OBVIOUS
      <3>2. PICK size : size = SizeEntry(portfolio, qualified.limit, qualified.depth,
                                         market.minOrderSize, source.rank, source.rank,
                                         market.market, source.cluster, {})
        OBVIOUS
      <3>3. ev = SizeAndFill(action, source, market, portfolio, mode, qualified)
        BY <1>e, <3>1 DEF Evaluate
      <3>4. PICK made : made = Simulate(action.side, size.quantity, qualified.limit,
                                        market.levels, FeeRate, market.quoteAge)
        OBVIOUS
      <3>5. \A h \in SizeAndFill(action, source, market, portfolio, mode, qualified).fill :
              h = made
        BY <3>2, <3>4, FillOfADecision
      <3> QED
        BY <3>3, <3>5
    <2>5. f.filled
      BY <2>1, <2>4
    <2>6. FundTyped
      BY DEF BookHolds
    <2>7. /\ f.quantity \in Nat /\ f.quantity > 0 /\ f.vwap \in Nat /\ f.fees \in Nat
          /\ f.vwap * f.quantity \in Nat
          /\ f.vwap * f.quantity <= Percent(RiskPolicy.maxPerMarket, portfolio.nav)
                                      - portfolio.byMarket[market.market]
          /\ \A c \in source.cluster :
               f.vwap * f.quantity <= Percent(RiskPolicy.maxCorrelated, portfolio.nav)
                                        - portfolio.byCluster[c]
          /\ f.vwap * f.quantity <= portfolio.cash
          /\ DailyDrawdown(portfolio) < RiskPolicy.drawdownHalt
          /\ action.token \notin resolved /\ market.market \in MarketIds
      BY <1>a, <1>s, <1>m, <1>e, <2>5, <2>6, EntryIsWithinRoom
    <2>8. PICK spent \in Nat : spent = f.vwap * f.quantity
      BY <2>7
    <2>9. action.wallet \in DOMAIN SourceOf /\ today \in Nat
      BY <1>a, ActionAssumption DEF Tables
    <2>10. PICK cluster : cluster = SourceOf[action.wallet].cluster
      OBVIOUS
    <2>11. PICK wallet, id, token, day, n, kind :
             /\ wallet = action.wallet /\ id = market.market /\ token = action.token
             /\ day = today /\ n = Len(evaluations) + 1 /\ kind = mode
      OBVIOUS
    <2>12. Affordable(spent, id, cluster)
      BY <1>s, <2>7, <2>8, <2>10, <2>11 DEF Affordable
    <2>13. LotOfFill(lot, f, wallet, cluster, id, token, day)
      BY <1>s, <2>3, <2>10, <2>11, Zenon DEF LotOfFill
    <2>14. /\ wallet \in DOMAIN SourceOf /\ cluster = SourceOf[wallet].cluster
           /\ id \in MarketIds /\ token \notin resolved /\ day \in Nat
      BY <2>7, <2>9, <2>10, <2>11
    <2>16. Spends(f, spent)
      BY <2>7, <2>8 DEF Spends
    <2>15. NewLot(lot, spent + f.fees) /\ Costs(lot, f, spent + f.fees)
      BY <2>12, <2>13, <2>14, <2>16, FillOpensALot
    <2> QED
      BY <2>3, <2>15 DEF Opens, Costs
  <1> QED
    BY <1>2, <1>3

\* What opening a lot does to the table.
LEMMA TableGains ==
  ASSUME Tables, NEW lot, lots' = Append(lots, lot)
  PROVE  /\ Len(lots) + 1 \notin DOMAIN lots
         /\ DOMAIN lots' = DOMAIN lots \cup {Len(lots) + 1}
         /\ Len(lots') = Len(lots) + 1 /\ lots'[Len(lots) + 1] = lot
         /\ \A i \in DOMAIN lots : lots'[i] = lots[i]
  <1>1. Len(lots) \in Nat /\ DOMAIN lots = 1..Len(lots)
    BY DEF Tables
  <1> QED
    BY <1>1

\* What charging it does to the portfolio.
LEMMA FundIsCharged ==
  ASSUME FundTyped, NEW market \in MarketIds, NEW key \in ClusterKeys, NEW cost \in Int,
         NEW fund, fund = Charged(portfolio, market, key, cost)
  PROVE  /\ DOMAIN fund = DOMAIN portfolio
         /\ fund.nav = portfolio.nav /\ fund.dayStartNav = portfolio.dayStartNav
         /\ fund.byTheme = portfolio.byTheme /\ fund.openOrders = portfolio.openOrders
         /\ fund.cash = portfolio.cash - cost
         /\ fund.byMarket \in [MarketIds -> Int] /\ fund.byCluster \in [ClusterKeys -> Int]
         /\ \A m \in MarketIds : fund.byMarket[m]
              = portfolio.byMarket[m] + (IF m = market THEN cost ELSE 0)
         /\ \A k \in ClusterKeys : fund.byCluster[k]
              = portfolio.byCluster[k] + (IF k = key THEN cost ELSE 0)
  <1>1. PICK markets \in [MarketIds -> Int], clusters \in [ClusterKeys -> Int], cash \in Int :
          /\ markets = portfolio.byMarket /\ clusters = portfolio.byCluster
          /\ cash = portfolio.cash
    BY DEF FundTyped
  <1>2. PICK markets2, clusters2 :
          /\ markets2 = [markets EXCEPT ![market] = @ + cost]
          /\ clusters2 = [clusters EXCEPT ![key] = @ + cost]
    OBVIOUS
  <1>3. fund = [portfolio EXCEPT !.cash = cash - cost, !.byMarket = markets2,
                                 !.byCluster = clusters2]
    BY <1>1, <1>2 DEF Charged, FundTyped
  <1>4. /\ DOMAIN fund = DOMAIN portfolio
        /\ fund.nav = portfolio.nav /\ fund.dayStartNav = portfolio.dayStartNav
        /\ fund.byTheme = portfolio.byTheme /\ fund.openOrders = portfolio.openOrders
        /\ fund.cash = cash - cost /\ fund.byMarket = markets2 /\ fund.byCluster = clusters2
    BY <1>3 DEF FundTyped
  <1>5. /\ markets2 \in [MarketIds -> Int]
        /\ \A m \in MarketIds : markets2[m] = markets[m] + (IF m = market THEN cost ELSE 0)
    BY <1>2
  <1>6. /\ clusters2 \in [ClusterKeys -> Int]
        /\ \A k \in ClusterKeys : clusters2[k] = clusters[k] + (IF k = key THEN cost ELSE 0)
    BY <1>2
  <1> QED
    BY <1>1, <1>4, <1>5, <1>6

\* What an entry does to the portfolio.
LEMMA EntryIsCharged ==
  ASSUME FundTyped, NEW lot, NEW cost, NewLot(lot, cost), Opens(lot, cost)
  PROVE  /\ DOMAIN portfolio' = DOMAIN portfolio
         /\ portfolio'.nav = portfolio.nav /\ portfolio'.dayStartNav = portfolio.dayStartNav
         /\ portfolio'.byTheme = portfolio.byTheme /\ portfolio'.openOrders = portfolio.openOrders
         /\ portfolio'.cash = portfolio.cash - cost
         /\ portfolio'.byMarket \in [MarketIds -> Int]
         /\ portfolio'.byCluster \in [ClusterKeys -> Int]
         /\ \A m \in MarketIds : portfolio'.byMarket[m]
             = portfolio.byMarket[m] + (IF m = lot.market THEN cost ELSE 0)
         /\ \A k \in ClusterKeys : portfolio'.byCluster[k]
             = portfolio.byCluster[k] + (IF k = ClusterKey(lot) THEN cost ELSE 0)
  <1>1. PICK fund, market, key : /\ fund = portfolio' /\ market = lot.market
                                 /\ key = ClusterKey(lot)
    OBVIOUS
  <1>2. fund = Charged(portfolio, market, key, cost)
    BY <1>1 DEF Opens
  <1>3. market \in MarketIds /\ key \in ClusterKeys /\ cost \in Int
    BY <1>1 DEF NewLot, LotTyped
  <1> QED
    BY <1>1, <1>2, <1>3, FundIsCharged

\* A lot that is opened has returned nothing yet, and its cost is charged in full.
LEMMA OpeningHolds ==
  ASSUME Tables, BookHolds, NEW lot, NEW cost, NewLot(lot, cost), Opens(lot, cost),
         UNCHANGED <<plan, received>>
  PROVE  BookHolds'
  <1> DEFINE D == DOMAIN lots
  <1>n. PICK n : n = Len(lots) + 1
    OBVIOUS
  <1>1. /\ n \notin D /\ DOMAIN lots' = D \cup {n} /\ lots'[n] = lot
        /\ \A i \in D : lots'[i] = lots[i]
    BY <1>n, TableGains DEF Opens
  <1>2. /\ LotsTyped /\ FundTyped /\ PlanTyped /\ Balanced /\ ExposureNeverUnderstated
    BY DEF BookHolds
  <1>3. LotTyped(lot) /\ lot.status = "open" /\ lot.pnl = 0 /\ lot.open = lot.opened
        /\ cost \in Nat /\ CostBasis(lot) \in Nat /\ CostBasis(lot) <= cost
    BY DEF NewLot
  <1>4. lot.market \in MarketIds /\ ClusterKey(lot) \in ClusterKeys
    BY <1>3 DEF LotTyped
  <1>5. LotsTyped'
    <2>1. \A i \in DOMAIN lots' : LotTyped(lots'[i])
      BY <1>1, <1>2, <1>3 DEF LotsTyped
    <2> QED
      BY <2>1 DEF LotsTyped, LotTyped
  <1>6. Priced(lots, D) /\ Priced(lots', D \cup {n}) /\ IsFiniteSet(D)
    <2>1. Priced(lots, D) /\ IsFiniteSet(D)
      BY <1>2, TableIsPriced DEF Priced
    <2>2. IsFiniteSet(D \cup {n})
      <3> HIDE DEF D
      <3> QED
        BY <2>1, FS_AddElement
    <2>3. \A i \in D \cup {n} : LotTyped(lots'[i])
      BY <1>1, <1>2, <1>3 DEF LotsTyped
    <2> QED
      BY <1>1, <2>1, <2>2, <2>3 DEF Priced, LotTyped
  <1>7. /\ DOMAIN portfolio' = DOMAIN portfolio
        /\ portfolio'.nav = portfolio.nav /\ portfolio'.dayStartNav = portfolio.dayStartNav
        /\ portfolio'.byTheme = portfolio.byTheme /\ portfolio'.openOrders = portfolio.openOrders
        /\ portfolio'.cash = portfolio.cash - cost
        /\ portfolio'.byMarket \in [MarketIds -> Int]
        /\ portfolio'.byCluster \in [ClusterKeys -> Int]
        /\ \A m \in MarketIds : portfolio'.byMarket[m]
             = portfolio.byMarket[m] + (IF m = lot.market THEN cost ELSE 0)
        /\ \A k \in ClusterKeys : portfolio'.byCluster[k]
             = portfolio.byCluster[k] + (IF k = ClusterKey(lot) THEN cost ELSE 0)
    BY <1>2, EntryIsCharged
  <1>8. FundTyped'
    BY <1>2, <1>3, <1>7 DEF FundTyped
  <1>9. PlanTyped'
    BY <1>1, <1>2 DEF PlanTyped
  <1>10. Balanced'
    <2>1. /\ DOMAIN Returned(lots) = D /\ \A i \in D : Returned(lots)[i] \in Int
          /\ DOMAIN Returned(lots') = D \cup {n} /\ Returned(lots')[n] \in Int
          /\ \A i \in D \cup {n} : Returned(lots')[i] = ReturnOf(lots'[i])
          /\ \A i \in D : Returned(lots)[i] = ReturnOf(lots[i])
      BY <1>6, LotsAreNumbers
    <2>2. Returned(lots')[n] = 0
      <3>1. lot.entry \in Nat /\ lot.open \in Nat
        BY <1>3 DEF LotTyped
      <3>2. ReturnOf(lot) = 0
        BY <1>3, <3>1 DEF ReturnOf
      <3> QED
        BY <1>1, <2>1, <3>2
    <2>3. \A i \in D : Returned(lots)[i] \in Int /\ Returned(lots')[i] = Returned(lots)[i]
      BY <1>1, <2>1
    <2>4. SumFunctionOnSet(Returned(lots'), D \cup {n})
            = SumFunctionOnSet(Returned(lots), D) + Returned(lots')[n]
      <3> HIDE DEF D
      <3>1. Returned(lots')[n] \in Int /\ n \notin D
        BY <1>1, <2>1
      <3> QED
        BY <1>6, <2>3, <3>1, SumGainsOne
    <2>5. SumFunctionOnSet(Returned(lots), D) = received /\ received \in Int
      BY <1>2, <2>1 DEF Balanced, SumFunction
    <2>6. SumFunctionOnSet(Returned(lots'), D \cup {n}) = received'
      BY <2>2, <2>4, <2>5
    <2> QED
      BY <2>1, <2>5, <2>6 DEF Balanced, SumFunction
  <1>11. /\ \A ids \in SUBSET D :
              /\ ExposureOf(lots', ids) = ExposureOf(lots, ids)
              /\ ExposureOf(lots', ids \cup {n}) = ExposureOf(lots, ids) + CostBasis(lot)
         /\ \A ids \in SUBSET D : ExposureOf(lots, ids) \in Nat
    <2>1. PICK ls, ls2 : ls = lots /\ ls2 = lots'
      OBVIOUS
    <2>2. /\ Priced(ls, D) /\ Priced(ls2, D \cup {n}) /\ n \notin D
          /\ ls2[n].status = "open" /\ \A i \in D : ls2[i] = ls[i]
      BY <1>1, <1>3, <1>6, <2>1
    <2> HIDE DEF D
    <2>3. ASSUME NEW ids \in SUBSET D
          PROVE  /\ ExposureOf(ls2, ids) = ExposureOf(ls, ids)
                 /\ ExposureOf(ls2, ids \cup {n}) = ExposureOf(ls, ids) + CostBasis(ls2[n])
      <3>1. Priced(ls, D) /\ Priced(ls2, D \cup {n})
        BY <2>2
      <3>2. n \notin D /\ ls2[n].status = "open"
        BY <2>2
      <3>3. \A i \in D : ls2[i] = ls[i]
        BY <2>2
      <3> QED
        BY <3>1, <3>2, <3>3, ExposureGains
    <2>4. \A ids \in SUBSET D : ExposureOf(ls, ids) \in Nat
      BY <2>2, ExposureIsASum
    <2> QED
      BY <1>1, <2>1, <2>3, <2>4
  <1>12. ASSUME NEW m \in MarketIds
         PROVE  ExposureByMarket(lots', m) <= portfolio'.byMarket[m]
    <2> DEFINE ids == {i \in D : lots[i].market = m}
    <2>1. /\ ids \in SUBSET D /\ ExposureByMarket(lots, m) = ExposureOf(lots, ids)
      BY DEF ExposureByMarket
    <2>2. /\ portfolio.byMarket[m] \in Int /\ ExposureOf(lots, ids) <= portfolio.byMarket[m]
      BY <1>2, <2>1 DEF ExposureNeverUnderstated, FundTyped
    <2>3. CASE m = lot.market
      <3>1. {i \in DOMAIN lots' : lots'[i].market = m} = ids \cup {n}
        BY <1>1, <2>3
      <3>2. ExposureByMarket(lots', m) = ExposureOf(lots', ids \cup {n})
        BY <3>1 DEF ExposureByMarket
      <3> HIDE DEF ids
      <3> QED
        BY <1>3, <1>7, <1>11, <2>1, <2>2, <2>3, <3>2
    <2>4. CASE m # lot.market
      <3>1. {i \in DOMAIN lots' : lots'[i].market = m} = ids
        BY <1>1, <2>4
      <3>2. ExposureByMarket(lots', m) = ExposureOf(lots', ids)
        BY <3>1 DEF ExposureByMarket
      <3>3. portfolio'.byMarket[m] = portfolio.byMarket[m]
        BY <1>7, <2>2, <2>4
      <3>4. ExposureOf(lots', ids) = ExposureOf(lots, ids)
        BY <1>11, <2>1
      <3> QED
        BY <2>2, <3>2, <3>3, <3>4
    <2> QED
      BY <2>3, <2>4
  <1>13. ASSUME NEW k \in ClusterKeys
         PROVE  ExposureByCluster(lots', k) <= portfolio'.byCluster[k]
    <2> DEFINE ids == {i \in D : ClusterKey(lots[i]) = k}
    <2>1. /\ ids \in SUBSET D /\ ExposureByCluster(lots, k) = ExposureOf(lots, ids)
      BY DEF ExposureByCluster
    <2>2. /\ portfolio.byCluster[k] \in Int /\ ExposureOf(lots, ids) <= portfolio.byCluster[k]
      BY <1>2, <2>1 DEF ExposureNeverUnderstated, FundTyped
    <2>3. CASE k = ClusterKey(lot)
      <3>1. {i \in DOMAIN lots' : ClusterKey(lots'[i]) = k} = ids \cup {n}
        BY <1>1, <2>3
      <3>2. ExposureByCluster(lots', k) = ExposureOf(lots', ids \cup {n})
        BY <3>1 DEF ExposureByCluster
      <3> HIDE DEF ids
      <3> QED
        BY <1>3, <1>7, <1>11, <2>1, <2>2, <2>3, <3>2
    <2>4. CASE k # ClusterKey(lot)
      <3>1. {i \in DOMAIN lots' : ClusterKey(lots'[i]) = k} = ids
        BY <1>1, <2>4
      <3>2. ExposureByCluster(lots', k) = ExposureOf(lots', ids)
        BY <3>1 DEF ExposureByCluster
      <3>3. portfolio'.byCluster[k] = portfolio.byCluster[k]
        BY <1>7, <2>2, <2>4
      <3>4. ExposureOf(lots', ids) = ExposureOf(lots, ids)
        BY <1>11, <2>1
      <3> QED
        BY <2>2, <3>2, <3>3, <3>4
    <2> QED
      BY <2>3, <2>4
  <1>14. ExposureNeverUnderstated'
    BY <1>12, <1>13 DEF ExposureNeverUnderstated
  <1> QED
    BY <1>5, <1>8, <1>9, <1>10, <1>14 DEF BookHolds

-----------------------------------------------------------------------------
(* The exits.                                                              *)

\* What an exit plan is of: the open lots of the source in the token, for the
\* share that is cut, and what is older in full.
Mirrors(exit, wallet, token, ratio) ==
    LET ours == Ours(lots, wallet, token)
    IN  /\ exit.wallet = {wallet} /\ exit.ratio = ratio
        /\ DOMAIN exit.legs \subseteq ours
        /\ \A i \in DOMAIN exit.legs : exit.legs[i] \in Nat
        /\ TotalQuantity(exit) = Percent(Lesser(ratio, 100), Held(lots, ours))
        /\ TotalQuantity(exit) > 0
        /\ \A i \in DOMAIN exit.legs, j \in ours :
             Older(lots, j, i) => j \in DOMAIN exit.legs /\ exit.legs[j] = lots[j].open

\* Oldest first is an order, as no two lots have one place.
LEMMA LotsAreOrdered ==
  ASSUME Tables, LotsTyped, NEW S \in SUBSET (DOMAIN lots),
         NEW older, older = [i \in S |-> {j \in S : Older(lots, j, i)}]
  PROVE  Ordered(older, S)
  <1>1. \A i \in S : i \in Nat /\ lots[i].openedAt \in Nat
    BY DEF Tables, LotsTyped, LotTyped
  <1>2. \A i \in S : older[i] \in SUBSET S /\ i \notin older[i]
    BY <1>1 DEF Older
  <1>3. \A i, j \in S : j \in older[i] <=> Older(lots, j, i)
    OBVIOUS
  <1>4. \A i, j \in S : i # j => Older(lots, i, j) \/ Older(lots, j, i)
    BY <1>1 DEF Older
  <1>5. \A i, j, k \in S : Older(lots, i, j) /\ Older(lots, j, k) => Older(lots, i, k)
    BY <1>1 DEF Older
  <1>6. ASSUME NEW i \in S, NEW j \in S, j \in older[i], NEW k \in older[j]
        PROVE  k \in older[i]
    <2>1. k \in S
      BY <1>2, <1>6
    <2>2. Older(lots, k, j) /\ Older(lots, j, i)
      BY <1>3, <1>6, <2>1
    <2> QED
      BY <1>3, <1>5, <1>6, <2>1, <2>2
  <1>7. \A i, j \in S : i # j => i \in older[j] \/ j \in older[i]
    BY <1>3, <1>4
  <1> QED
    BY <1>2, <1>6, <1>7 DEF Ordered

\* A plan is of what it should be.
LEMMA PlansMirror ==
  ASSUME Tables, LotsTyped, NEW wallet, NEW token, NEW ratio \in Int,
         NEW exit, exit = PlanExit(lots, wallet, token, ratio), exit # NoPlan
  PROVE  Mirrors(exit, wallet, token, ratio)
  <1>o. PICK ours : ours = Ours(lots, wallet, token)
    OBVIOUS
  <1>s. PICK sizes : sizes = [i \in ours |-> lots[i].open]
    OBVIOUS
  <1>e. PICK older : older = [i \in ours |-> {j \in ours : Older(lots, j, i)}]
    OBVIOUS
  <1>t. PICK target : target = Percent(Lesser(ratio, 100), Held(lots, ours))
    OBVIOUS
  <1>k. PICK taken : taken = Allot(sizes, older, target)
    OBVIOUS
  <1>i. PICK ids : ids = {i \in ours : taken[i] > 0}
    OBVIOUS
  <1>1. exit = IF ratio <= 0 \/ ours = {} \/ target <= 0 THEN NoPlan
               ELSE [wallet |-> {wallet}, ratio |-> ratio, legs |-> Restrict(taken, ids)]
    BY <1>o, <1>s, <1>e, <1>t, <1>k, <1>i, Zenon DEF PlanExit
  <1>2. /\ ratio > 0 /\ ~ (target <= 0)
        /\ exit.wallet = {wallet} /\ exit.ratio = ratio
        /\ exit.legs = [i \in ids |-> taken[i]]
    BY <1>1 DEF Restrict
  <1>3. /\ ours \in SUBSET (DOMAIN lots) /\ IsFiniteSet(ours)
        /\ \A i \in ours : lots[i].open \in Nat
    <2>1. ours \in SUBSET (DOMAIN lots)
      BY <1>o DEF Ours
    <2>2. IsFiniteSet(DOMAIN lots)
      BY TableIsPriced DEF Priced
    <2> QED
      BY <2>1, <2>2, FS_Subset DEF LotsTyped, LotTyped
  <1>4. sizes \in [ours -> Nat] /\ Ordered(older, ours)
    BY <1>s, <1>e, <1>3, LotsAreOrdered
  <1>5. /\ Held(lots, ours) = SumFunctionOnSet(sizes, ours) /\ Held(lots, ours) \in Nat
    <2> DEFINE open == [i \in DOMAIN lots |-> lots[i].open]
    <2>1. \A i \in ours : open[i] = sizes[i] /\ sizes[i] \in Nat
      BY <1>s, <1>3
    <2>2. Held(lots, ours) = SumFunctionOnSet(open, ours)
      BY DEF Held
    <2> HIDE DEF open
    <2>3. SumFunctionOnSet(open, ours) = SumFunctionOnSet(sizes, ours)
      BY <1>3, <2>1, SumsAgree
    <2>4. SumFunctionOnSet(sizes, ours) \in Nat
      BY <1>3, <2>1, SumIsNatural
    <2> QED
      BY <2>2, <2>3, <2>4
  <1>6. target \in Nat /\ target > 0 /\ target <= Held(lots, ours)
    <2>1. Lesser(ratio, 100) \in Nat /\ Lesser(ratio, 100) <= 100
      BY <1>2 DEF Lesser
    <2>2. target \in Nat /\ target <= Held(lots, ours)
      BY <1>t, <1>5, <2>1, PercentIsAShare
    <2> QED
      BY <1>2, <2>2
  <1>7. DOMAIN taken = ours /\ \A i \in ours : taken[i] \in Nat
    BY <1>k, <1>3, <1>4, <1>6, AllotmentIsBounded
  <1>8. SumFunctionOnSet(taken, ours) = target
    <2>1. SumFunctionOnSet(taken, ours) = Lesser(target, SumFunctionOnSet(sizes, ours))
      BY <1>k, <1>3, <1>4, <1>6, AllotmentIsWhole
    <2> QED
      BY <1>5, <1>6, <2>1 DEF Lesser
  <1>9. TotalQuantity(exit) = target
    <2>1. ids \in SUBSET ours /\ \A i \in ours \ ids : taken[i] = 0
      BY <1>i, <1>7
    <2>2. \A i \in ours : taken[i] \in Int
      BY <1>7
    <2>3. SumFunctionOnSet(taken, ours) = SumFunctionOnSet(taken, ids)
      BY <1>3, <2>1, <2>2, SumSkipsZeros
    <2>4. PICK legs : legs = exit.legs /\ DOMAIN legs = ids /\ \A i \in ids : legs[i] = taken[i]
      BY <1>2
    <2>5. IsFiniteSet(ids)
      BY <1>3, <2>1, FS_Subset
    <2>6. SumFunctionOnSet(legs, ids) = SumFunctionOnSet(taken, ids)
      BY <2>4, <2>5, SumsAgree
    <2> QED
      BY <1>8, <2>3, <2>4, <2>6 DEF TotalQuantity, SumFunction
  <1>10. ASSUME NEW i \in ids, NEW j \in ours, Older(lots, j, i)
         PROVE  j \in ids /\ exit.legs[j] = lots[j].open
    <2>1. i \in ours /\ taken[i] > 0 /\ j \in older[i]
      BY <1>e, <1>i, <1>10
    <2>2. target \in Int /\ Allot(sizes, older, target)[i] > 0
      BY <1>k, <1>6, <2>1
    <2>3. Allot(sizes, older, target)[j] = sizes[j]
      BY <1>3, <1>4, <2>1, <2>2, AllotmentIsInOrder
    <2>4. taken[j] = lots[j].open
      BY <1>k, <1>s, <2>3
    <2>5. lots[j].open > 0
      BY <1>o DEF Ours
    <2> QED
      BY <1>2, <1>i, <2>4, <2>5
  <1>11. DOMAIN exit.legs = ids /\ ids \subseteq ours /\ \A i \in ids : exit.legs[i] \in Nat
    BY <1>2, <1>7, <1>i
  <1> QED
    BY <1>o, <1>t, <1>2, <1>6, <1>9, <1>10, <1>11 DEF Mirrors

\* What is planned is of lots that are there.
LEMMA PlanAnExitHolds ==
  ASSUME Tables, BookHolds, NEW wallet, NEW token, NEW ratio \in Ratios,
         PlanAnExit(wallet, token, ratio)
  PROVE  BookHolds'
  <1>1. UNCHANGED <<lots, portfolio, received>> /\ plan' = PlanExit(lots, wallet, token, ratio)
    BY DEF PlanAnExit
  <1>2. ratio \in Int
    BY AmountAssumption
  <1>3. PlanTyped'
    <2>1. CASE plan' = NoPlan
      BY <2>1 DEF PlanTyped, NoPlan
    <2>2. CASE plan' # NoPlan
      <3>1. PICK exit : exit = plan'
        OBVIOUS
      <3>2. Mirrors(exit, wallet, token, ratio)
        BY <1>1, <1>2, <2>2, <3>1, PlansMirror DEF BookHolds
      <3>3. DOMAIN exit.legs \subseteq DOMAIN lots /\ \A i \in DOMAIN exit.legs : exit.legs[i] \in Nat
        BY <3>2 DEF Mirrors, Ours
      <3> QED
        BY <1>1, <3>1, <3>3 DEF PlanTyped
    <2> QED
      BY <2>1, <2>2
  <1> QED
    BY <1>1, <1>3 DEF BookHolds, LotsTyped, LotTyped, FundTyped, Balanced, Returned,
                      ExposureNeverUnderstated

-----------------------------------------------------------------------------
(* The invariant of the book is one.                                       *)

\* A mark changes the value and nothing that is owed to it.
LEMMA MarkHolds ==
  ASSUME BookHolds, NEW value \in Marks, Mark(value)
  PROVE  BookHolds'
  <1>1. UNCHANGED <<lots, plan, received>> /\ portfolio' = [portfolio EXCEPT !.nav = value]
    BY DEF Mark
  <1>2. value \in Int
    BY AmountAssumption
  <1>3. FundTyped'
    BY <1>1, <1>2 DEF BookHolds, FundTyped
  <1>4. portfolio'.byMarket = portfolio.byMarket /\ portfolio'.byCluster = portfolio.byCluster
    BY <1>1 DEF BookHolds, FundTyped
  <1> QED
    BY <1>1, <1>3, <1>4 DEF BookHolds, LotsTyped, LotTyped, PlanTyped, Balanced, Returned,
                            ExposureNeverUnderstated

\* There is nothing in the book at first.
LEMMA BookHoldsAtFirst == Init => BookHolds
  <1> SUFFICES ASSUME Init PROVE BookHolds
    OBVIOUS
  <1>1. /\ lots = <<>> /\ plan = NoPlan /\ received = 0 /\ DOMAIN lots = {}
        /\ portfolio = [nav |-> InitialNav, cash |-> InitialNav, dayStartNav |-> InitialNav,
                        byMarket |-> [m \in MarketIds |-> 0],
                        byCluster |-> [k \in ClusterKeys |-> 0],
                        byTheme |-> <<>>,
                        openOrders |-> [m \in MarketIds |-> 0]]
    BY DEF Init
  <1>2. LotsTyped /\ PlanTyped
    BY <1>1 DEF LotsTyped, PlanTyped, NoPlan
  <1>3. FundTyped
    BY <1>1, AmountAssumption DEF FundTyped
  <1>4. Balanced
    <2>1. DOMAIN Returned(lots) = {}
      BY <1>1 DEF Returned
    <2>2. SumFunction(Returned(lots)) = 0
      BY <2>1, SumOverNothing DEF SumFunction
    <2> QED
      BY <1>1, <2>2 DEF Balanced
  <1>5. ExposureNeverUnderstated
    <2>1. \A ids : ids = {} => ExposureOf(lots, ids) = 0
      <3> SUFFICES ASSUME NEW ids, ids = {} PROVE ExposureOf(lots, ids) = 0
        OBVIOUS
      <3>1. {i \in ids : lots[i].status = "open"} = {}
        OBVIOUS
      <3> QED
        BY <3>1, SumOverNothing DEF ExposureOf
    <2>2. \A m \in MarketIds : ExposureByMarket(lots, m) = 0 /\ portfolio.byMarket[m] = 0
      <3>1. \A m : {i \in DOMAIN lots : lots[i].market = m} = {}
        BY <1>1
      <3> QED
        BY <1>1, <2>1, <3>1 DEF ExposureByMarket
    <2>3. \A k \in ClusterKeys : ExposureByCluster(lots, k) = 0 /\ portfolio.byCluster[k] = 0
      <3>1. \A k : {i \in DOMAIN lots : ClusterKey(lots[i]) = k} = {}
        BY <1>1
      <3> QED
        BY <1>1, <2>1, <3>1 DEF ExposureByCluster
    <2> QED
      BY <2>2, <2>3 DEF ExposureNeverUnderstated
  <1> QED
    BY <1>2, <1>3, <1>4, <1>5 DEF BookHolds

\* A step that leaves the book alone.
LEMMA SameBookHolds ==
  ASSUME BookHolds, UNCHANGED <<lots, portfolio, plan, received>>
  PROVE  BookHolds'
  BY DEF BookHolds, LotsTyped, LotTyped, FundTyped, PlanTyped, Balanced, Returned,
         ExposureNeverUnderstated

\* Both invariants are preserved, the one of the book with the help of the other.
LEMMA BookIsPreserved ==
  ASSUME Inductive, Inductive', BookHolds, [Next]_vars
  PROVE  BookHolds'
  <1>1. Tables /\ Tables' /\ LotsAreLinked
    BY DEF Inductive
  <1>2. ASSUME UNCHANGED <<lots, portfolio, plan, received>> PROVE BookHolds'
    BY <1>2, SameBookHolds
  <1>3. ASSUME NEW a \in Actions, NEW seen \in BooksOf[ActionOf[a].token], Decide(a, seen)
        PROVE  BookHolds'
    <2>1. UNCHANGED <<plan, received>>
      BY <1>3 DEF Decide
    <2>2. CASE UNCHANGED <<lots, portfolio>>
      BY <1>2, <2>1, <2>2
    <2>3. CASE \E lot, cost : NewLot(lot, cost) /\ Opens(lot, cost)
      BY <1>1, <2>1, <2>3, OpeningHolds
    <2> QED
      BY <1>1, <1>3, <2>2, <2>3, DecisionOpensALot
  <1>4. CASE BumpPolicy \/ Break \/ ResolveBreak \/ NextDay \/ GoLive
    BY <1>2, <1>4 DEF BumpPolicy, Break, ResolveBreak, NextDay, GoLive, book
  <1>5. CASE \E w \in Wallets, t \in Tokens, r \in Ratios : PlanAnExit(w, t, r)
    BY <1>1, <1>5, PlanAnExitHolds
  <1>6. CASE \E p \in ExitPrices : ApplyTheExit(p)
    BY <1>1, <1>6, ApplyTheExitHolds
  <1>7. CASE \E t \in Tokens, p \in {0, One} : Settle(t, p)
    <2>1. \A p \in {0, One} : p \in Int
      BY DecisionAssumption
    <2> QED
      BY <1>1, <1>7, <2>1, SettleHolds
  <1>8. CASE \E v \in Marks : Mark(v)
    BY <1>8, MarkHolds
  <1>9. CASE \E days \in GateWindows : RunGate(days)
    BY <1>2, <1>9 DEF RunGate, book
  <1>10. CASE \/ \E role \in Roles, c \in BOOLEAN : RequestLive(role, c)
              \/ \E role \in Roles, m \in {"paused", "shadow"} : StandDown(role, m)
    BY <1>2, <1>10 DEF RequestLive, StandDown, book
  <1>11. CASE UNCHANGED vars
    BY <1>2, <1>11 DEF vars, book
  <1> QED
    BY <1>3, <1>4, <1>5, <1>6, <1>7, <1>8, <1>9, <1>10, <1>11 DEF Next

\* So both hold in every state.
LEMMA AlwaysHolds == Spec => [](Inductive /\ BookHolds)
  <1>1. Init => Inductive /\ BookHolds
    BY InitInductive, BookHoldsAtFirst
  <1>2. (Inductive /\ BookHolds) /\ [Next]_vars => (Inductive /\ BookHolds)'
    BY NextPreserves, BookIsPreserved
  <1> QED
    BY <1>1, <1>2, PTL DEF Spec

\* What the lots have realised is what was paid out less what was paid for it.
LEMMA RealisedIsReceived ==
  ASSUME Tables, LotsTyped, Balanced
  PROVE  NetPnl(lots, DOMAIN lots) = received
           - SumFunction([i \in DOMAIN lots |-> lots[i].entry * (lots[i].opened - lots[i].open)])
  <1> DEFINE D == DOMAIN lots
             pnl == [i \in D |-> lots[i].pnl]
             paid == [i \in D |-> lots[i].entry * (lots[i].opened - lots[i].open)]
  <1>1. Priced(lots, D) /\ IsFiniteSet(D)
    BY TableIsPriced DEF Priced
  <1>2. /\ DOMAIN Returned(lots) = D
        /\ \A i \in D : Returned(lots)[i] \in Int /\ Returned(lots)[i] = ReturnOf(lots[i])
    BY <1>1, LotsAreNumbers
  <1>3. ASSUME NEW i \in D
        PROVE  pnl[i] \in Int /\ paid[i] \in Int /\ Returned(lots)[i] = pnl[i] + paid[i]
    <2>1. PICK n \in Int, e \in Nat, o \in Nat, p \in Nat :
            n = lots[i].pnl /\ e = lots[i].entry /\ o = lots[i].opened /\ p = lots[i].open
      BY DEF LotsTyped, LotTyped
    <2>2. e * (o - p) \in Int
      BY <2>1
    <2>3. pnl[i] = n /\ paid[i] = e * (o - p) /\ ReturnOf(lots[i]) = n + e * (o - p)
      BY <2>1 DEF ReturnOf
    <2> HIDE DEF pnl, paid
    <2> QED
      BY <1>2, <2>1, <2>2, <2>3
  <1>4. DOMAIN paid = D /\ NetPnl(lots, D) = SumFunctionOnSet(pnl, D)
    BY DEF NetPnl
  <1> HIDE DEF pnl, paid, D
  <1>5. SumFunctionOnSet(Returned(lots), D) = SumFunctionOnSet(pnl, D) + SumFunctionOnSet(paid, D)
    BY <1>1, <1>3, SumIsAdditive
  <1>6. SumFunctionOnSet(pnl, D) \in Int /\ SumFunctionOnSet(paid, D) \in Int
    BY <1>1, <1>3, SumIsInteger
  <1>7. SumFunctionOnSet(Returned(lots), D) = received /\ received \in Int
    BY <1>2 DEF Balanced, SumFunction
  <1>8. NetPnl(lots, D) = received - SumFunction(paid)
    BY <1>4, <1>5, <1>6, <1>7 DEF SumFunction
  <1> QED
    BY <1>8 DEF D, paid

\* However stale the plan that an exit applies (apply_exit of lots.py), and
\* whichever of exit and settlement comes first, no leg of a lot is sold or
\* paid twice: what all lots have realised is what came in, less what was paid
\* for the quantity that is gone.
THEOREM ReceiptsMatch == Spec => []LotsMatchReceipts
  <1>1. Inductive /\ BookHolds => LotsMatchReceipts
    <2> SUFFICES ASSUME Inductive, BookHolds PROVE LotsMatchReceipts
      OBVIOUS
    <2>1. Tables /\ LotsTyped /\ Balanced
      BY DEF Inductive, BookHolds
    <2>2. \A i \in DOMAIN lots : /\ lots[i].open \in 0..lots[i].opened
                                 /\ (lots[i].status = "open") = (lots[i].open > 0)
      BY <2>1 DEF LotsTyped, LotTyped
    <2> QED
      BY <2>1, <2>2, RealisedIsReceived DEF LotsMatchReceipts
  <1> QED
    BY <1>1, AlwaysHolds, PTL

\* The exposure that size_entry of sizing.py reads is never below the cost of
\* what is open, by market and by cluster, as each entry is charged in full
\* and nothing is ever taken back.
THEOREM ExposureIsCovered == Spec => []ExposureNeverUnderstated
  <1>1. BookHolds => ExposureNeverUnderstated
    BY DEF BookHolds
  <1> QED
    BY <1>1, AlwaysHolds, PTL

-----------------------------------------------------------------------------
(* What a step may do.                                                     *)

\* Only a decision adds a lot to the table.
LEMMA OnlyDecisionsOpen ==
  ASSUME Inductive, BookHolds, [Next]_vars, Len(lots') > Len(lots)
  PROVE  \E lot, cost : NewLot(lot, cost) /\ Opens(lot, cost)
  <1>1. Tables /\ Len(lots) \in Nat /\ DOMAIN lots = 1..Len(lots)
    BY DEF Inductive, Tables
  <1>2. ASSUME DOMAIN lots' = DOMAIN lots, Len(lots') \in Nat, DOMAIN lots' = 1..Len(lots')
        PROVE  FALSE
    BY <1>1, <1>2
  <1>3. Len(lots') \in Nat /\ DOMAIN lots' = 1..Len(lots')
    BY NextPreserves DEF Inductive, Tables
  <1>4. lots' # lots
    BY <1>1
  <1>5. ASSUME NEW a \in Actions, NEW seen \in BooksOf[ActionOf[a].token], Decide(a, seen)
        PROVE  \E lot, cost : NewLot(lot, cost) /\ Opens(lot, cost)
    BY <1>1, <1>4, <1>5, DecisionOpensALot
  <1>6. ~ \E p \in ExitPrices : ApplyTheExit(p)
    BY <1>2, <1>3 DEF ApplyTheExit, ApplyExit
  <1>7. ~ \E t \in Tokens, p \in {0, One} : Settle(t, p)
    BY <1>2, <1>3 DEF Settle, SettleLots
  <1>8. CASE \E a \in Actions : \E seen \in BooksOf[ActionOf[a].token] : Decide(a, seen)
    BY <1>5, <1>8
  <1>9. ASSUME ~ \E a \in Actions : \E seen \in BooksOf[ActionOf[a].token] : Decide(a, seen)
        PROVE  FALSE
    BY <1>4, <1>6, <1>7, <1>9
       DEF Next, BumpPolicy, Break, ResolveBreak, NextDay, GoLive, PlanAnExit, Mark, RunGate,
           RequestLive, StandDown, vars, book
  <1> QED
    BY <1>8, <1>9

\* What fits a cap without its fees passes it by its fees at most.
LEMMA FeesOnTop ==
  ASSUME NEW cap \in Int, NEW was \in Int, NEW basis \in Nat, NEW fees \in Nat,
         basis <= cap - was
  PROVE  was + (basis + fees) <= cap + fees
  OBVIOUS

\* An entry takes its market and its cluster past their share of the NAV, and
\* the cash below nothing, by the fees of its one fill at most; none is made on
\* a day of too great a loss or in a market that has resolved (size_entry of
\* sizing.py, the gates of gates.py, simulate of shadow.py).
THEOREM EntriesRespectCaps == Spec => EntryStaysWithinCaps
  <1> DEFINE Respects ==
        Len(lots') > Len(lots) =>
          LET lot == lots'[Len(lots')]
          IN  /\ portfolio'.byMarket[lot.market]
                     <= Percent(RiskPolicy.maxPerMarket, portfolio.nav) + lot.fees
              /\ \A c \in lot.cluster : portfolio'.byCluster[c]
                     <= Percent(RiskPolicy.maxCorrelated, portfolio.nav) + lot.fees
              /\ portfolio'.cash >= -lot.fees
              /\ DailyDrawdown(portfolio) < RiskPolicy.drawdownHalt
              /\ lot.token \notin resolved
  <1>1. Inductive /\ BookHolds /\ [Next]_vars => Respects
    <2> SUFFICES ASSUME Inductive, BookHolds, [Next]_vars, Len(lots') > Len(lots)
                 PROVE  Respects
      OBVIOUS
    <2>1. PICK lot, cost : NewLot(lot, cost) /\ Opens(lot, cost)
      BY OnlyDecisionsOpen
    <2>2. lots'[Len(lots')] = lot
      BY <2>1, TableGains DEF Opens, Inductive
    <2>3. /\ lot.market \in MarketIds /\ ClusterKey(lot) \in ClusterKeys /\ FundTyped
          /\ CostBasis(lot) \in Nat /\ lot.fees \in Nat /\ cost = CostBasis(lot) + lot.fees
      BY <2>1 DEF NewLot, LotTyped, BookHolds
    <2>4. PICK fund, market, key : /\ fund = portfolio' /\ market = lot.market
                                   /\ key = ClusterKey(lot)
      OBVIOUS
    <2>5. market \in MarketIds /\ key \in ClusterKeys
      BY <2>3, <2>4
    <2>6. /\ fund.cash = portfolio.cash - cost
          /\ \A m \in MarketIds : fund.byMarket[m]
               = portfolio.byMarket[m] + (IF m = market THEN cost ELSE 0)
          /\ \A k \in ClusterKeys : fund.byCluster[k]
               = portfolio.byCluster[k] + (IF k = key THEN cost ELSE 0)
      BY <2>1, <2>3, <2>4, EntryIsCharged
    <2>7. /\ portfolio.cash \in Int /\ portfolio.byMarket[market] \in Int
          /\ portfolio.byCluster[key] \in Int /\ portfolio.nav \in Int
      BY <2>3, <2>5 DEF FundTyped
    <2>8. PICK perMarket \in Int, correlated \in Int :
            /\ perMarket = Percent(RiskPolicy.maxPerMarket, portfolio.nav)
            /\ correlated = Percent(RiskPolicy.maxCorrelated, portfolio.nav)
      BY <2>7, PercentIsInteger, DecisionAssumption
    <2>9. PICK basis \in Nat, fees \in Nat : basis = CostBasis(lot) /\ fees = lot.fees
      BY <2>3
    <2>10. cost = basis + fees
      BY <2>3, <2>9
    <2>11. fund.byMarket[market] <= perMarket + lot.fees
      <3>1. PICK was \in Int : was = portfolio.byMarket[market]
        BY <2>7
      <3>2. basis <= perMarket - was
        BY <3>1, <2>1, <2>4, <2>8, <2>9 DEF NewLot
      <3>3. was + (basis + fees) <= perMarket + fees
        BY <3>2, FeesOnTop
      <3>4. fund.byMarket[market] = was + cost
        BY <3>1, <2>5, <2>6
      <3> QED
        BY <3>3, <3>4, <2>9, <2>10
    <2>12. \A c \in lot.cluster : fund.byCluster[c] <= correlated + lot.fees
      <3> TAKE c \in lot.cluster
      <3>1. PICK was \in Int : was = portfolio.byCluster[key]
        BY <2>7
      <3>2. c = key /\ basis <= correlated - was
        BY <3>1, <2>1, <2>4, <2>8, <2>9 DEF NewLot
      <3>3. was + (basis + fees) <= correlated + fees
        BY <3>2, FeesOnTop
      <3>4. fund.byCluster[c] = was + cost
        BY <3>1, <3>2, <2>5, <2>6
      <3> QED
        BY <3>3, <3>4, <2>9, <2>10
    <2>13. fund.cash >= -lot.fees
      <3>1. PICK cash \in Int : cash = portfolio.cash
        BY <2>7
      <3>2. basis <= cash
        BY <3>1, <2>1, <2>9 DEF NewLot
      <3>3. fund.cash = cash - (basis + fees)
        BY <3>1, <2>6, <2>10
      <3>4. cash - (basis + fees) >= -fees
        BY <3>2
      <3> QED
        BY <3>3, <3>4, <2>9
    <2>14. DailyDrawdown(portfolio) < RiskPolicy.drawdownHalt /\ lot.token \notin resolved
      BY <2>1 DEF NewLot
    <2> QED
      BY <2>2, <2>4, <2>8, <2>11, <2>12, <2>13, <2>14
  <1>2. Inductive /\ BookHolds /\ [Next]_vars => [Respects]_vars
    BY <1>1
  <1>3. Spec => [][Inductive /\ BookHolds /\ [Next]_vars]_vars
    BY AlwaysHolds, PTL DEF Spec
  <1> QED
    BY <1>2, <1>3, PTL DEF EntryStaysWithinCaps

\* A plan that is made mirrors its source.
LEMMA PlansAreMade ==
  ASSUME Inductive, BookHolds, [Next]_vars, plan' # plan, plan' # NoPlan
  PROVE  LET ids == DOMAIN plan'.legs
             ours == {i \in DOMAIN lots : {lots[i].wallet} = plan'.wallet /\ lots[i].open > 0
                         /\ \A j \in ids : lots[i].token = lots[j].token}
         IN  /\ ids \subseteq ours
             /\ TotalQuantity(plan') = Percent(Lesser(plan'.ratio, 100), Held(lots, ours))
             /\ \A i \in ids, j \in ours : lots[j].openedAt < lots[i].openedAt =>
                    j \in ids /\ plan'.legs[j] = lots[j].open
  <1>1. PICK wallet \in Wallets, token \in Tokens, ratio \in Ratios :
          PlanAnExit(wallet, token, ratio)
    BY DEF Next, Decide, BumpPolicy, ApplyTheExit, Settle, Mark, Break, ResolveBreak, RunGate,
           RequestLive, GoLive, StandDown, NextDay, vars, book
  <1>2. PICK exit : exit = plan'
    OBVIOUS
  <1>3. Mirrors(exit, wallet, token, ratio)
    <2>1. Tables /\ LotsTyped /\ ratio \in Int
      BY AmountAssumption DEF Inductive, BookHolds
    <2>2. exit = PlanExit(lots, wallet, token, ratio) /\ exit # NoPlan
      BY <1>1, <1>2 DEF PlanAnExit
    <2> QED
      BY <2>1, <2>2, PlansMirror
  <1> DEFINE ids == DOMAIN exit.legs
             theirs == Ours(lots, wallet, token)
             ours == {i \in DOMAIN lots : {lots[i].wallet} = exit.wallet /\ lots[i].open > 0
                         /\ \A j \in ids : lots[i].token = lots[j].token}
  <1>4. /\ exit.wallet = {wallet} /\ exit.ratio = ratio /\ ids \subseteq theirs
        /\ TotalQuantity(exit) = Percent(Lesser(ratio, 100), Held(lots, theirs))
        /\ TotalQuantity(exit) > 0
        /\ \A i \in ids, j \in theirs :
             Older(lots, j, i) => j \in ids /\ exit.legs[j] = lots[j].open
    BY <1>3 DEF Mirrors
  <1>5. ids # {}
    <2>1. ids = {} => TotalQuantity(exit) = 0
      BY SumOverNothing DEF TotalQuantity, SumFunction
    <2> QED
      BY <1>4, <2>1
  <1>6. \A i \in theirs : i \in DOMAIN lots /\ lots[i].wallet = wallet
                          /\ lots[i].token = token /\ lots[i].open > 0
    BY DEF Ours
  <1>7. \A i \in DOMAIN lots :
          lots[i].wallet = wallet /\ lots[i].token = token /\ lots[i].open > 0 => i \in theirs
    BY DEF Ours, BookHolds, LotsTyped, LotTyped
  <1>8. ours = theirs
    <2> HIDE DEF ids, theirs
    <2>1. PICK k \in ids : k \in theirs /\ lots[k].token = token
      BY <1>4, <1>5, <1>6
    <2>2. \A j \in ids : lots[j].token = token
      BY <1>4, <1>6
    <2> QED
      BY <1>4, <1>6, <1>7, <2>1, <2>2
  <1>9. \A i \in ids, j \in theirs : lots[j].openedAt < lots[i].openedAt => Older(lots, j, i)
    BY DEF Older
  <1> HIDE DEF ids, theirs, ours
  <1>10. /\ ids \subseteq ours
         /\ TotalQuantity(exit) = Percent(Lesser(exit.ratio, 100), Held(lots, ours))
         /\ \A i \in ids, j \in ours : lots[j].openedAt < lots[i].openedAt =>
                j \in ids /\ exit.legs[j] = lots[j].open
    BY <1>4, <1>8, <1>9
  <1> QED
    BY <1>2, <1>10 DEF ids, ours

\* Nothing is sold that the plan does not name.
LEMMA SalesArePlanned ==
  ASSUME Inductive, BookHolds, [Next]_vars, NEW i \in DOMAIN lots,
         lots[i].status = "open", lots'[i].status = "closed"
  PROVE  i \in DOMAIN plan.legs
  <1>1. lots'[i] # lots[i]
    OBVIOUS
  <1>2. DOMAIN lots[i] = LotFields
    BY DEF Inductive, LotsAreLinked
  <1>3. ASSUME NEW a \in Actions, NEW seen \in BooksOf[ActionOf[a].token], Decide(a, seen)
        PROVE  FALSE
    <2>1. Tables
      BY DEF Inductive
    <2>2. lots' = lots \/ \E lot : lots' = Append(lots, lot)
      BY <1>3, <2>1, DecisionOpensALot DEF Opens
    <2> QED
      BY <1>1, <2>1, <2>2, TableGains
  <1>4. ASSUME NEW t, NEW p, Settle(t, p)
        PROVE  FALSE
    <2>1. lots'[i] = IF ~ Settles(lots[i], t) THEN lots[i]
                     ELSE [lots[i] EXCEPT !.pnl = @ + (p - lots[i].entry) * lots[i].open,
                                          !.open = 0, !.status = "settled"]
      BY <1>4 DEF Settle, SettleLots
    <2> QED
      BY <1>1, <1>2, <2>1 DEF LotFields
  <1>5. ASSUME NEW p, ApplyTheExit(p)
        PROVE  i \in DOMAIN plan.legs
    <2>1. ~ (SoldOf(lots, plan, i) <= 0)
      BY <1>1, <1>5, Zenon DEF ApplyTheExit, ApplyExit
    <2> QED
      BY <2>1 DEF SoldOf
  <1>6. lots' # lots
    BY <1>1
  <1> QED
    BY <1>3, <1>4, <1>5, <1>6
       DEF Next, BumpPolicy, Break, ResolveBreak, NextDay, GoLive, PlanAnExit, Mark, RunGate,
           RequestLive, StandDown, vars, book

\* An exit is mirrored on the open lots of the source that exits, oldest first
\* and for the share that it cuts (plan_exit of lots.py); a lot is closed by an
\* exit only when its plan names it (apply_exit), whatever was opened, settled
\* or decided in between.
THEOREM ExitsMirrorTheirSource == Spec => ExitMirrorsItsSource
  <1> DEFINE MirrorsIt ==
        /\ plan' # plan /\ plan' # NoPlan =>
            LET ids == DOMAIN plan'.legs
                ours == {i \in DOMAIN lots : {lots[i].wallet} = plan'.wallet /\ lots[i].open > 0
                            /\ \A j \in ids : lots[i].token = lots[j].token}
            IN  /\ ids \subseteq ours
                /\ TotalQuantity(plan') = Percent(Lesser(plan'.ratio, 100), Held(lots, ours))
                /\ \A i \in ids, j \in ours : lots[j].openedAt < lots[i].openedAt =>
                       j \in ids /\ plan'.legs[j] = lots[j].open
        /\ \A i \in DOMAIN lots : lots'[i].status = "closed" /\ lots[i].status = "open" =>
            i \in DOMAIN plan.legs
  <1>1. Inductive /\ BookHolds /\ [Next]_vars => MirrorsIt
    BY PlansAreMade, SalesArePlanned
  <1>2. Inductive /\ BookHolds /\ [Next]_vars => [MirrorsIt]_vars
    BY <1>1
  <1>3. Spec => [][Inductive /\ BookHolds /\ [Next]_vars]_vars
    BY AlwaysHolds, PTL DEF Spec
  <1> QED
    BY <1>2, <1>3, PTL DEF ExitMirrorsItsSource
=============================================================================
