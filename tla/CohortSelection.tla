--------------------------- MODULE CohortSelection ---------------------------
(***************************************************************************)
(* Which wallets may be followed: how copyable their entries were          *)
(* (analytics/copyability.py), which of them act as one (clustering.py),   *)
(* and the vetoes and the feeder slots of the cohort (cohort.py).          *)
(* Pure operators over sets of trades and of scored episodes.              *)
(***************************************************************************)
EXTENDS WalletScoring

CONSTANTS
    MarketOf,       \* [token |-> its market]
    CopyDelay,      \* DEFAULT_DELAY_SECONDS
    Window,         \* clustering.DEFAULT_WINDOW
    Lookback,
    Threshold,      \* DEFAULT_THRESHOLD, per cent
    MinOverlap,
    CohortPolicy,   \* cohort.CohortPolicy, without max_feeder
    Day             \* how many instants make a day

-----------------------------------------------------------------------------
(* Copyability.                                                             *)

\* price_cap: the premium over the source's price that a copier accepts.
EntryCap(price) == Min({200, Max({50, (8 * Min({price, 10000 - price})) \div 100})})

\* probe_entry: the price a copier would have met.
CopierPrice(s, quotes, asOf) == PriceAt(quotes, s.token, s.openedAt + CopyDelay, asOf)

\* EntryProbe.slippage, of an entry that has a price: what it costs the copier.
Slippage(s, quotes, asOf) == Favoured(s, The(CopierPrice(s, quotes, asOf)))

\* The k-th smallest of the values that `f` takes, with repetitions.
Kth(f, k) == Min({v \in Range(f) : Cardinality({x \in DOMAIN f : f[x] <= v}) >= k})

Median(f) ==
    LET n == Cardinality(DOMAIN f)
    IN  IF n = 0 THEN {} ELSE {(Kth(f, (n + 1) \div 2) + Kth(f, n \div 2 + 1)) \div 2}

\* compose, without spreads: a penalty for slippage, no bonus for its absence.
Compose(fraction, slippage) ==
    IF fraction = {} THEN {} ELSE {(200 * The(fraction)) \div (200 + Max({0, The(slippage)}))}

\* measure: `slippage` maps the entries that could be priced, and no others.
Measured(n, slippage) ==
    LET copyable == {s \in DOMAIN slippage : slippage[s] <= EntryCap(s.entry)}
        measured == Cardinality(DOMAIN slippage)
        fraction == IF measured = 0 THEN {} ELSE {(10000 * Cardinality(copyable)) \div measured}
    IN  [entries |-> n, measured |-> measured, fraction |-> fraction,
         copyability |-> Compose(fraction, Median(slippage))]

Measure(scored, quotes, asOf) ==
    Measured(Cardinality(scored),
             [s \in {s \in scored : CopierPrice(s, quotes, asOf) # {}} |->
                 Slippage(s, quotes, asOf)])

-----------------------------------------------------------------------------
(* Clusters of wallets that act together.                                   *)

InLookback(trades, asOf) == {t \in trades : asOf - Lookback <= t.at /\ t.at <= asOf}

\* _directional_rate: the actions that another wallet's match, within the window.
Matched(mine, theirs) ==
    {a \in mine : \E b \in theirs :
        a.token = b.token /\ a.side = b.side /\ Magnitude(a.at - b.at) <= Window}

\* score_pair and the bars of build_clusters: enough overlap, and a rate of
\* coincidence that reaches the threshold in both directions.
Linked(mine, theirs) ==
    /\ \A n \in {Cardinality(Matched(mine, theirs)), Cardinality(Matched(theirs, mine))} :
        n >= MinOverlap
    /\ 100 * Cardinality(Matched(mine, theirs)) >= Threshold * Cardinality(mine)
    /\ 100 * Cardinality(Matched(theirs, mine)) >= Threshold * Cardinality(theirs)

\* _UnionFind.find: the parents are followed to the root; the compression of the
\* path, which changes no root, is left out.
Find(parent, x) ==
    FoldLeft(LAMBDA r, i : parent[r], x, [i \in 1..Cardinality(DOMAIN parent) |-> i])

\* Faulty variant: the second wallet leaves its own group behind.
UnionOfLeaves(parent, x, y) == [parent EXCEPT ![y] = Find(parent, x)]

Union(parent, x, y) == [parent EXCEPT ![Find(parent, y)] = Find(parent, x)]

\* build_clusters: the pairs in order, each linked one united.
BuildClusters(trades, asOf) ==
    LET recent == InLookback(trades, asOf)
        wallets == {t.wallet : t \in recent}
        Of(w) == {t \in recent : t.wallet = w}
        pairs == SetToSortSeq({p \in wallets \X wallets : p[1] < p[2] /\ Linked(Of(p[1]), Of(p[2]))},
                              LAMBDA p, q : p[1] < q[1] \/ (p[1] = q[1] /\ p[2] < q[2]))
        parent == FoldLeft(LAMBDA u, p : Union(u, p[1], p[2]), [w \in wallets |-> w], pairs)
    IN  {{v \in wallets : Find(parent, v) = Find(parent, w)} : w \in wallets}

\* A cluster is keyed by its smallest member.
ClusterKey(members) == Min(members)

-----------------------------------------------------------------------------
(* The cohort.                                                              *)

\* _load_facts: a wallet's activity, and the share of it in sports, if at least
\* four fifths of it could be classified.  `isSports` is a partial function of
\* events; n_closed_markets counts the markets traded, closed or not.
Activity(trades, isSports) ==
    LET classified == {t \in trades : EventOf[t.token] \in DOMAIN isSports}
        sports == {t \in classified : isSports[EventOf[t.token]]}
    IN  [days |-> Cardinality({t.at \div Day : t \in trades}),
         markets |-> Cardinality({MarketOf[t.token] : t \in trades}),
         notional |-> MapThenSumSet(LAMBDA t : t.price * t.quantity, trades),
         sportsShare |->
            IF classified # {} /\ 5 * Cardinality(classified) >= 4 * Cardinality(trades)
            THEN {(100 * Cardinality(sports)) \div Cardinality(classified)} ELSE {}]

\* evaluate: every veto must be passed.  `score` and `copied` are optional.
Eligible(activity, score, copied) ==
    /\ activity.days >= CohortPolicy.days
    /\ activity.markets >= CohortPolicy.markets
    /\ activity.notional >= CohortPolicy.notional
    /\ \E s \in score :
        /\ s.effective >= CohortPolicy.effective
        /\ \E e \in s.edgeLcb : e > CohortPolicy.edgeLcb
        /\ s.survivor
        /\ \A c \in s.concentration : c <= CohortPolicy.concentration
    /\ \E c \in copied :
        /\ c.measured >= CohortPolicy.measured
        /\ \E f \in c.fraction : f >= CohortPolicy.fraction
        /\ \E x \in c.copyability : x >= CohortPolicy.copyability
    /\ \E share \in activity.sportsShare : share <= CohortPolicy.sportsShare

\* The weights of skill, copyability and confidence, in per cent.
RankScore(score, copied) ==
    {55 * The(s.skill) + 30 * The(c.copyability) + 15 * Max(s.confidence \cup {0}) :
        <<s, c>> \in {p \in score \X copied : p[1].skill # {} /\ p[2].copyability # {}}}

\* One slot per cluster, and no more than max_feeder.
SlotFree(key, taken, maxFeeder) == key \notin taken /\ Cardinality(taken) < maxFeeder

\* select: the decision on every wallet.  `facts` maps a wallet to its activity,
\* score and copyability, `clusterOf` those that have one to their cluster.
Select(facts, clusterOf, maxFeeder) ==
    LET Key(w) == IF w \in DOMAIN clusterOf THEN clusterOf[w] ELSE w
        eligible == {w \in DOMAIN facts :
            Eligible(facts[w].activity, facts[w].score, facts[w].copied)}
        rank == [w \in {w \in eligible : RankScore(facts[w].score, facts[w].copied) # {}} |->
            The(RankScore(facts[w].score, facts[w].copied))]
        ranked == SetToSortSeq(DOMAIN rank,
            LAMBDA v, w : rank[v] > rank[w] \/ (rank[v] = rank[w] /\ v < w))
        tracked == SubSeq(ranked, 1, Min({Len(ranked), CohortPolicy.maxCohort}))
        Take(slots, w) == IF SlotFree(Key(w), slots.taken, maxFeeder)
                          THEN [taken |-> slots.taken \cup {Key(w)}, feeders |-> slots.feeders \cup {w}]
                          ELSE slots
        feeders == FoldLeft(Take, [taken |-> {}, feeders |-> {}], tracked).feeders
    IN  [w \in DOMAIN facts |->
            [status |-> IF w \in feeders THEN "feeder"
                        ELSE IF w \in eligible THEN "cohort" ELSE "excluded",
             cluster |-> Key(w),
             rank |-> {i \in DOMAIN tracked : tracked[i] = w}]]
=============================================================================
