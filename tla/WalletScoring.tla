---------------------------- MODULE WalletScoring ----------------------------
(***************************************************************************)
(* What a wallet is worth: its settled episodes (analytics/pipeline.py),   *)
(* their metrics (metrics.py), the statistics that judge them              *)
(* (statistics.py), the snapshot and its tier (scorer.py).  Pure           *)
(* operators over sets of episodes.                                        *)
(*                                                                         *)
(* Prices, edges and scores are integers in basis points, probabilities in *)
(* per mille, fills and cash as in TradeEpisodes; quotients round down.    *)
(***************************************************************************)
EXTENDS TradeEpisodes, TLC

CONSTANTS
    FeeRate,        \* pipeline.DEFAULT_FEE_RATE
    EventOf,        \* [token |-> the venue event of its market, or NoEvent]
    NoEvent,
    MinClusters,    \* MIN_CLUSTERS_FOR_BOOTSTRAP
    FdrQ,           \* per mille
    TierPolicy      \* scorer.TierPolicy: effective, concentration, edgeLcb

The(option) == CHOOSE x \in option : TRUE

\* What `op` adds up to over the set, as a mean; nothing of the empty set.
MeanOver(op(_), S) ==
    IF S = {} THEN {} ELSE {MapThenSumSet(op, S) \div Cardinality(S)}

-----------------------------------------------------------------------------
(* Scored episodes.                                                         *)

\* Long the token, it pays the settled price; short, the complement.
PayoffFor(episode, price) ==
    IF episode.direction = "BUY" THEN 100 * price ELSE 10000 - 100 * price

Scored(episode, row) ==
    [payoff |-> PayoffFor(episode, row.price), entry |-> The(episode.entryVwap),
     event |-> EventOf[episode.token], settledAt |-> row.at] @@ episode

\* `settlements` is a partial function from tokens to [price, at].  An episode
\* without a settlement or an entry price cannot be measured.
BuildScored(trades, settlements) ==
    {Scored(e, settlements[e.token]) : e \in
        {e \in BuildAll(trades, [k \in DOMAIN settlements |-> settlements[k].price]) :
            e.token \in DOMAIN settlements /\ e.entryVwap # {}}}

LoadTrades(trades, asOf) == {t \in trades : t.at <= asOf}

LoadResolutions(settlements, asOf) ==
    [k \in {k \in DOMAIN settlements : settlements[k].at <= asOf} |-> settlements[k]]

LoadAndBuild(trades, settlements, asOf) ==
    BuildScored(LoadTrades(trades, asOf), LoadResolutions(settlements, asOf))

\* Faulty variant: an episode counts as known when its last fill is.
ObservableAtLastFill(s) == IF s.closedAt # {} THEN The(s.closedAt) ELSE s.settledAt

\* The payoff of an episode is known at the settlement, not at the last fill.
ObservableAt(s) == s.settledAt

FilterAsOf(scored, asOf) ==
    {s \in scored : ObservableAt(s) <= asOf /\ s.openedAt <= asOf}

ForwardEpisodes(scored, start, end) ==
    {s \in scored : start < ObservableAt(s) /\ ObservableAt(s) <= end}

-----------------------------------------------------------------------------
(* Metrics.                                                                 *)

ExcessEdge(s) == s.payoff - s.entry - FeeRate
EpisodePnl(s) == s.realized + s.resolution

\* The share of the best episode in the gross profit.
ProfitConcentration(scored) ==
    LET gains == {s \in scored : EpisodePnl(s) > 0}
    IN  IF gains = {} THEN {}
        ELSE {(10000 * Max({EpisodePnl(s) : s \in gains}))
              \div MapThenSumSet(EpisodePnl, gains)}

\* price_at: the latest mid of the token up to `when`, and never past `asOf`.
\* `quotes` is a set of [token, at, mid], one per token and instant.
PriceAt(quotes, token, when, asOf) ==
    LET known == {q \in quotes : q.token = token /\ q.at <= Min({when, asOf})}
    IN  {q.mid : q \in {q \in known : \A r \in known : r.at <= q.at}}

Favoured(s, price) == IF s.direction = "BUY" THEN price - s.entry ELSE s.entry - price

\* The mean move in the wallet's favour `horizon` after it entered.
Markout(scored, quotes, horizon, asOf) ==
    LET Forward(s) == PriceAt(quotes, s.token, s.openedAt + horizon, asOf)
    IN  MeanOver(LAMBDA s : Favoured(s, The(Forward(s))), {s \in scored : Forward(s) # {}})

-----------------------------------------------------------------------------
(* Statistics.                                                              *)

\* Episodes of one event are one block; those without an event stand alone.
Blocks(scored) ==
    {{s} : s \in {s \in scored : s.event = NoEvent}}
    \cup {{s \in scored : s.event = v} : v \in {s.event : s \in scored} \ {NoEvent}}

\* In hundredths.
Root(n) == CHOOSE r \in 0..100 * n : r * r <= 10000 * n /\ 10000 * n < (r + 1) * (r + 1)

\* effective_events: a block of n episodes is worth the root of n.
EffectiveEvents(scored) == MapThenSumSet(LAMBDA b : Root(Cardinality(b)), Blocks(scored))

\* event_block_bootstrap, in the limit of many resamples: as many blocks as there
\* are, drawn with replacement, and 25 per mille of the means beyond each bound.
\* It refuses too few blocks.
Resample(draw, blocks) ==
    MapThenSumSet(LAMBDA b : MapThenSumSet(ExcessEdge, draw[b]), blocks)
    \div MapThenSumSet(LAMBDA b : Cardinality(draw[b]), blocks)

\* `means` is the mean of each draw.
Quantile(means, q) ==
    Min({v \in Range(means) :
        1000 * Cardinality({d \in DOMAIN means : means[d] <= v}) > q * Cardinality(DOMAIN means)})

Interval(scored, means) ==
    {[point |-> v, lower |-> Quantile(means, 25), upper |-> Quantile(means, 975)] :
        v \in MeanOver(ExcessEdge, scored)}

BlockBootstrap(scored, blocks) ==
    IF Cardinality(blocks) < MinClusters THEN {}
    ELSE Interval(scored, [draw \in [blocks -> blocks] |-> Resample(draw, blocks)])

Bootstrap(scored) == BlockBootstrap(scored, Blocks(scored))

\* The upper tail of the standard normal, at z in hundredths, rounded up to a few steps.
UpperTail(z) ==
    Min({step[2] : step \in {step \in {<<0, 500>>, <<52, 302>>, <<84, 201>>, <<128, 101>>,
                                       <<164, 51>>, <<233, 10>>, <<309, 1>>} : step[1] <= z}
                   \cup {<<z, 1000>>}})

\* one_sided_p_value, from the normal that the interval implies; 1 without an interval.
PValue(boot) ==
    Min({1000} \cup {IF b.upper > b.lower THEN UpperTail((392 * b.point) \div (b.upper - b.lower))
                     ELSE IF b.point > 0 THEN 0 ELSE 1000 : b \in boot})

\* benjamini_hochberg: the wallets whose p-value is no larger than some p-value
\* that is small enough for its rank.
Survivors(p) ==
    LET Rank(w) == Cardinality({v \in DOMAIN p : p[v] <= p[w]})
        passing == {w \in DOMAIN p : p[w] * Cardinality(DOMAIN p) <= Rank(w) * FdrQ}
    IN  {w \in DOMAIN p : \E v \in passing : p[w] <= p[v]}

-----------------------------------------------------------------------------
(* Snapshots and tiers.                                                     *)

\* How tight the interval is, times how much there is behind it.
Confidence(boot, effective) ==
    {((100000000 \div (10000 + b.upper - b.lower)) * Min({3000, effective})) \div 3000 : b \in boot}

\* score_wallet, from an interval and the effective events; what concerns the
\* universe and the time after is filled in later.
Snapshot(scored, boot, effective) ==
    [effective |-> effective, skill |-> MeanOver(ExcessEdge, scored),
     edgeLcb |-> {b.lower : b \in boot},
     concentration |-> ProfitConcentration(scored),
     confidence |-> Confidence(boot, effective),
     p |-> PValue(boot)]

ScoreWallet(scored) == Snapshot(scored, Bootstrap(scored), EffectiveEvents(scored))

ScoreAll(known) ==
    [w \in {s.wallet : s \in known} |-> ScoreWallet({s \in known : s.wallet = w})]

MarkSurvivors(scores, survivors) ==
    [w \in DOMAIN scores |-> [survivor |-> w \in survivors] @@ scores[w]]

WithSurvivors(scores) ==
    MarkSurvivors(scores, Survivors([w \in DOMAIN scores |-> scores[w].p]))

\* score_universe: the wallets with episodes, and who survives among them all.
ScoreUniverse(scored, asOf) == WithSurvivors(ScoreAll(FilterAsOf(scored, asOf)))

\* _mean_edge: the mean over the blocks of the mean within each.
MeanEdge(scored) == MeanOver(LAMBDA b : The(MeanOver(ExcessEdge, b)), Blocks(scored))

\* attach_out_of_sample
WithOutOfSample(scores, forward, asOf, horizon) ==
    LET window == ForwardEpisodes(forward, asOf, asOf + horizon)
    IN  [w \in DOMAIN scores |->
            [outOfSample |-> MeanEdge({s \in window : s.wallet = w})] @@ scores[w]]

\* assign_tier
AssignTier(score) ==
    LET edgePositive == \E e \in score.edgeLcb : e > TierPolicy.edgeLcb
        concentrationOk == \A c \in score.concentration : c <= TierPolicy.concentration
    IN  IF /\ score.effective >= TierPolicy.effective
           /\ edgePositive /\ score.survivor /\ concentrationOk
           /\ \E o \in score.outOfSample : o > 0
        THEN "A"
        ELSE IF edgePositive /\ concentrationOk THEN "B" ELSE "C"
=============================================================================
