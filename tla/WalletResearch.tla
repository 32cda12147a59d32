--------------------------- MODULE WalletResearch ---------------------------
(***************************************************************************)
(* The research jobs over the imported trades (analytics/cli.py,           *)
(* analytics/cohort_cli.py and their stores).  Trades arrive when the      *)
(* wallet sync gets to them, possibly long after they were made;           *)
(* settlements arrive with the registry, and move when the venue touches a *)
(* settled market again.  An operator classifies events, clusters and      *)
(* scores the wallets, measures how copyable they are, and selects the     *)
(* cohort, each job as of an instant of the operator's choice.             *)
(***************************************************************************)
EXTENDS CohortSelection, AlphaGate

CONSTANTS
    Pages,          \* the pages of trades there are to import
    Settlements,    \* [market |-> the ways it may settle: [token |-> price]]
    Quotes,         \* the history of market_quotes: a set of [token, at, mid]
    SportsEvents,   \* the events the taxonomy decides are sports,
    OtherEvents,    \* and those it decides are not
    ClassifyLimit,
    AsOfs,          \* the instants that jobs are run as of
    Horizon,        \* horizon_days
    FoldStep,       \* step_days
    Start,          \* where walk-forward evaluations start
    FeederLimits,   \* the values of --max-feeder
    LastInstant,    \* bound: time
    MaxRuns,        \* bound: [job |-> how often it is run]
    MaxTouches,     \* bound: updates of settled markets
    MaxLate         \* bound: what is imported or settled after the first job

ASSUME ResearchAssumption ==
    /\ AsOfs \subseteq Nat /\ FeederLimits \subseteq Nat
    /\ Horizon \in Nat /\ FoldStep \in Nat \ {0} /\ Start \in Nat
    /\ LastInstant \in Nat /\ MaxTouches \in Nat /\ MaxLate \in Nat
    /\ MaxRuns \in [{"score", "copy", "cluster", "select"} -> Nat]

VARIABLES
    now,
    trades,         \* venue_trades
    settlements,    \* outcomes and markets: [token |-> [price, at]] of the settled
    isSports,       \* event_classifications
    scores,         \* wallet_score_snapshots: [<<wallet, asOf>> |-> snapshot]
    tiers,          \* wallet_tier_snapshots
    copyability,    \* wallet_copyability_snapshots
    clusters,       \* wallet_clusters with their members: [<<asOf, key>> |-> wallets]
    cohort,         \* wallet_cohort: [<<wallet, asOf>> |-> decision]
    storedLimit,    \* scoring_policies: max_feeder of the stored policy, if any
    runs, touches, late,
    components      \* history: [asOf |-> who was connected when it was last clustered]

data == <<now, trades, settlements, touches, late>>
tables == <<isSports, scores, tiers, copyability, clusters, cohort, storedLimit>>
vars == <<data, tables, runs, components>>

Tokens == DOMAIN EventOf
Instants == 0..LastInstant
Events == SportsEvents \cup OtherEvents
TokensOf(market) == {k \in Tokens : MarketOf[k] = market}

Init ==
    /\ now = 0 /\ trades = {} /\ settlements = <<>> /\ touches = 0 /\ late = 0
    /\ isSports = <<>> /\ scores = <<>> /\ tiers = <<>> /\ copyability = <<>>
    /\ clusters = <<>> /\ cohort = <<>> /\ storedLimit = {}
    /\ runs = [job \in DOMAIN MaxRuns |-> 0] /\ components = <<>>

-----------------------------------------------------------------------------
(* What the other components write.                                         *)

\* What a job may not have seen is bounded.
Late ==
    LET seen == \E job \in DOMAIN runs : runs[job] > 0
    IN  /\ seen => late < MaxLate
        /\ late' = IF seen THEN late + 1 ELSE late

Tick ==
    /\ now < LastInstant /\ now' = now + 1
    /\ UNCHANGED <<trades, settlements, touches, late, tables, runs, components>>

\* Trades are made before their market settles, and imported at some time after.
Import(page) ==
    /\ Late
    /\ ~(page \subseteq trades)
    /\ \A t \in page :
        /\ t.at <= now
        /\ t.token \in DOMAIN settlements => t.at <= settlements[t.token].at
    /\ trades' = trades \cup page
    /\ UNCHANGED <<now, settlements, touches, tables, runs, components>>

\* parse_market and _write_market: resolved_at is the updatedAt of a resolved market.
Settle(market, prices) ==
    /\ Late
    /\ TokensOf(market) \cap DOMAIN settlements = {}
    /\ settlements' = [k \in DOMAIN prices |-> [price |-> prices[k], at |-> now]] @@ settlements
    /\ UNCHANGED <<now, trades, touches, tables, runs, components>>

\* The venue updates a settled market, and a sweep writes the new updatedAt.
Touch(market) ==
    /\ Late
    /\ touches < MaxTouches /\ touches' = touches + 1
    /\ \E k \in TokensOf(market) \cap DOMAIN settlements : settlements[k].at < now
    /\ settlements' = [k \in DOMAIN settlements |->
            IF MarketOf[k] = market THEN [settlements[k] EXCEPT !.at = now] ELSE settlements[k]]
    /\ UNCHANGED <<now, trades, tables, runs, components>>

-----------------------------------------------------------------------------
(* The jobs.                                                                *)

\* Bound: the instants that jobs are run as of.
Past == {t \in AsOfs : t <= now}

Job(job) ==
    /\ runs[job] < MaxRuns[job] /\ runs' = [runs EXCEPT ![job] = @ + 1]
    /\ UNCHANGED data

Loaded(asOf) == LoadAndBuild(trades, settlements, asOf)

\* Of the events without a row, some are looked at; an undecidable one stays without.
ClassifyEvents ==
    /\ LET missing == {EventOf[k] : k \in Tokens} \ (DOMAIN isSports \cup {NoEvent})
       IN  \E batch \in SUBSET missing :
            /\ batch # {}
            /\ Cardinality(batch) = Min({ClassifyLimit, Cardinality(missing)})
            /\ isSports' = [e \in batch \cap Events |-> e \in SportsEvents] @@ isSports
    /\ UNCHANGED <<data, scores, tiers, copyability, clusters, cohort, storedLimit, runs, components>>

\* The forward window only fills out_of_sample_score.
Score(asOf) ==
    /\ Job("score")
    /\ \E scored \in {WithOutOfSample(ScoreUniverse(Loaded(asOf), asOf),
                                      Loaded(asOf + Horizon), asOf, Horizon)} :
        LET keys == {<<w, asOf>> : w \in DOMAIN scored}
        IN  /\ scores' = [k \in keys |-> scored[k[1]]] @@ scores
            /\ tiers' = [k \in keys |-> AssignTier(scored[k[1]])] @@ tiers
    /\ UNCHANGED <<isSports, copyability, clusters, cohort, storedLimit, components>>

\* measure and record_copyability, which no command of the repository calls.
MeasureCopyability(asOf) ==
    /\ Job("copy")
    /\ LET known == FilterAsOf(Loaded(asOf), asOf)
           recorded == {q \in Quotes : q.at <= now}
       IN  copyability' =
            [k \in {<<s.wallet, asOf>> : s \in known} |->
                Measure({s \in known : s.wallet = k[1]}, recorded, asOf)] @@ copyability
    /\ UNCHANGED <<isSports, scores, tiers, clusters, cohort, storedLimit, components>>

\* By the definition of a cluster: who is connected with whom by a chain of links.
Connected(w, linked) ==
    LET Reach[n \in Nat] ==
            IF n = 0 THEN {w}
            ELSE Reach[n - 1] \cup {p[2] : p \in {p \in linked : p[1] \in Reach[n - 1]}}
    IN  Reach[Cardinality(linked)]

Links(wallets, Of(_)) ==
    {p \in wallets \X wallets : p[1] # p[2] /\ Linked(Of(p[1]), Of(p[2]))}

Components(recent) ==
    LET wallets == {t.wallet : t \in recent}
    IN  {Connected(w, linked) : w \in wallets,
            linked \in {Links(wallets, LAMBDA w : {t \in recent : t.wallet = w})}}

\* record_clusters: the members of a key are replaced; keys that no longer are stay.
Cluster(asOf) ==
    /\ Job("cluster")
    /\ LET built == BuildClusters(trades, asOf)
           keys == {<<asOf, ClusterKey(c)>> : c \in built}
       IN  clusters' = [k \in keys |-> CHOOSE c \in built : ClusterKey(c) = k[2]] @@ clusters
    /\ components' = (asOf :> Components(InLookback(trades, asOf))) @@ components
    /\ UNCHANGED <<isSports, scores, tiers, copyability, cohort, storedLimit>>

\* _load_facts: of each wallet with trades, the activity and the latest snapshots.
LatestOf(rows, w, asOf) ==
    {rows[k] : k \in {k \in DOMAIN rows :
        k[1] = w /\ k[2] <= asOf /\ \A j \in DOMAIN rows : j[1] = w /\ j[2] <= asOf => j[2] <= k[2]}}

LoadFacts(asOf) ==
    LET known == LoadTrades(trades, asOf)
    IN  [w \in {t.wallet : t \in known} |->
            [activity |-> Activity({t \in known : t.wallet = w}, isSports),
             score |-> LatestOf(scores, w, asOf), copied |-> LatestOf(copyability, w, asOf)]]

\* _load_clusters: the rows of the latest clustering; of a wallet with two, any.
LatestClustering(asOf) ==
    LET times == {k[1] : k \in DOMAIN clusters}
    IN  {c \in times : c <= asOf /\ \A d \in times : d <= asOf => d <= c}

LoadClusters(asOf) ==
    LET rows == {k \in DOMAIN clusters : k[1] \in LatestClustering(asOf)}
        members == UNION {clusters[k] : k \in rows}
    IN  {f \in [members -> {k[2] : k \in rows}] :
            \A w \in members : \E k \in rows : k[2] = f[w] /\ w \in clusters[k]}

\* select_cohort; the policy is stored under its version, whatever its limit.
SelectCohort(asOf, maxFeeder) ==
    /\ Job("select")
    /\ \E clusterOf \in LoadClusters(asOf) :
        LET decisions == Select(LoadFacts(asOf), clusterOf, maxFeeder)
            keys == {<<w, asOf>> : w \in DOMAIN decisions}
        IN  cohort' = [k \in keys |-> decisions[k[1]]] @@ cohort
    /\ storedLimit' = {maxFeeder}
    /\ UNCHANGED <<isSports, scores, tiers, copyability, clusters, components>>

Next ==
    \/ Tick
    \/ \E page \in Pages : Import(page)
    \/ \E m \in DOMAIN Settlements : Touch(m)
    \/ \E m \in DOMAIN Settlements : \E prices \in Settlements[m] : Settle(m, prices)
    \/ ClassifyEvents
    \/ \E asOf \in Past : Score(asOf)
    \/ \E asOf \in Past : MeasureCopyability(asOf)
    \/ \E asOf \in Past : Cluster(asOf)
    \/ \E asOf \in Past : \E limit \in FeederLimits : SelectCohort(asOf, limit)

Spec == Init /\ [][Next]_vars

-----------------------------------------------------------------------------
(* Properties.                                                              *)

SharesOf(fills) == MapThenSumSet(LAMBDA t : Entry(t).shares, fills)

Partitioned(fills, episodes) ==
    /\ \A t \in fills : Cardinality({e \in episodes : t.id \in ToSet(e.fills)}) = 1
    /\ \A e \in episodes : \A n \in 1..Len(e.fills) :
        LET Upto == {t \in fills : t.id \in ToSet(SubSeq(e.fills, 1, n))}
            held == SharesOf(Upto)
        IN  /\ IF held = 0 THEN n = Len(e.fills) ELSE (held > 0) = (e.direction = "BUY")
            /\ \A t, u \in Upto : n > 1 /\ t.id = e.fills[n] /\ u.id = e.fills[n - 1]
                    => u.at <= t.at /\ t.at <= u.at + InactivityGap

Balanced(fills, settled, episodes) ==
    \A w \in {t.wallet : t \in fills} : \A k \in DOMAIN settled :
        LET ours == {t \in fills : t.wallet = w /\ t.token = k}
        IN  MapThenSumSet(EpisodePnl, {e \in episodes : e.wallet = w /\ e.token = k})
              = MapThenSumSet(LAMBDA t : Entry(t).cash, ours) + settled[k].price * SharesOf(ours)

\* Every fill belongs to exactly one decision, and to one it can be part of: within
\* an episode the position only returns to zero at its end, never turns around, and
\* no silence exceeds the gap.  What the episodes of a token earned is the cash that
\* moved plus the settled value of what the wallet still holds
\* (ledger/episodes.py).
EpisodesPartitionFills ==
    [][<<trades, settlements>>' # <<trades, settlements>> =>
        \E episodes \in {BuildAll(trades', [k \in DOMAIN settlements' |-> settlements'[k].price])} :
            Partitioned(trades', episodes) /\ Balanced(trades', settlements', episodes)]_vars

SeesNoLater(upToT, later, T) ==
    /\ FilterAsOf(later, T) = upToT
    /\ \A S \in 0..T :
        /\ ForwardEpisodes(later, S, T) = ForwardEpisodes(upToT, S, T)
        /\ ForwardEpisodes(later, S, T) \cap FilterAsOf(later, S) = {}

QuotesBind(scored, early, T) ==
    /\ Markout(scored, early, Horizon, T) = Markout(scored, Quotes, Horizon, T)
    /\ Measure(scored, early, T) = Measure(scored, Quotes, T)

\* Whatever has been imported and settled: a fold of the walk-forward evaluation sees what
\* the scoring job of its instant sees, although it filters episodes that were built
\* with all later data; the window after it is the same either way, and shares no
\* episode with what came before; and no quote later than the instant counts
\* (analytics/scorer.py filter_as_of, backtest/walkforward.py _forward_episodes).
NoLookAhead ==
    [][<<trades, settlements>>' # <<trades, settlements>> =>
        \A T \in Instants : \E upToT \in {LoadAndBuild(trades', settlements', T)} :
            /\ \A U \in T..LastInstant :
                \E later \in {LoadAndBuild(trades', settlements', U)} : SeesNoLater(upToT, later, T)
            /\ QuotesBind(upToT, {q \in Quotes : q.at <= T}, T)]_vars

CohortAt(rows, asOf) == [k \in {k \in DOMAIN rows : k[2] = asOf} |-> rows[k]]
FeedersAt(rows, asOf) == {k[1] : k \in {k \in DOMAIN rows : k[2] = asOf /\ rows[k].status = "feeder"}}

\* No wallet is in two clusters of the instant.
Unambiguous(asOf) ==
    \A k, j \in DOMAIN clusters : k[1] = asOf /\ j[1] = asOf /\ k # j => clusters[k] \cap clusters[j] = {}

\* A selection mirrors no more wallets than it was allowed, and no two that a chain
\* of coincidences connected when the wallets were last clustered, unless that instant
\* was clustered twice with different outcomes (analytics/cohort.py select).
FeedersAreIndependent ==
    [][\A T \in AsOfs : CohortAt(cohort', T) # CohortAt(cohort, T) =>
        LET feeders == FeedersAt(cohort', T)
        IN  /\ \A limit \in storedLimit' : Cardinality(feeders) <= limit
            /\ \A c \in LatestClustering(T) : Unambiguous(c) =>
                \A together \in components[c] : Cardinality(feeders \cap together) <= 1]_vars

\* The fold of T from what could be loaded at T, and at the end of its window.
FoldInTime(T, known, settled, universe) ==
    LET chosen == Fold(known, T, Horizon).selected
        all == ForwardEpisodes(settled, T, T + Horizon)
    IN  [at |-> T, selected |-> chosen, universe |-> universe,
         selectedEdge |-> MeanEdge({s \in all : s.wallet \in chosen}),
         baselineEdge |-> MeanEdge(all), episodes |-> all]

=============================================================================
