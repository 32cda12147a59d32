--------------------------- MODULE ShadowCampaign ---------------------------
(***************************************************************************)
(* A shadow campaign: source actions are evaluated and recorded            *)
(* (signals/pipeline.py, store.py), lots are opened, mirrored out of and   *)
(* settled (lots.py), the gate judges the trailing window (gate_store.py), *)
(* and a passing packet lets the console promote the system to live        *)
(* (src/app/api/console/mode/route.ts).                                    *)
(*                                                                         *)
(* The worker that calls these functions is not in the repository; as the  *)
(* tests do, it records the action, the evaluation and the lot of one      *)
(* decision together, folds it into the portfolio, and records the lots    *)
(* again after an exit.  An action that is known may be detected and       *)
(* evaluated again, as gate_store.py describes.  record_action answers its *)
(* second sighting with None, and the row is then without its action; a    *)
(* worker that kept the id of the first one writes a row under it, which   *)
(* the unique constraint allows once for each policy version.  An exit is  *)
(* planned when the source is seen to sell and applied when our own sale   *)
(* has its price, and anything may happen in between.                      *)
(***************************************************************************)
EXTENDS ShadowGate

CONSTANTS
    Actions,          \* the source actions of the instance, and
    ActionOf,         \* their fields
    SourceOf,         \* [wallet |-> the source's context, with its cluster]
    MarketOf,         \* [token |-> the market's context but for book and resolution]
    BooksOf,          \* [token |-> the books that may be seen, with their age]
    FeeRate,          \* in per cent
    Versions,         \* the policy versions, 1..n, in the order they are deployed
    InitialNav,
    Marks,            \* the values the portfolio may be marked at
    Ratios,           \* the shares a source may cut of its position
    ExitPrices,
    ExitFeePerUnit,
    GateWindows,      \* the values of --window-days
    EnvGate,          \* the three environment variables of the executor are set
    LastDay,          \* bound: the last day
    MaxDecisions,     \* bound: evaluations
    MaxRuns,          \* bound: recorded gate runs
    MaxUpsets,        \* bound: revaluations, breaks, deployments and pauses
    MaxExits          \* bound: planned exits

\* The fields of gates.MarketContext.
MarketFields ==
    {"market", "active", "closed", "resolved", "acceptingOrders", "negRisk", "isSports",
     "secondsLeft", "tickSize", "minOrderSize", "levels", "quoteAge"}

ASSUME ShadowCampaignAssumption ==
    /\ LastDay \in Nat /\ MaxDecisions \in Nat /\ MaxRuns \in Nat /\ MaxUpsets \in Nat /\ MaxExits \in Nat
    /\ EnvGate \in BOOLEAN /\ GateWindows \subseteq Int

\* Amounts are whole, and the fee rate is not negative.
ASSUME AmountAssumption ==
    /\ FeeRate \in Nat /\ ExitFeePerUnit \in Int /\ InitialNav \in Int
    /\ Marks \subseteq Int /\ Ratios \subseteq Int /\ ExitPrices \subseteq Int

\* An action is of a known wallet on a known token.
ASSUME ActionAssumption ==
    /\ \A a \in Actions :
          /\ ActionOf[a].wallet \in DOMAIN SourceOf
          /\ ActionOf[a].token \in DOMAIN MarketOf /\ ActionOf[a].vwap \in Int
    /\ \A w \in DOMAIN SourceOf :
          /\ SourceOf[w].rank \subseteq Int
          /\ \A c, d \in SourceOf[w].cluster : c = d
    /\ \A t \in DOMAIN MarketOf :
          /\ DOMAIN MarketOf[t] = MarketFields
          /\ \A seen \in BooksOf[t] : IsBookSide(seen.levels)

VARIABLES
    today,
    upsets,       \* revaluations, breaks, deployments and pauses so far
    version,      \* the policy version in force
    actions,      \* source_actions
    evaluations,  \* signal_evaluations
    fills,        \* shadow_fills
    lots,         \* strategy_lots, each with the index of its evaluation
    portfolio,    \* PortfolioState
    plan,         \* the exit in hand
    exits,        \* exits planned so far
    resolved,     \* tokens whose market has resolved
    received,     \* history: what exits and settlements have paid
    breaks,       \* unresolved reconciliation breaks
    gateRuns,     \* shadow_gate_runs
    mode,         \* risk_state.mode
    promotion     \* the packet a request to go live has read, before its update

decided == <<actions, evaluations, fills>>
book == <<lots, portfolio, plan, exits, resolved, received>>
console == <<gateRuns, mode, promotion>>
vars == <<today, upsets, version, decided, book, breaks, console>>

Tokens == DOMAIN MarketOf
MarketIds == {MarketOf[t].market : t \in Tokens}
Wallets == DOMAIN SourceOf
ClusterKeys == Wallets \cup UNION {SourceOf[w].cluster : w \in Wallets}

Init ==
    /\ today = 0 /\ upsets = 0 /\ version = 1
    /\ actions = <<>> /\ evaluations = <<>> /\ fills = <<>>
    /\ lots = <<>>
    /\ portfolio = [nav |-> InitialNav, cash |-> InitialNav, dayStartNav |-> InitialNav,
                    byMarket |-> [m \in MarketIds |-> 0],
                    byCluster |-> [k \in ClusterKeys |-> 0],
                    byTheme |-> <<>>,
                    openOrders |-> [m \in MarketIds |-> 0]]
    /\ plan = NoPlan /\ exits = 0
    /\ resolved = {} /\ received = 0
    /\ breaks = 0
    /\ gateRuns = <<>> /\ mode = "shadow" /\ promotion = {}

Upset == upsets < MaxUpsets /\ upsets' = upsets + 1

-----------------------------------------------------------------------------
(* Decisions.                                                               *)

\* evaluate_action, once qualify has answered: the record of one decision.
SizeAndFill(action, source, market, fund, evaluateIn, qualified) ==
    LET size == SizeEntry(fund, qualified.limit, qualified.depth, market.minOrderSize,
                          source.rank, source.rank, market.market, source.cluster, {})
        accepted == qualified.accepted /\ Actionable(size)
        fill == IF accepted /\ evaluateIn # "live"
                THEN {Simulate(action.side, size.quantity, qualified.limit, market.levels,
                               FeeRate, market.quoteAge)}
                ELSE {}
    IN  [accepted |-> accepted, fill |-> fill,
         rejectReason |-> IF ~qualified.accepted THEN qualified.rejectReason
                          ELSE size.skipped \cup {f.reason : f \in {g \in fill : ~g.filled}}]

Evaluate(action, source, market, fund, evaluateIn) ==
    SizeAndFill(action, source, market, fund, evaluateIn, Qualify(action, source, market))

\* Faulty variant: the last fill is taken for the whole exposure.
ApplyToPortfolioAssigning(fund, lot, fill) ==
    LET cost == fill.vwap * fill.quantity + fill.fees
    IN  [fund EXCEPT !.cash = @ - cost,
                     !.byMarket[lot.market] = cost,
                     !.byCluster[ClusterKey(lot)] = cost]

\* apply_to_portfolio, of the fill of an opened lot.
ApplyToPortfolio(fund, lot, fill) ==
    LET cost == fill.vwap * fill.quantity + fill.fees
    IN  [fund EXCEPT !.cash = @ - cost,
                     !.byMarket[lot.market] = @ + cost,
                     !.byCluster[ClusterKey(lot)] = @ + cost]

KnownActions == {actions[i].action : i \in DOMAIN actions}

\* unique (source_action_id, policy_version); nulls are distinct.
Evaluated(a) == \E i \in DOMAIN evaluations :
    evaluations[i].source = {a} /\ evaluations[i].version = version

\* The source_action_id an evaluation of a may be recorded with.
Links(a) ==
    (IF a \in KnownActions THEN {{}} ELSE {})
        \cup (IF Evaluated(a) THEN {} ELSE {{a}})

\* record_action, record_evaluation and record_lot, and the portfolio folded.
Record(a, link, action, source, market, ev) ==
    /\ actions' = IF a \in KnownActions THEN actions
                  ELSE Append(actions, [action |-> a, at |-> today, latency |-> action.latency])
    /\ evaluations' = Append(evaluations,
           [action |-> a, source |-> link, version |-> version, accepted |-> ev.accepted,
            reason |-> ev.rejectReason, at |-> today])
    /\ IF ev.fill = {} THEN UNCHANGED fills
       ELSE \E f \in ev.fill :
           fills' = Append(fills, [evaluation |-> Len(evaluations) + 1,
                                   filled |-> f.filled, at |-> today])
    /\ IF \A f \in ev.fill : ~f.filled THEN UNCHANGED <<lots, portfolio>>
       ELSE \E f \in ev.fill :
           LET lot == OpenLot(Len(evaluations) + 1, mode, action.wallet, source.cluster,
                              market.market, action.token, today, f.vwap, f.quantity, f.fees)
           IN  /\ lots' = Append(lots, lot)
               /\ portfolio' = ApplyToPortfolio(portfolio, lot, f)

\* evaluate_action for one action and one of the books it may meet, and the
\* record of it.
Decide(a, seen) ==
    /\ mode # "paused"
    /\ Len(evaluations) < MaxDecisions
    /\ LET action == ActionOf[a]
           source == SourceOf[action.wallet]
           market == [MarketOf[action.token] EXCEPT
                         !.levels = seen.levels, !.quoteAge = seen.age,
                         !.resolved = action.token \in resolved]
       IN  \E ev \in {Evaluate(action, source, market, portfolio, mode)}, link \in Links(a) :
               Record(a, link, action, source, market, ev)
    /\ UNCHANGED <<today, upsets, version, plan, exits, resolved, received, breaks, console>>

\* A new version of the signal policy is deployed.
BumpPolicy ==
    /\ Upset
    /\ version + 1 \in Versions
    /\ version' = version + 1
    /\ UNCHANGED <<today, decided, book, breaks, console>>

-----------------------------------------------------------------------------
(* The lots.                                                                *)

\* The source is seen to cut its position in the token.
PlanAnExit(wallet, token, ratio) ==
    /\ exits < MaxExits /\ plan = NoPlan
    /\ plan' = PlanExit(lots, wallet, token, ratio)
    /\ exits' = exits + 1
    /\ UNCHANGED <<today, upsets, version, decided, lots, portfolio, resolved, received, breaks, console>>

\* Our own sale has its price.
ApplyTheExit(price) ==
    /\ plan # NoPlan
    /\ LET exitFees == ExitFeePerUnit * TotalQuantity(plan)
       IN  /\ lots' = ApplyExit(lots, plan, price, exitFees)
           /\ received' = received + Proceeds(lots, plan, price, exitFees)
    /\ plan' = NoPlan
    /\ UNCHANGED <<today, upsets, version, decided, portfolio, exits, resolved, breaks, console>>

\* The token's market resolves, for or against it.
Settle(token, price) ==
    /\ token \notin resolved
    /\ resolved' = resolved \cup {token}
    /\ lots' = SettleLots(lots, token, price)
    /\ received' = received
           + price * Held(lots, {i \in DOMAIN lots : Settles(lots[i], token)})
    /\ UNCHANGED <<today, upsets, version, decided, portfolio, plan, exits, breaks, console>>

\* The caller revalues the portfolio.
Mark(value) ==
    /\ Upset
    /\ value # portfolio.nav
    /\ portfolio' = [portfolio EXCEPT !.nav = value]
    /\ UNCHANGED <<today, version, decided, lots, plan, exits, resolved, received, breaks, console>>

-----------------------------------------------------------------------------
(* The gate and the operating mode.                                         *)

Break ==
    /\ Upset
    /\ breaks = 0
    /\ breaks' = 1
    /\ UNCHANGED <<today, version, decided, book, console>>

ResolveBreak ==
    /\ breaks = 1
    /\ breaks' = 0
    /\ UNCHANGED <<today, upsets, version, decided, book, console>>

\* theta-signals gate --record --window-days
RunGate(days) ==
    /\ Len(gateRuns) < MaxRuns
    /\ gateRuns' = Append(gateRuns,
           Packet(actions, evaluations, fills, lots, breaks, days, today))
    /\ UNCHANGED <<today, upsets, version, decided, book, breaks, mode, promotion>>

Roles == {"viewer", "operator", "admin"}

\* POST /api/console/mode, live: the checks up to the answer of passingGate.
RequestLive(role, confirmed) ==
    /\ role = "admin" /\ confirmed /\ EnvGate
    /\ promotion = {} /\ LatestPassing(gateRuns) # {}
    /\ promotion' = LatestPassing(gateRuns)
    /\ UNCHANGED <<today, upsets, version, decided, book, breaks, gateRuns, mode>>

\* The same request: the update of risk_state.
GoLive ==
    /\ promotion # {}
    /\ mode' = "live"
    /\ promotion' = {}
    /\ UNCHANGED <<today, upsets, version, decided, book, breaks, gateRuns>>

\* POST /api/console/mode, paused or shadow: an operator may always do so.
StandDown(role, target) ==
    /\ role \in {"operator", "admin"} /\ target \in {"paused", "shadow"}
    /\ target # mode /\ Upset
    /\ mode' = target
    /\ UNCHANGED <<today, version, decided, book, breaks, gateRuns, promotion>>

NextDay ==
    /\ today < LastDay
    /\ today' = today + 1
    /\ UNCHANGED <<upsets, version, decided, book, breaks, console>>

Next ==
    \/ \E a \in Actions : \E seen \in BooksOf[ActionOf[a].token] : Decide(a, seen)
    \/ BumpPolicy
    \/ \E w \in Wallets, t \in Tokens, r \in Ratios : PlanAnExit(w, t, r)
    \/ \E p \in ExitPrices : ApplyTheExit(p)
    \/ \E t \in Tokens, p \in {0, One} : Settle(t, p)
    \/ \E v \in Marks : Mark(v)
    \/ Break
    \/ ResolveBreak
    \/ \E days \in GateWindows : RunGate(days)
    \/ \E role \in Roles, c \in BOOLEAN : RequestLive(role, c)
    \/ GoLive
    \/ \E role \in Roles, m \in {"paused", "shadow"} : StandDown(role, m)
    \/ NextDay

Spec == Init /\ [][Next]_vars

-----------------------------------------------------------------------------
(* Properties.                                                              *)

\* A lot is never oversold, is open exactly while something of it is held,
\* and what all lots have realised is what exits and settlements have paid
\* less what was paid for the quantity that is gone: no leg is sold or paid
\* twice, however stale the plan that asks for it (lots.py).
LotsMatchReceipts ==
    /\ \A i \in DOMAIN lots :
        /\ lots[i].open \in 0..lots[i].opened
        /\ (lots[i].status = "open") = (lots[i].open > 0)
    /\ NetPnl(lots, DOMAIN lots) = received
           - SumFunction([i \in DOMAIN lots |-> lots[i].entry * (lots[i].opened - lots[i].open)])

\* An exit is mirrored on the lots of the source that exits and on no others,
\* for the share that it cuts and never more than what is held, oldest first
\* (plan_exit); and only what the plan names is sold (apply_exit).
ExitMirrorsItsSource == [][
    /\ plan' # plan /\ plan' # NoPlan =>
        LET ids == DOMAIN plan'.legs
            ours == {i \in DOMAIN lots : {lots[i].wallet} = plan'.wallet /\ lots[i].open > 0
                        /\ \A j \in ids : lots[i].token = lots[j].token}
        IN  /\ ids \subseteq ours
            /\ TotalQuantity(plan') = Percent(Lesser(plan'.ratio, 100), Held(lots, ours))
            /\ \A i \in ids, j \in ours : lots[j].openedAt < lots[i].openedAt =>
                   j \in ids /\ plan'.legs[j] = lots[j].open
    /\ \A i \in DOMAIN lots : lots'[i].status = "closed" /\ lots[i].status = "open" =>
        i \in DOMAIN plan.legs
    ]_vars

\* An entry that is filled leaves its market and its cluster within their
\* share of the NAV and the cash within what there was, up to the fees of
\* that one fill: the caps bind on the notional and the fees come on top
\* (size_entry, apply_to_portfolio).  Nothing is entered while the day's
\* drawdown halts entries, nor in a market that has resolved.
EntryStaysWithinCaps == [][
    Len(lots') > Len(lots) =>
        LET lot == lots'[Len(lots')]
        IN  /\ portfolio'.byMarket[lot.market]
                   <= Percent(RiskPolicy.maxPerMarket, portfolio.nav) + lot.fees
            /\ \A c \in lot.cluster : portfolio'.byCluster[c]
                   <= Percent(RiskPolicy.maxCorrelated, portfolio.nav) + lot.fees
            /\ portfolio'.cash >= -lot.fees
            /\ DailyDrawdown(portfolio) < RiskPolicy.drawdownHalt
            /\ lot.token \notin resolved
    ]_vars

\* The exposure that sizing reads never falls short of what the open lots
\* cost, by market and by cluster: a cap may bind too early, as nothing
\* takes an exposure back after an exit, and never too late.
ExposureNeverUnderstated ==
    /\ \A m \in MarketIds : ExposureByMarket(lots, m) <= portfolio.byMarket[m]
    /\ \A k \in ClusterKeys : ExposureByCluster(lots, k) <= portfolio.byCluster[k]

\* What a packet that passed was judged on, read from today's rows.
Earned(run) ==
    LET during(time) == Within(time, run.start, run.end)
        opened == {i \in DOMAIN lots : during(lots[i].openedAt) /\ lots[i].mode = "shadow"}
        settled == {i \in opened : lots[i].status # "open"}
        SourceOfLot(i) == evaluations[lots[i].evaluation].source
    IN  /\ Cardinality({i \in DOMAIN evaluations :
               evaluations[i].accepted /\ during(evaluations[i].at)})
               >= GatePolicy.minQualifiedSignals
        /\ Cardinality(settled) >= GatePolicy.minSettledLots
        /\ \A i, j \in opened : i # j =>
               /\ lots[i].evaluation # lots[j].evaluation
               /\ SourceOfLot(i) = {} \/ SourceOfLot(i) # SourceOfLot(j)
        /\ run.end - run.start >= GatePolicy.minWindowDays

\* The system is live only on the strength of a recorded packet that passed,
\* and every such packet was earned: the signals and the settled lots it
\* needs are in its window, and no two lots of the window hang off one
\* evaluation, nor off two evaluations recorded under one action (gate.py,
\* gate_store.py, passingGate of mode/route.ts).  What was evaluated again
\* and lost the id of its action on the way is not seen by the gate.
LiveRestsOnEvidence ==
    /\ mode = "live" \/ promotion # {} => LatestPassing(gateRuns) # {}
    /\ \A i \in DOMAIN gateRuns : gateRuns[i].verdict = "pass" => Earned(gateRuns[i])
=============================================================================
