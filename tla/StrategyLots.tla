---------------------------- MODULE StrategyLots ----------------------------
(***************************************************************************)
(* Lots, attributed to the source that caused them (signals/lots.py): how  *)
(* an exit of the source is planned, applied, and how a settled market     *)
(* closes what is left.  Pure operators over a sequence of lots; a lot's   *)
(* id is its place in the sequence.                                        *)
(***************************************************************************)
EXTENDS SignalDecision

\* The lot that record_lot links to the evaluation it is opened for.
OpenLot(evaluation, mode, wallet, cluster, market, token, day, entryPrice, quantity, entryFees) ==
    [evaluation |-> evaluation, mode |-> mode, wallet |-> wallet, cluster |-> cluster,
     market |-> market, token |-> token, openedAt |-> day, entry |-> entryPrice,
     opened |-> quantity, open |-> quantity, fees |-> entryFees, pnl |-> 0, status |-> "open"]

CostBasis(lot) == lot.entry * lot.open

\* An exit plan: its legs give for each lot in it what to sell of it.
NoPlan == [wallet |-> {}, ratio |-> 0, legs |-> <<>>]

TotalQuantity(plan) == SumFunction(plan.legs)

\* Faulty variant: an exit is mirrored on the lots of every source.
OursOfAnySource(lots, wallet, token) ==
    {i \in DOMAIN lots :
        lots[i].status = "open" /\ lots[i].token = token /\ lots[i].open > 0}

\* The lots that an exit of the source from the token is mirrored on.
Ours(lots, wallet, token) ==
    {i \in DOMAIN lots :
        /\ lots[i].status = "open"
        /\ lots[i].wallet = wallet
        /\ lots[i].token = token
        /\ lots[i].open > 0}

Held(lots, ids) == SumFunctionOnSet([i \in DOMAIN lots |-> lots[i].open], ids)

Older(lots, i, j) ==
    \/ lots[i].openedAt < lots[j].openedAt
    \/ lots[i].openedAt = lots[j].openedAt /\ i < j

\* `ratio`, in per cent, is the share of its own position the source has cut.
PlanExit(lots, wallet, token, ratio) ==
    LET ours   == Ours(lots, wallet, token)
        older  == [i \in ours |-> {j \in ours : Older(lots, j, i)}]
        target == Percent(Lesser(ratio, 100), Held(lots, ours))
        taken  == Allot([i \in ours |-> lots[i].open], older, target)
    IN  IF ratio <= 0 \/ ours = {} \/ target <= 0
        THEN NoPlan
        ELSE [wallet |-> {wallet}, ratio |-> ratio,
              legs |-> Restrict(taken, {i \in ours : taken[i] > 0})]

\* Faulty variant: the plan is applied as it was made, whatever is still open.
SoldOfUnclamped(lots, plan, i) == IF i \in DOMAIN plan.legs THEN plan.legs[i] ELSE 0

\* What applying the plan sells of a lot: never more than is still open.
SoldOf(lots, plan, i) ==
    IF i \in DOMAIN plan.legs THEN Lesser(plan.legs[i], lots[i].open) ELSE 0

FeePerUnit(plan, exitFees) ==
    IF TotalQuantity(plan) > 0 THEN exitFees \div TotalQuantity(plan) ELSE 0

ApplyExit(lots, plan, price, exitFees) ==
    [i \in DOMAIN lots |->
        LET lot == lots[i]
            sold == SoldOf(lots, plan, i)
            legFees == FeePerUnit(plan, exitFees) * sold
        IN  IF sold <= 0 THEN lot
            ELSE [lot EXCEPT !.open = @ - sold,
                             !.pnl = @ + price * sold - lot.entry * sold - legFees,
                             !.fees = @ + legFees,
                             !.status = IF lot.open - sold <= 0 THEN "closed" ELSE @]]

\* What apply_exit returns.
Proceeds(lots, plan, price, exitFees) ==
    SumFunction([i \in DOMAIN lots |->
        (price - FeePerUnit(plan, exitFees)) * SoldOf(lots, plan, i)])

Settles(lot, token) == lot.status = "open" /\ lot.token = token /\ lot.open > 0

SettleLots(lots, token, price) ==
    [i \in DOMAIN lots |->
        IF ~Settles(lots[i], token) THEN lots[i]
        ELSE [lots[i] EXCEPT !.pnl = @ + (price - lots[i].entry) * lots[i].open,
                             !.open = 0,
                             !.status = "settled"]]

\* exposure_by_market and exposure_by_cluster: the cost of what is open.
ClusterKey(lot) == IF lot.cluster = {} THEN lot.wallet ELSE CHOOSE c \in lot.cluster : TRUE

ExposureOf(lots, ids) ==
    SumFunctionOnSet([i \in DOMAIN lots |-> CostBasis(lots[i])],
                     {i \in ids : lots[i].status = "open"})

ExposureByMarket(lots, market) == ExposureOf(lots, {i \in DOMAIN lots : lots[i].market = market})

ExposureByCluster(lots, key) == ExposureOf(lots, {i \in DOMAIN lots : ClusterKey(lots[i]) = key})
=============================================================================
