------------------------------ MODULE AlphaGate ------------------------------
(***************************************************************************)
(* The walk-forward evaluation (backtest/walkforward.py): at each fold the *)
(* best wallets by what is known then, and how they and everyone did next; *)
(* and the gate that judges it (backtest/alpha_gate.py).                   *)
(***************************************************************************)
EXTENDS WalletScoring

CONSTANTS
    AlphaPolicy,    \* AlphaGatePolicy: folds, clusters, episodes, share (per cent)
    TopN            \* wallets selected per fold

\* The wallets with the best skill; equals in the order they are met, here their numbers.
Ranked(scores) ==
    LET Before(v, w) == \/ The(scores[v].skill) > The(scores[w].skill)
                        \/ scores[v].skill = scores[w].skill /\ v < w
    IN  SetToSortSeq({w \in DOMAIN scores : scores[w].skill # {}}, Before)


Fold(scored, t, horizon) ==
    LET ranked == Ranked(ScoreUniverse(scored, t))
        chosen == {ranked[i] : i \in 1..Min({TopN, Len(ranked)})}
        all == ForwardEpisodes(scored, t, t + horizon)
    IN  [at |-> t, selected |-> chosen, universe |-> Cardinality({s.wallet : s \in scored}),
         selectedEdge |-> MeanEdge({s \in all : s.wallet \in chosen}),
         baselineEdge |-> MeanEdge(all), episodes |-> all]

\* run_walk_forward over [start, end].
WalkForward(scored, start, end, step, horizon) ==
    LET n == IF start + horizon > end THEN 0 ELSE 1 + (end - horizon - start) \div step
    IN  [i \in 1..n |-> Fold(scored, start + (i - 1) * step, horizon)]

\* The mean of a figure over the folds that have it.
MeanOfFolds(folds, edge) ==
    LET having == {i \in DOMAIN folds : folds[i][edge] # {}}
    IN  MeanOver(LAMBDA i : The(folds[i][edge]), having)

FoldsCriterion(folds) == IF Len(folds) < AlphaPolicy.folds THEN "insufficient" ELSE "pass"

\* Folds that overlap count an episode once each, and its event once.
EvidenceCriterion(folds) ==
    LET n == MapThenSumSet(LAMBDA i : Cardinality(folds[i].episodes), DOMAIN folds)
        events == Blocks(UNION {folds[i].episodes : i \in DOMAIN folds})
    IN  IF n < AlphaPolicy.episodes \/ Cardinality(events) < AlphaPolicy.clusters
        THEN "insufficient" ELSE "pass"

SeparationCriterion(folds) ==
    LET sized == {i \in DOMAIN folds : folds[i].universe > 0}
        TooMany(i) == 100 * Cardinality(folds[i].selected) > AlphaPolicy.share * folds[i].universe
    IN  IF sized = {} \/ \E i \in sized : TooMany(i) THEN "insufficient" ELSE "pass"

\* Lift is the selected wallets' mean minus everyone's.
LiftCriterion(folds) ==
    LET selected == MeanOfFolds(folds, "selectedEdge")
        baseline == MeanOfFolds(folds, "baselineEdge")
    IN  IF selected = {} \/ baseline = {} THEN "insufficient"
        ELSE IF The(selected) - The(baseline) > 0 THEN "pass" ELSE "fail"

\* fail before insufficient before pass.
AlphaVerdict(folds) ==
    LET criteria == {FoldsCriterion(folds), EvidenceCriterion(folds),
                     SeparationCriterion(folds), LiftCriterion(folds)}
    IN  IF "fail" \in criteria THEN "fail"
        ELSE IF "insufficient" \in criteria THEN "insufficient" ELSE "pass"
=============================================================================
