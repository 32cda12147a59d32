-------------------------- MODULE MCWalletResearch --------------------------
(***************************************************************************)
(* Three wallets in two events.  Wallet 3 coincides with both others, which *)
(* do not coincide with each other.  Wallet 2 turns its position around and *)
(* closes it; wallet 3 comes back after a silence.                         *)
(***************************************************************************)
EXTENDS WalletResearch

Fill(id, w, token, side, price, quantity, at) ==
    [id |-> id, wallet |-> w, token |-> token, side |-> side, price |-> price,
     quantity |-> quantity, at |-> at]

MCPages ==
    {{Fill(1, 1, "a", "BUY", 40, 2, 0), Fill(2, 1, "b", "BUY", 30, 1, 0)},
     {Fill(3, 2, "b", "BUY", 40, 2, 1), Fill(4, 2, "b", "SELL", 70, 3, 1),
      Fill(5, 2, "b", "BUY", 60, 3, 1)},
     {Fill(6, 3, "a", "BUY", 40, 1, 0), Fill(7, 3, "b", "BUY", 40, 1, 0),
      Fill(8, 3, "b", "BUY", 50, 1, 1), Fill(9, 3, "b", "BUY", 60, 1, 1)}}

MCMaxRuns == [score |-> 1, copy |-> 1, cluster |-> 2, select |-> 1]
MCEventOf == [k \in {"a", "b"} |-> IF k = "a" THEN "election" ELSE "strike"]
MCMarketOf == [k \in {"a", "b"} |-> k]
MCSettlements == [m \in {"a", "b"} |-> {m :> 100}]
MCQuotes == {[token |-> "a", at |-> 0, mid |-> 4100], [token |-> "a", at |-> 2, mid |-> 6600],
             [token |-> "b", at |-> 1, mid |-> 3100]}
MCTierPolicy == [effective |-> 200, concentration |-> 7000, edgeLcb |-> 0]
MCAlphaPolicy == [folds |-> 2, clusters |-> 1, episodes |-> 1, share |-> 50]
MCCohortPolicy ==
    [days |-> 1, markets |-> 1, notional |-> 10, effective |-> 100, edgeLcb |-> 0,
     concentration |-> 8000, measured |-> 1, fraction |-> 5000, copyability |-> 3000,
     sportsShare |-> 25, maxCohort |-> 3]
=============================================================================
