---------------------------- MODULE TradeEpisodes ----------------------------
(***************************************************************************)
(* Decision episodes: the fills of a wallet in one token, folded into one  *)
(* record per trade decision (ledger/entries.py, ledger/episodes.py).      *)
(*                                                                         *)
(* A trade is [id, wallet, token, side, price, quantity, at]: its price in *)
(* per cent of a dollar, its quantity in whole shares.  An optional value  *)
(* is a set of at most one element.                                        *)
(***************************************************************************)
EXTENDS Integers, Sequences, FiniteSets, SequencesExt

CONSTANT InactivityGap     \* EpisodeAlgorithm.inactivity_gap

ASSUME EpisodeAssumption == InactivityGap \in Nat

Magnitude(n) == Max({n, -n})

\* entry_from_trade; trades are loaded without their fees.
Entry(t) ==
    LET notional == t.price * t.quantity
    IN  [source |-> t.id, wallet |-> t.wallet, token |-> t.token, at |-> t.at,
         shares |-> IF t.side = "BUY" THEN t.quantity ELSE -t.quantity,
         cash |-> IF t.side = "BUY" THEN -notional ELSE notional]

NewEpisode(e) ==
    LET none == [shares |-> 0, cash |-> 0]
    IN  [wallet |-> e.wallet, token |-> e.token,
         direction |-> IF e.shares > 0 THEN "BUY" ELSE "SELL",
         openedAt |-> e.at, lastAt |-> e.at, fills |-> <<>>,
         shares |-> 0, cash |-> 0, maxShares |-> 0, maxCost |-> 0,
         legs |-> [opening |-> none, closing |-> none]]

\* _Accumulator.add
Add(acc, e) ==
    LET leg == IF (e.shares > 0) = (acc.direction = "BUY") THEN "opening" ELSE "closing"
        legs == [acc.legs EXCEPT ![leg] = [shares |-> @.shares + Magnitude(e.shares),
                                           cash |-> @.cash + Magnitude(e.cash)]]
        held == acc.shares + e.shares
        peak == Magnitude(held) > acc.maxShares
    IN  [acc EXCEPT !.fills = Append(@, e.source), !.legs = legs, !.shares = held,
                    !.cash = @ + e.cash, !.lastAt = e.at,
                    !.maxShares = IF peak THEN Magnitude(held) ELSE @,
                    !.maxCost = IF peak THEN legs.opening.cash ELSE @]

\* Faulty variant: an entry that turns the position around is folded into it.
EndsWithoutReversal(acc, e) ==
    \/ acc.shares = 0
    \/ e.at - acc.lastAt > InactivityGap

\* The entry starts an episode of its own: the book is flat, the wallet was
\* silent for too long, or the entry would turn the position around.
Ends(acc, e) ==
    \/ acc.shares = 0
    \/ e.at - acc.lastAt > InactivityGap
    \/ acc.shares * (acc.shares + e.shares) < 0

\* In hundredths of a per cent.
Vwap(leg) == IF leg.shares > 0 THEN {(100 * leg.cash) \div leg.shares} ELSE {}

\* _close and finish: what is still held is valued at the settled price, if any.
CloseEpisode(acc, settled) ==
    LET status == IF acc.shares = 0 THEN "closed"
                  ELSE IF settled # {} THEN "resolved" ELSE "open"
    IN  [wallet |-> acc.wallet, token |-> acc.token, direction |-> acc.direction,
         openedAt |-> acc.openedAt, closedAt |-> IF status # "open" THEN {acc.lastAt} ELSE {},
         fills |-> acc.fills, status |-> status, maxCost |-> acc.maxCost,
         entryVwap |-> Vwap(acc.legs.opening), exitVwap |-> Vwap(acc.legs.closing),
         realized |-> acc.cash,
         resolution |-> IF status = "resolved"
                        THEN acc.shares * (CHOOSE p \in settled : TRUE) ELSE 0]

\* Entries of one instant come in the order of the query, here of their ids.
InOrder(entries) ==
    SetToSortSeq(entries, LAMBDA a, b : a.at < b.at \/ (a.at = b.at /\ a.source < b.source))

BuildEpisodes(entries, settled) ==
    LET Fold(accs, e) ==
            IF accs # <<>> /\ ~Ends(Last(accs), e)
            THEN [accs EXCEPT ![Len(accs)] = Add(@, e)]
            ELSE Append(accs, Add(NewEpisode(e), e))
        accs == FoldLeft(Fold, <<>>, InOrder(entries))
    IN  {CloseEpisode(accs[i], settled) : i \in DOMAIN accs}

\* `prices` is a partial function from tokens to settled prices.
BuildAll(trades, prices) ==
    LET entries == {Entry(t) : t \in trades}
        Group(key) == {e \in entries : <<e.wallet, e.token>> = key}
    IN  UNION {BuildEpisodes(Group(key), {prices[k] : k \in {key[2]} \cap DOMAIN prices})
               : key \in {<<e.wallet, e.token>> : e \in entries}}
=============================================================================
