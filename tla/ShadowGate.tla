----------------------------- MODULE ShadowGate -----------------------------
(***************************************************************************)
(* The shadow gate: what is collected from the rows of a window            *)
(* (signals/gate_store.py) and the six criteria it is judged by            *)
(* (signals/gate.py).  Pure operators over the rows: actions               *)
(* [action, at, latency], evaluations [action, source, version, accepted,  *)
(* reason, at], fills [evaluation, filled, at], lots as in StrategyLots,   *)
(* and the number of open breaks.  The column source_action_id is `source`,*)
(* with no element where it is null; `action` is what was decided on, which*)
(* the gate cannot read.                                                   *)
(***************************************************************************)
EXTENDS StrategyLots

CONSTANT GatePolicy    \* the thresholds of gate.GatePolicy, fractions in per cent

\* No policy of the code tolerates a duplicate.
ASSUME GatePolicyAssumption ==
    /\ GatePolicy.minWindowDays \in Nat
    /\ GatePolicy.minQualifiedSignals \in Nat
    /\ GatePolicy.minSettledLots \in Nat
    /\ GatePolicy.maxDuplicates = 0

Verdicts == {"pass", "fail", "insufficient_evidence"}

\* `latencies` is a bag of numbers as a sequence; q is in per cent.
Percentile(latencies, q) ==
    LET n == Len(latencies)
        ordered == SortSeq(latencies, LAMBDA a, b : a < b)
        rank == Greater(1, (q * n + 99) \div 100)
    IN  IF n = 0 \/ q \notin 0..100 THEN {} ELSE {ordered[Lesser(rank, n)]}

Within(time, start, end) == start <= time /\ time < end

\* Those of `ids` that share their key with another one: group by ... having count > 1.
RepeatedKeys(ids, Key(_)) ==
    {k \in {Key(i) : i \in ids} : Cardinality({i \in ids : Key(i) = k}) > 1}

\* Faulty variant: only the rows of one evaluation are compared.
DuplicatesOfRows(evaluations, fills, lots, window) ==
    RepeatedKeys({i \in DOMAIN lots : Within(lots[i].openedAt, window.start, window.end)},
                 LAMBDA i : lots[i].evaluation)

Duplicates(evaluations, fills, lots, window) ==
    LET accepted == {i \in DOMAIN evaluations :
            /\ evaluations[i].accepted
            /\ Within(evaluations[i].at, window.start, window.end)
            /\ evaluations[i].source # {}}
        linked == {i \in DOMAIN lots :
            /\ lots[i].mode = "shadow"
            /\ Within(lots[i].openedAt, window.start, window.end)
            /\ lots[i].evaluation # 0}
        filled == {i \in DOMAIN fills :
            fills[i].filled /\ Within(fills[i].at, window.start, window.end)}
    IN  RepeatedKeys(accepted, LAMBDA i : <<"evaluations", evaluations[i].source>>)
        \cup RepeatedKeys(linked, LAMBDA i : <<"lots", lots[i].evaluation>>)
        \cup RepeatedKeys(filled, LAMBDA i : <<"fills", fills[i].evaluation>>)

NetPnl(lots, ids) == SumFunctionOnSet([i \in DOMAIN lots |-> lots[i].pnl], ids)

\* gate_store.collect for the window [start, end), but for what is only
\* reported.
Collect(actions, evaluations, fills, lots, breaks, window) ==
    LET during(time) == Within(time, window.start, window.end)
        opened == {i \in DOMAIN lots : lots[i].mode = "shadow" /\ during(lots[i].openedAt)}
        settled == {i \in opened : lots[i].status \in {"closed", "settled"}}
        detected == SelectSeq(actions, LAMBDA a : during(a.at) /\ a.latency >= 0)
    IN  [days |-> window.end - window.start,
         qualified |-> Cardinality({i \in DOMAIN evaluations :
                           evaluations[i].accepted /\ during(evaluations[i].at)}),
         latencies |-> [i \in DOMAIN detected |-> detected[i].latency],
         settled |-> Cardinality(settled),
         netPnl |-> NetPnl(lots, settled),
         lotsOpened |-> Cardinality(opened),
         duplicates |-> Duplicates(evaluations, fills, lots, window),
         incidents |-> breaks]

-----------------------------------------------------------------------------
(* The criteria.  Each has a third outcome for what cannot be asked yet.    *)

Outcome(enough, good) ==
    IF ~enough THEN "insufficient_evidence" ELSE IF good THEN "pass" ELSE "fail"

WindowDuration(ev) == Outcome(ev.days >= GatePolicy.minWindowDays, TRUE)

SampleSize(ev) == Outcome(ev.qualified >= GatePolicy.minQualifiedSignals, TRUE)

NetPositive(ev) ==
    LET covered == ev.lotsOpened > 0
                   /\ 100 * ev.settled >= GatePolicy.minCoverage * ev.lotsOpened
    IN  Outcome(ev.settled >= GatePolicy.minSettledLots /\ covered, ev.netPnl > 0)

Freshness(ev) ==
    LET p95 == Percentile(ev.latencies, 95)
    IN  Outcome(p95 # {}, \A p \in p95 : p < GatePolicy.maxP95Latency)

NoDuplicates(ev) ==
    Outcome(ev.qualified > 0, Cardinality(ev.duplicates) <= GatePolicy.maxDuplicates)

NoIncidents(ev) == Outcome(TRUE, ev.incidents <= GatePolicy.maxIncidents)

Criteria(ev) ==
    {WindowDuration(ev), SampleSize(ev), NetPositive(ev), Freshness(ev), NoDuplicates(ev),
     NoIncidents(ev)}

\* A failure beats what is missing, and what is missing beats a pass.
Verdict(criteria) ==
    IF "fail" \in criteria THEN "fail"
    ELSE IF "insufficient_evidence" \in criteria THEN "insufficient_evidence"
    ELSE "pass"

\* run_gate and record: the packet of the window that ends today.  No number of
\* days, which is zero, stands for that of the policy.
Packet(actions, evaluations, fills, lots, breaks, days, today) ==
    LET length == IF days = 0 THEN GatePolicy.minWindowDays ELSE days
        window == [start |-> today - length, end |-> today]
        ev == Collect(actions, evaluations, fills, lots, breaks, window)
    IN  [start |-> window.start, end |-> window.end, verdict |-> Verdict(Criteria(ev))]

LatestPassing(runs) ==
    LET passing == {i \in DOMAIN runs : runs[i].verdict = "pass"}
    IN  IF passing = {} THEN {} ELSE {Max(passing)}
=============================================================================
