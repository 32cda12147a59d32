---------------------------- MODULE MarketRegistry ----------------------------
(***************************************************************************)
(* The registry sweep (ingest/registry.py) over the pages of Gamma         *)
(* (ingest/gamma.py) into Postgres (ingest/store.py).                      *)
(*                                                                         *)
(* Gamma lists events by ascending id, so that new ones appear at the end, *)
(* and edits, closes and resolves what it lists while it is being paged.   *)
(* A run resumes at the stored offset, writes each page with its cursor in *)
(* one transaction, and resets the cursor once a short page says that the  *)
(* listing has ended.  Runs fail, crash, and stop at max_pages.            *)
(***************************************************************************)
EXTENDS Integers, Sequences, FiniteSets, SequencesExt

CONSTANTS
    Listing,       \* the events in the order of their ids
    MarketsOf,     \* [event |-> its markets]
    NamesOf,       \* [market |-> number of outcome names]
    TokensOf,      \* [market |-> its token ids, in order]
    NoToken,       \* an empty token id
    Unparsed,      \* markets and events without the fields they are keyed by
    Invalid,       \* markets and events that fail contract validation
    Rules,         \* the texts a market's rules may have
    PriceLists,    \* the settlements Gamma may show, in per cent
    Mids,          \* the prices it shows of a market that is not resolved
    PageLimit,
    MaxPages,      \* 0: no limit
    MaxEdits,      \* bound: changes of the listing
    MaxFaults      \* bound: failed and garbled fetches, and crashes

ASSUME MarketRegistryAssumption ==
    /\ PageLimit \in Nat \ {0} /\ MaxPages \in Nat
    /\ MaxEdits \in Nat /\ MaxFaults \in Nat

\* Gamma lists an event once, and a market under one event.
ASSUME ListingAssumption ==
    /\ Listing \in Seq(DOMAIN MarketsOf)
    /\ \A i, j \in DOMAIN Listing : Listing[i] = Listing[j] => i = j
    /\ \A e, f \in DOMAIN MarketsOf : MarketsOf[e] \cap MarketsOf[f] # {} => e = f

VARIABLES
    listed,      \* how many events Gamma lists
    raw,         \* [market |-> what Gamma says of it]
    closed,      \* the events that Gamma calls closed
    edits, faults,
    eventRows,   \* events: a partial function to the status
    marketRows,  \* markets: a partial function, rule is the text of the row
    prices,      \* outcomes: [market |-> [index |-> the resolution price, if any]]
    versions,    \* market_rule_versions
    pointers,    \* current_rule_version_id
    cursor,      \* ingest_cursors
    phase, offset, page, pages, reachedEnd,   \* a run's local state
    shown,       \* history: the settlements that resolved listings have shown
    due,         \* history: what was listed when the sweep began
    swept,       \* history: the events of the sweep's committed pages
    garbled      \* history: the sweep has met a page that is no list

gamma == <<listed, raw, closed, edits>>
tables == <<eventRows, marketRows, prices, versions, pointers, cursor>>
run == <<phase, offset, page, pages, reachedEnd>>
history == <<shown, due, swept, garbled>>
vars == <<gamma, faults, tables, run, history>>

Events == ToSet(Listing)
Markets == UNION {MarketsOf[e] : e \in Events}
Idle == phase = "idle"

Init ==
    /\ listed = 0 /\ closed = {} /\ edits = 0 /\ faults = 0
    /\ raw \in [Markets -> {[rule |-> r, resolved |-> FALSE, prices |-> Mids] : r \in Rules}]
    /\ eventRows = <<>> /\ marketRows = <<>>
    /\ prices = [m \in Markets |-> <<>>]
    /\ versions = {} /\ pointers = <<>> /\ cursor = 0
    /\ phase = "idle" /\ offset = 0 /\ page = <<>> /\ pages = 0 /\ reachedEnd = TRUE
    /\ shown = {} /\ due = {} /\ swept = {} /\ garbled = FALSE

-----------------------------------------------------------------------------
(* Gamma.                                                                   *)

ListEvent ==
    /\ listed < Len(Listing)
    /\ listed' = listed + 1
    /\ UNCHANGED <<raw, closed, edits, faults, tables, run, history>>

\* A market is edited, resolved, or resolved no longer.
Amend(m, rule, resolved, list) ==
    /\ edits < MaxEdits /\ edits' = edits + 1
    /\ raw[m] # [rule |-> rule, resolved |-> resolved, prices |-> list]
    /\ raw' = [raw EXCEPT ![m] = [rule |-> rule, resolved |-> resolved, prices |-> list]]
    /\ shown' = IF resolved THEN shown \cup {<<m, i, list[i]>> : i \in DOMAIN list} ELSE shown
    /\ UNCHANGED <<listed, closed, faults, tables, run, due, swept, garbled>>

CloseEvent(e) ==
    /\ edits < MaxEdits /\ edits' = edits + 1
    /\ e \notin closed /\ closed' = closed \cup {e}
    /\ UNCHANGED <<listed, raw, faults, tables, run, history>>

-----------------------------------------------------------------------------
(* Parsing.                                                                 *)

\* Faulty variant: the prices of a market that is not resolved are kept too.
ParseOutcomesAlways(m, market) ==
    [i \in {j \in 1..NamesOf[m] : j <= Len(TokensOf[m]) /\ TokensOf[m][j] # NoToken} |->
        IF i \in DOMAIN market.prices /\ market.prices[i] \in 0..100
        THEN {market.prices[i]} ELSE {}]

\* parse_outcomes: by index, the settled price of each outcome with a token.
ParseOutcomes(m, market) ==
    [i \in {j \in 1..NamesOf[m] : j <= Len(TokensOf[m]) /\ TokensOf[m][j] # NoToken} |->
        IF market.resolved /\ i \in DOMAIN market.prices /\ market.prices[i] \in 0..100
        THEN {market.prices[i]} ELSE {}]

Parsed(e) == MarketsOf[e] \ Unparsed

EventStatus(isClosed, parsed) ==
    IF ~isClosed THEN "active"
    ELSE IF parsed # {} /\ \A x \in parsed : x.resolved THEN "resolved" ELSE "closed"

\* What is fetched of an event: a snapshot of the listing.
RawEvent(e) == [event |-> e, closed |-> e \in closed, markets |-> [m \in Parsed(e) |-> raw[m]]]

\* parse_page and _write_event: the events of a page that are written, and
\* their markets that are.
Written(rows) == {x \in ToSet(rows) : x.event \notin Unparsed \cup Invalid}
WrittenMarkets(x) == DOMAIN x.markets \ Invalid

-----------------------------------------------------------------------------
(* A run.                                                                   *)

StartRun ==
    /\ Idle
    /\ phase' = "paging" /\ offset' = cursor /\ pages' = 0 /\ reachedEnd' = TRUE
    /\ page' = <<>>
    /\ IF cursor = 0
       THEN due' = {Listing[i] : i \in 1..listed} /\ swept' = {} /\ garbled' = FALSE
       ELSE UNCHANGED <<due, swept, garbled>>
    /\ UNCHANGED <<gamma, faults, tables, shown>>

\* Faulty variant: a run that has reached max_pages takes that for the end.
PageIsLastOrLimit(rows) == rows < PageLimit \/ (MaxPages > 0 /\ pages + 1 >= MaxPages)

PageIsLast(rows) == rows < PageLimit

\* How many rows Gamma answers with.
RowCount(at) ==
    IF at + PageLimit <= listed THEN PageLimit
    ELSE IF at <= listed THEN listed - at ELSE 0

\* iter_events: the next page, unless the generator has ended.
Fetch ==
    /\ phase = "paging"
    /\ page' = [i \in 1..RowCount(offset) |-> RawEvent(Listing[offset + i])]
    /\ phase' = "writing"
    /\ UNCHANGED <<gamma, faults, tables, offset, pages, reachedEnd, history>>

\* A response that is no list counts as a page without rows.
FetchGarbled ==
    /\ phase = "paging"
    /\ faults < MaxFaults /\ faults' = faults + 1
    /\ page' = <<>> /\ garbled' = TRUE
    /\ phase' = "writing"
    /\ UNCHANGED <<gamma, tables, offset, pages, reachedEnd, shown, due, swept>>

\* Faulty variant: a version that is known already does not move the pointer.
PointersToNewVersions(x) ==
    [m \in WrittenMarkets(x) |->
        IF <<m, x.markets[m].rule>> \in versions THEN pointers[m] ELSE x.markets[m].rule]

\* upsert_market, and the pointer to the version of the rules.
PointersTo(x) == [m \in WrittenMarkets(x) |-> x.markets[m].rule]

\* An upsert: the rows as they are now, the others as they were.
Upserted(rows, table) ==
    [k \in DOMAIN rows \cup DOMAIN table |-> IF k \in DOMAIN rows THEN rows[k] ELSE table[k]]

\* replace_outcomes, with its coalesce on the resolution price.
ReplacedOutcomes(m, outcomes) ==
    Upserted([i \in DOMAIN outcomes |->
                 IF outcomes[i] = {} /\ i \in DOMAIN prices[m] THEN prices[m][i] ELSE outcomes[i]],
             prices[m])

\* The rows of a page: each event, its markets, their outcomes and rule
\* versions, and the cursor, in one transaction.
CommitPage ==
    /\ phase = "writing"
    /\ LET events == Written(page)
           EventOf(m) == CHOOSE x \in events : m \in WrittenMarkets(x)
           written == UNION {WrittenMarkets(x) : x \in events}
       IN  /\ eventRows' = Upserted(
                  [e \in {x.event : x \in events} |->
                      LET x == CHOOSE y \in events : y.event = e
                      IN  EventStatus(x.closed, {x.markets[m] : m \in DOMAIN x.markets})],
                  eventRows)
           /\ marketRows' = Upserted(
                  [m \in written |-> [rule |-> EventOf(m).markets[m].rule,
                                      resolved |-> EventOf(m).markets[m].resolved]],
                  marketRows)
           /\ prices' = Upserted(
                  [m \in written |->
                      ReplacedOutcomes(m, ParseOutcomes(m, EventOf(m).markets[m]))],
                  prices)
           /\ versions' = versions \cup {<<m, EventOf(m).markets[m].rule>> : m \in written}
           /\ pointers' = Upserted([m \in written |-> PointersTo(EventOf(m))[m]], pointers)
    /\ swept' = swept \cup {page[i].event : i \in DOMAIN page}
    /\ reachedEnd' = PageIsLast(Len(page))
    /\ cursor' = offset + PageLimit
    /\ offset' = offset + PageLimit
    /\ pages' = pages + 1
    /\ page' = <<>>
    /\ phase' = IF Len(page) < PageLimit \/ (MaxPages > 0 /\ pages + 1 >= MaxPages)
                THEN "ended" ELSE "paging"
    /\ UNCHANGED <<gamma, faults, shown, due, garbled>>

\* Faulty variant: a complete sweep goes back to its last page only.
CursorAfterLastPage == IF reachedEnd THEN cursor - PageLimit ELSE cursor

CursorAfter == IF reachedEnd THEN 0 ELSE cursor

\* The reset of the cursor after the end of the listing, and finish_run.
FinishRun ==
    /\ phase = "ended"
    /\ cursor' = CursorAfter
    /\ phase' = "idle"
    /\ UNCHANGED <<gamma, faults, eventRows, marketRows, prices, versions, pointers,
                   offset, page, pages, reachedEnd, history>>

\* A fetch or a statement throws and the page is rolled back, or the process
\* dies: either way the tables are as of the last commit.
Abort ==
    /\ ~Idle
    /\ faults < MaxFaults /\ faults' = faults + 1
    /\ phase' = "idle" /\ page' = <<>>
    /\ UNCHANGED <<gamma, tables, offset, pages, reachedEnd, history>>

Gamma ==
    \/ ListEvent
    \/ \E m \in Markets, r \in Rules : Amend(m, r, FALSE, Mids)
    \/ \E m \in Markets, p \in PriceLists : Amend(m, raw[m].rule, TRUE, p)
    \/ \E e \in Events : CloseEvent(e)

Run == StartRun \/ Fetch \/ CommitPage \/ FinishRun

Next == Gamma \/ Run \/ FetchGarbled \/ Abort

\* The run is scheduled again and again; nothing obliges Gamma to change.
Spec == Init /\ [][Next]_vars /\ WF_vars(Run)

-----------------------------------------------------------------------------
(* Properties.                                                              *)

\* A recorded settlement was shown by a resolved listing of that very
\* outcome, so a mid is never taken for one; and no later page blanks it out
\* (parse_outcomes, replace_outcomes).
SettlementSticks == [][
    \A m \in Markets : \A i \in DOMAIN prices[m] :
        /\ i \in DOMAIN prices'[m]
        /\ prices[m][i] # {} => prices'[m][i] # {}
        /\ \A v \in prices'[m][i] : <<m, i, v>> \in shown
    ]_vars

\* The rows tell one story: the rule version that a market points to is the
\* one its row was written from, and an event is resolved only if the rows of
\* all its markets are (_write_market, _event_status).
RowsAgree ==
    /\ \A m \in DOMAIN marketRows :
        /\ m \in DOMAIN pointers /\ pointers[m] = marketRows[m].rule
        /\ <<m, pointers[m]>> \in versions
    /\ \A e \in DOMAIN eventRows : eventRows[e] = "resolved" =>
        \A m \in Parsed(e) \ Invalid : m \in DOMAIN marketRows /\ marketRows[m].resolved

\* The cursor goes back to the start only after every event that was listed
\* when the sweep began has been read since, over as many runs, failures and
\* crashes as it took - or after a page that was no list.
SweepReadsAll == [][
    cursor > 0 /\ cursor' = 0 => due \subseteq swept \/ garbled
    ]_vars

Current ==
    \A i \in 1..listed : LET e == Listing[i] IN
        e \in Unparsed \cup Invalid \/
        /\ e \in DOMAIN eventRows
        /\ eventRows[e] = EventStatus(e \in closed, {raw[m] : m \in Parsed(e)})
        /\ \A m \in Parsed(e) \ Invalid :
            marketRows[m] = [rule |-> raw[m].rule, resolved |-> raw[m].resolved]

\* What is listed is eventually, and from then on, what the tables say, once
\* Gamma is quiet: no crash, failure or page limit makes the sweep get stuck
\* or skip a part of the listing for good.
EventuallyCurrent == <>[]Current
=============================================================================
