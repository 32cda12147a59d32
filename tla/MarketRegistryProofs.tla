------------------------ MODULE MarketRegistryProofs ------------------------
(***************************************************************************)
(* Proofs about MarketRegistry, for any listing, page size, page limit and *)
(* number of faults.                                                       *)
(***************************************************************************)
EXTENDS MarketRegistry, TLAPS

\* What Gamma may say of a market.
Texts == [rule : Rules, resolved : BOOLEAN, prices : PriceLists \cup {Mids}]

\* A settlement that the listing shows has been recorded as shown.
Shown(m, market) ==
    market.resolved => \A i \in DOMAIN market.prices : <<m, i, market.prices[i]>> \in shown

Typed ==
    /\ listed \in 0..Len(Listing) /\ cursor \in Nat /\ offset \in Nat
    /\ raw \in [Markets -> Texts]
    /\ DOMAIN prices = Markets
    /\ DOMAIN eventRows \subseteq DOMAIN MarketsOf
    /\ phase \in {"idle", "paging", "writing", "ended"}
    /\ reachedEnd \in BOOLEAN /\ garbled \in BOOLEAN

\* A page in hand is a stretch of the listing from the run's offset, as
\* Gamma showed it.
PageIsListed ==
    phase = "writing" =>
        /\ Len(page) \in Nat /\ DOMAIN page = 1..Len(page)
        /\ \A k \in 1..Len(page) :
            /\ offset + k \in 1..listed
            /\ page[k].event = Listing[offset + k]
            /\ page[k].markets \in [Parsed(page[k].event) -> Texts]
            /\ \A m \in Parsed(page[k].event) : Shown(m, page[k].markets[m])

\* Every settlement on the tables, and in the listing, has been shown.
SettlementsShown ==
    /\ \A m \in Markets : Shown(m, raw[m])
    /\ \A m \in Markets : \A i \in DOMAIN prices[m] :
        \A v \in prices[m][i] : <<m, i, v>> \in shown

\* A sweep has read what was listed when it began up to its cursor, and its
\* page in hand holds the next of it; a short page holds the last of it.
SweepIsContiguous ==
    /\ phase # "idle" => offset = cursor
    /\ due \subseteq {Listing[i] : i \in 1..listed}
    /\ garbled \/
        /\ \A i \in 1..listed : i <= cursor /\ Listing[i] \in due => Listing[i] \in swept
        /\ phase = "writing" => \A i \in 1..listed :
            i > offset /\ Listing[i] \in due =>
                /\ i <= offset + PageLimit => i <= offset + Len(page)
                /\ Len(page) < PageLimit => i <= offset + Len(page)
        /\ phase = "ended" /\ reachedEnd => due \subseteq swept

Inductive == Typed /\ PageIsListed /\ SettlementsShown /\ SweepIsContiguous /\ RowsAgree

-----------------------------------------------------------------------------
\* Gamma's listing is a sequence of events, each listed once.
LEMMA ListingFacts ==
  /\ Len(Listing) \in Nat
  /\ \A i \in 1..Len(Listing) : Listing[i] \in DOMAIN MarketsOf /\ Listing[i] \in Events
  /\ \A i, j \in 1..Len(Listing) : Listing[i] = Listing[j] => i = j
  BY ListingAssumption DEF Events, ToSet

\* The markets of a listed event are among the markets.
LEMMA ParsedAreMarkets ==
  ASSUME NEW i \in 1..Len(Listing)
  PROVE  Parsed(Listing[i]) \subseteq Markets
  BY ListingFacts DEF Parsed, Markets

\* Nothing is listed, stored or fetched yet.
LEMMA InitInductive == Init => Inductive
  <1> SUFFICES ASSUME Init PROVE Inductive
    OBVIOUS
  <1>1. Typed
    <2>1. raw \in [Markets -> Texts]
      <3>1. \A r \in Rules : [rule |-> r, resolved |-> FALSE, prices |-> Mids] \in Texts
        BY DEF Texts
      <3> QED
        BY <3>1 DEF Init
    <2>2. DOMAIN prices = Markets
      BY DEF Init
    <2>3. listed \in 0..Len(Listing) /\ cursor \in Nat /\ offset \in Nat
      BY ListingFacts DEF Init
    <2>4. DOMAIN eventRows \subseteq DOMAIN MarketsOf
      BY DEF Init
    <2>5. /\ phase \in {"idle", "paging", "writing", "ended"}
          /\ reachedEnd \in BOOLEAN /\ garbled \in BOOLEAN
      BY DEF Init
    <2> QED
      BY <2>1, <2>2, <2>3, <2>4, <2>5 DEF Typed
  <1>2. PageIsListed
    BY DEF Init, PageIsListed
  <1>3. SettlementsShown
    BY DEF Init, SettlementsShown, Shown
  <1>4. SweepIsContiguous
    BY DEF Init, SweepIsContiguous
  <1>5. RowsAgree
    BY DEF Init, RowsAgree
  <1> QED
    BY <1>1, <1>2, <1>3, <1>4, <1>5 DEF Inductive

\* A new event is listed after all that a sweep is due to read.
LEMMA ListEventPreserves == Inductive /\ ListEvent => Inductive'
  <1> SUFFICES ASSUME Inductive, ListEvent PROVE Inductive'
    OBVIOUS
  <1> USE DEF ListEvent, tables, run, history
  <1>1. Typed'
    BY ListingFacts DEF Inductive, Typed
  <1>2. PageIsListed'
    BY ListingFacts DEF Inductive, Typed, PageIsListed, Shown
  <1>3. SettlementsShown'
    BY DEF Inductive, SettlementsShown, Shown
  <1>4. SweepIsContiguous'
    <2>1. listed + 1 \in 1..Len(Listing) /\ listed \in Nat
      BY ListingFacts DEF Inductive, Typed
    <2>2. Listing[listed + 1] \notin due
      BY <2>1, ListingFacts DEF Inductive, SweepIsContiguous
    <2> QED
      BY <2>1, <2>2 DEF Inductive, SweepIsContiguous
  <1>5. RowsAgree'
    BY DEF Inductive, RowsAgree
  <1> QED
    BY <1>1, <1>2, <1>3, <1>4, <1>5 DEF Inductive

\* What Gamma shows of a resolved market is recorded as it shows it.
LEMMA AmendPreserves ==
  ASSUME Inductive, NEW m \in Markets, NEW r \in Rules, NEW resolved \in BOOLEAN,
         NEW p \in PriceLists \cup {Mids}, Amend(m, r, resolved, p)
  PROVE  Inductive'
  <1> USE DEF Amend, tables, run
  <1>1. Typed'
    BY DEF Inductive, Typed, Texts
  <1>2. shown \subseteq shown'
    OBVIOUS
  <1>3. PageIsListed'
    BY <1>2 DEF Inductive, PageIsListed, Shown
  <1>4. SettlementsShown'
    <2>1. \A n \in Markets : Shown(n, raw[n])'
      <3> SUFFICES ASSUME NEW n \in Markets PROVE Shown(n, raw[n])'
        OBVIOUS
      <3>1. CASE n = m
        BY <3>1 DEF Inductive, Typed, Shown
      <3>2. CASE n # m
        BY <3>2, <1>2 DEF Inductive, Typed, SettlementsShown, Shown
      <3> QED
        BY <3>1, <3>2
    <2> QED
      BY <2>1, <1>2 DEF Inductive, SettlementsShown, Shown
  <1>5. SweepIsContiguous'
    BY DEF Inductive, SweepIsContiguous
  <1>6. RowsAgree'
    BY DEF Inductive, RowsAgree
  <1> QED
    BY <1>1, <1>3, <1>4, <1>5, <1>6 DEF Inductive

\* The status of an event is not read before a page is fetched.
LEMMA CloseEventPreserves == \A e : Inductive /\ CloseEvent(e) => Inductive'
  BY DEF CloseEvent, tables, run, history, Inductive, Typed, PageIsListed, SettlementsShown,
         Shown, SweepIsContiguous, RowsAgree

\* A run resumes at the cursor; one that starts over makes a new sweep.
LEMMA StartRunPreserves == Inductive /\ StartRun => Inductive'
  <1> SUFFICES ASSUME Inductive, StartRun PROVE Inductive'
    OBVIOUS
  <1> USE DEF StartRun, Idle, gamma, tables
  <1>1. Typed'
    BY DEF Inductive, Typed
  <1>2. PageIsListed'
    BY DEF PageIsListed
  <1>3. SettlementsShown'
    BY DEF Inductive, SettlementsShown, Shown
  <1>4. SweepIsContiguous'
    BY DEF Inductive, Typed, SweepIsContiguous
  <1>5. RowsAgree'
    BY DEF Inductive, RowsAgree
  <1> QED
    BY <1>1, <1>2, <1>3, <1>4, <1>5 DEF Inductive

\* A page of the listing, when it is fetched.
LEMMA FetchPreserves == Inductive /\ Fetch => Inductive'
  <1> SUFFICES ASSUME Inductive, Fetch PROVE Inductive'
    OBVIOUS
  <1> USE DEF Fetch, gamma, tables, history
  <1> DEFINE n == RowCount(offset)
  <1>1. /\ n \in Nat /\ n <= PageLimit
        /\ \A k \in 1..n : offset + k \in 1..listed
        /\ n < PageLimit => listed <= offset + n
    BY MarketRegistryAssumption DEF RowCount, Inductive, Typed
  <1>2. \A k \in 1..n : /\ offset + k \in 1..Len(Listing)
                        /\ Listing[offset + k] \in DOMAIN MarketsOf
                        /\ Parsed(Listing[offset + k]) \subseteq Markets
    BY <1>1, ListingFacts, ParsedAreMarkets DEF Inductive, Typed
  <1>3. \A k \in 1..n :
           /\ RawEvent(Listing[offset + k]).event = Listing[offset + k]
           /\ RawEvent(Listing[offset + k]).markets \in [Parsed(Listing[offset + k]) -> Texts]
           /\ \A m \in Parsed(Listing[offset + k]) :
                Shown(m, RawEvent(Listing[offset + k]).markets[m])
    BY <1>2 DEF RawEvent, Inductive, Typed, SettlementsShown
  <1>4. page' = [k \in 1..n |-> RawEvent(Listing[offset + k])]
    OBVIOUS
  <1>5. DOMAIN page' = 1..n /\ Len(page') = n
    BY <1>1
  <1> HIDE DEF n
  <1>6. Typed'
    BY DEF Inductive, Typed
  <1>7. PageIsListed'
    <2>1. \A k \in 1..n : page'[k] = RawEvent(Listing[offset + k])
      BY <1>4
    <2>2. listed' = listed /\ offset' = offset /\ shown' = shown
      OBVIOUS
    <2>3. \A k \in 1..n :
            /\ offset' + k \in 1..listed'
            /\ page'[k].event = Listing[offset' + k]
            /\ page'[k].markets \in [Parsed(page'[k].event) -> Texts]
            /\ \A m \in Parsed(page'[k].event) : Shown(m, page[k].markets[m])'
      <3> HIDE DEF Fetch
      <3> TAKE k \in 1..n
      <3>1. page'[k].event = Listing[offset + k]
        BY <2>1, <1>3
      <3>2. page'[k].markets \in [Parsed(Listing[offset + k]) -> Texts]
        BY <2>1, <1>3
      <3>3. \A m \in Parsed(Listing[offset + k]) : Shown(m, page[k].markets[m])'
        BY <2>1, <2>2, <1>3 DEF Shown
      <3> QED
        BY <3>1, <3>2, <3>3, <2>2, <1>1
    <2> QED
      BY <2>3, <1>1, <1>5 DEF PageIsListed
  <1>8. SettlementsShown'
    BY DEF Inductive, SettlementsShown, Shown
  <1>9. SweepIsContiguous'
    <2>1. \A i \in 1..listed : i > offset =>
            /\ i <= offset + PageLimit => i <= offset + Len(page')
            /\ Len(page') < PageLimit => i <= offset + Len(page')
      <3>1. listed \in Nat /\ offset \in Nat /\ PageLimit \in Nat
        BY MarketRegistryAssumption DEF Inductive, Typed
      <3> HIDE DEF Fetch
      <3> QED
        BY <3>1, <1>1, <1>5
    <2> QED
      BY <2>1 DEF Inductive, Typed, SweepIsContiguous
  <1>10. RowsAgree'
    BY DEF Inductive, RowsAgree
  <1> QED
    BY <1>6, <1>7, <1>8, <1>9, <1>10 DEF Inductive

\* A page that is no list says nothing of the listing.
LEMMA FetchGarbledPreserves == Inductive /\ FetchGarbled => Inductive'
  <1> SUFFICES ASSUME Inductive, FetchGarbled PROVE Inductive'
    OBVIOUS
  <1> USE DEF FetchGarbled, gamma, tables
  <1>1. Typed'
    BY DEF Inductive, Typed
  <1>2. PageIsListed'
    BY DEF PageIsListed
  <1>3. SettlementsShown'
    BY DEF Inductive, SettlementsShown, Shown
  <1>4. SweepIsContiguous'
    BY DEF Inductive, SweepIsContiguous
  <1>5. RowsAgree'
    BY DEF Inductive, RowsAgree
  <1> QED
    BY <1>1, <1>2, <1>3, <1>4, <1>5 DEF Inductive

\* The cursor starts over, or stays.
LEMMA FinishRunPreserves == Inductive /\ FinishRun => Inductive'
  BY DEF FinishRun, CursorAfter, gamma, history, Inductive, Typed, PageIsListed,
         SettlementsShown, Shown, SweepIsContiguous, RowsAgree

\* A run that breaks off leaves the tables as they were.
LEMMA AbortPreserves == Inductive /\ Abort => Inductive'
  BY DEF Abort, gamma, tables, history, Inductive, Typed, PageIsListed,
         SettlementsShown, Shown, SweepIsContiguous, RowsAgree

-----------------------------------------------------------------------------
\* An event has one row on a page, and a market is on one of the rows.
LEMMA RowsAreApart ==
  ASSUME Inductive, phase = "writing"
  PROVE  /\ \A x \in Written(page) : /\ x.event \in DOMAIN MarketsOf
                                     /\ x.markets \in [Parsed(x.event) -> Texts]
                                     /\ Parsed(x.event) \subseteq Markets
                                     /\ \A m \in Parsed(x.event) : Shown(m, x.markets[m])
         /\ \A x, y \in Written(page) : x.event = y.event => x = y
         /\ \A x, y \in Written(page) : \A m \in WrittenMarkets(x) :
                m \in WrittenMarkets(y) => x = y
  <1>1. \A x \in Written(page) : \E k \in 1..Len(page) : x = page[k]
    BY DEF Inductive, PageIsListed, Written, ToSet
  <1>2. \A k \in 1..Len(page) :
           /\ offset + k \in 1..Len(Listing)
           /\ page[k].event = Listing[offset + k]
           /\ page[k].event \in DOMAIN MarketsOf
           /\ page[k].markets \in [Parsed(page[k].event) -> Texts]
           /\ Parsed(page[k].event) \subseteq Markets
           /\ \A m \in Parsed(page[k].event) : Shown(m, page[k].markets[m])
    <2> TAKE k \in 1..Len(page)
    <2>1. offset + k \in 1..Len(Listing)
      BY ListingFacts DEF Inductive, Typed, PageIsListed
    <2>2. /\ page[k].event = Listing[offset + k]
          /\ page[k].markets \in [Parsed(page[k].event) -> Texts]
          /\ \A m \in Parsed(page[k].event) : Shown(m, page[k].markets[m])
      BY DEF Inductive, PageIsListed
    <2> QED
      BY <2>1, <2>2, ListingFacts, ParsedAreMarkets
  <1>3. \A k, l \in 1..Len(page) : page[k].event = page[l].event => k = l
    <2> TAKE k, l \in 1..Len(page)
    <2>1. page[k].event = page[l].event => offset + k = offset + l
      BY <1>2, ListingFacts
    <2> QED
      BY <2>1 DEF Inductive, Typed
  <1>4. \A x, y \in Written(page) : x.event = y.event => x = y
    BY <1>1, <1>3
  <1>5. \A x \in Written(page) : WrittenMarkets(x) \subseteq MarketsOf[x.event]
    BY <1>1, <1>2 DEF WrittenMarkets, Parsed
  <1>6. \A x, y \in Written(page) : \A m \in WrittenMarkets(x) :
           m \in WrittenMarkets(y) => x = y
    BY <1>1, <1>2, <1>4, <1>5, ListingAssumption
  <1> QED
    BY <1>1, <1>2, <1>4, <1>6

\* A page and its cursor are written together.
LEMMA CommitPagePreserves == Inductive /\ CommitPage => Inductive'
  <1> SUFFICES ASSUME Inductive, CommitPage PROVE Inductive'
    OBVIOUS
  <1> DEFINE events == Written(page)
             EventOf(m) == CHOOSE x \in events : m \in WrittenMarkets(x)
             written == UNION {WrittenMarkets(x) : x \in events}
             status(e) == LET x == CHOOSE y \in events : y.event = e
                          IN  EventStatus(x.closed, {x.markets[m] : m \in DOMAIN x.markets})
  <1>1. /\ phase = "writing" /\ UNCHANGED <<listed, raw, shown, due, garbled>>
        /\ phase' = "ended" \/ phase' = "paging"
        /\ Len(page) < PageLimit => phase' = "ended"
        /\ offset' = offset + PageLimit /\ cursor' = offset + PageLimit
        /\ reachedEnd' = (Len(page) < PageLimit)
        /\ swept' = swept \cup {page[k].event : k \in DOMAIN page}
    BY DEF CommitPage, gamma, PageIsLast
  <1> DEFINE statuses == [e \in {x.event : x \in events} |-> status(e)]
             rows == [m \in written |-> [rule |-> EventOf(m).markets[m].rule,
                                         resolved |-> EventOf(m).markets[m].resolved]]
             settled == [m \in written |->
                            ReplacedOutcomes(m, ParseOutcomes(m, EventOf(m).markets[m]))]
             moved == [m \in written |-> PointersTo(EventOf(m))[m]]
  <1>2. /\ eventRows' = Upserted(statuses, eventRows)
        /\ marketRows' = Upserted(rows, marketRows)
        /\ prices' = Upserted(settled, prices)
        /\ versions' = versions \cup {<<m, EventOf(m).markets[m].rule>> : m \in written}
        /\ pointers' = Upserted(moved, pointers)
    BY DEF CommitPage
  <1>3. \A x \in events : \A m \in WrittenMarkets(x) : EventOf(m) = x
    BY <1>1, RowsAreApart
  <1>4. \A m \in written : /\ EventOf(m) \in events /\ m \in WrittenMarkets(EventOf(m))
                           /\ m \in Parsed(EventOf(m).event) /\ m \in Markets
                           /\ EventOf(m).markets[m] \in Texts
                           /\ Shown(m, EventOf(m).markets[m])
    <2> TAKE m \in written
    <2>1. PICK x \in events : m \in WrittenMarkets(x)
      OBVIOUS
    <2>2. EventOf(m) = x
      BY <2>1, <1>3
    <2>3. m \in Parsed(x.event)
      BY <2>1, <1>1, RowsAreApart DEF WrittenMarkets
    <2> QED
      BY <2>1, <2>2, <2>3, <1>1, RowsAreApart
  <1>5. \A e \in {x.event : x \in events} : \E x \in events :
           /\ x.event = e
           /\ status(e) = EventStatus(x.closed, {x.markets[m] : m \in DOMAIN x.markets})
    <2> TAKE e \in {x.event : x \in events}
    <2> DEFINE x == CHOOSE y \in events : y.event = e
    <2>1. x \in events /\ x.event = e
      OBVIOUS
    <2> QED
      BY <2>1
  <1> HIDE DEF events, EventOf, written, status
  <1>6. Typed'
    <2>1. DOMAIN prices' = Markets
      BY <1>2, <1>4 DEF Upserted, Inductive, Typed
    <2>2. DOMAIN eventRows' \subseteq DOMAIN MarketsOf
      BY <1>1, <1>2, RowsAreApart DEF Upserted, Inductive, Typed, events
    <2>3. cursor' \in Nat /\ offset' \in Nat
      BY <1>1, MarketRegistryAssumption DEF Inductive, Typed
    <2>4. /\ listed' \in 0..Len(Listing) /\ raw' \in [Markets -> Texts] /\ garbled' \in BOOLEAN
      BY <1>1 DEF Inductive, Typed
    <2> QED
      BY <1>1, <2>1, <2>2, <2>3, <2>4 DEF Typed
  <1>7. PageIsListed'
    BY <1>1 DEF PageIsListed
  <1>8. SettlementsShown'
    <2>1. ASSUME NEW m \in Markets, NEW i \in DOMAIN prices'[m], NEW v \in prices'[m][i]
          PROVE  <<m, i, v>> \in shown
      <3>1. CASE m \in written
        <4> DEFINE market == EventOf(m).markets[m]
        <4>1. prices'[m] = ReplacedOutcomes(m, ParseOutcomes(m, market))
          BY <1>2, <3>1 DEF Upserted
        <4>2. \/ i \in DOMAIN prices[m] /\ v \in prices[m][i]
              \/ market.resolved /\ i \in DOMAIN market.prices /\ v = market.prices[i]
          <5> DEFINE outcomes == ParseOutcomes(m, market)
                     kept == [j \in DOMAIN outcomes |->
                         IF outcomes[j] = {} /\ j \in DOMAIN prices[m] THEN prices[m][j]
                         ELSE outcomes[j]]
          <5>1. \A j \in DOMAIN outcomes : \A w \in outcomes[j] :
                  market.resolved /\ j \in DOMAIN market.prices /\ w = market.prices[j]
            BY DEF ParseOutcomes
          <5> HIDE DEF outcomes
          <5>2. prices'[m] = Upserted(kept, prices[m])
            BY <4>1 DEF ReplacedOutcomes, outcomes
          <5>3. CASE i \in DOMAIN outcomes
            <6>1. prices'[m][i] = kept[i]
              BY <5>2, <5>3 DEF Upserted
            <6> QED
              BY <6>1, <5>1, <5>3
          <5>4. CASE i \notin DOMAIN outcomes
            <6>1. i \in DOMAIN prices[m] /\ prices'[m][i] = prices[m][i]
              BY <5>2, <5>4 DEF Upserted
            <6> QED
              BY <6>1
          <5> QED
            BY <5>3, <5>4
        <4> QED
          BY <4>2, <1>4, <3>1 DEF Inductive, SettlementsShown, Shown
      <3>2. CASE m \notin written
        BY <1>2, <3>2 DEF Upserted, Inductive, Typed, SettlementsShown
      <3> QED
        BY <3>1, <3>2
    <2>2. \A m \in Markets : Shown(m, raw[m])'
      BY <1>1 DEF Inductive, SettlementsShown, Shown
    <2> QED
      BY <1>1, <2>1, <2>2 DEF SettlementsShown
  <1>9. SweepIsContiguous'
    <2>1. phase' # "idle" => offset' = cursor'
      BY <1>1
    <2>2. due' \subseteq {Listing[i] : i \in 1..listed'}
      BY <1>1 DEF Inductive, SweepIsContiguous
    <2>3. phase' # "writing"
      BY <1>1
    <2>4. /\ Len(page) \in Nat /\ DOMAIN page = 1..Len(page) /\ offset \in Nat /\ listed \in Nat
          /\ \A k \in 1..Len(page) : Listing[offset + k] \in swept'
      <3>1. /\ Len(page) \in Nat /\ DOMAIN page = 1..Len(page)
            /\ \A k \in 1..Len(page) : page[k].event = Listing[offset + k]
        BY <1>1 DEF Inductive, PageIsListed
      <3>2. offset \in Nat /\ listed \in Nat
        BY ListingFacts DEF Inductive, Typed
      <3> QED
        BY <1>1, <3>1, <3>2
    <2>5. \A i \in 1..listed : i > offset /\ i <= offset + Len(page) => Listing[i] \in swept'
      <3> TAKE i \in 1..listed
      <3> HAVE i > offset /\ i <= offset + Len(page)
      <3>1. i - offset \in 1..Len(page) /\ offset + (i - offset) = i
        BY <2>4
      <3> QED
        BY <3>1, <2>4
    <2>6. offset = cursor
      BY <1>1 DEF Inductive, SweepIsContiguous
    <2>7. ~ garbled => \A i \in 1..listed :
            i <= cursor' /\ Listing[i] \in due => Listing[i] \in swept'
      BY <1>1, <2>4, <2>5, <2>6 DEF Inductive, SweepIsContiguous
    <2>8. ~ garbled /\ Len(page) < PageLimit => \A i \in 1..listed :
            Listing[i] \in due => Listing[i] \in swept'
      BY <1>1, <2>4, <2>5, <2>6 DEF Inductive, SweepIsContiguous
    <2>9. ~ garbled /\ Len(page) < PageLimit => due \subseteq swept'
      BY <2>8 DEF Inductive, SweepIsContiguous
    <2> QED
      BY <1>1, <2>1, <2>2, <2>3, <2>7, <2>9 DEF SweepIsContiguous
  <1>10. RowsAgree'
    <2>1. ASSUME NEW m \in DOMAIN marketRows'
          PROVE  /\ m \in DOMAIN pointers' /\ pointers'[m] = marketRows'[m].rule
                 /\ <<m, pointers'[m]>> \in versions'
      <3>1. CASE m \in written
        <4>1. marketRows'[m].rule = EventOf(m).markets[m].rule
          BY <1>2, <3>1 DEF Upserted
        <4>2. m \in DOMAIN pointers' /\ pointers'[m] = EventOf(m).markets[m].rule
          BY <1>2, <1>4, <3>1 DEF Upserted, PointersTo
        <4> QED
          BY <1>2, <4>1, <4>2, <3>1
      <3>2. CASE m \notin written
        BY <1>2, <3>2 DEF Upserted, Inductive, RowsAgree
      <3> QED
        BY <3>1, <3>2
    <2>2. ASSUME NEW e \in DOMAIN eventRows', eventRows'[e] = "resolved",
                 NEW m \in Parsed(e) \ Invalid
          PROVE  m \in DOMAIN marketRows' /\ marketRows'[m].resolved
      <3>1. CASE e \in {x.event : x \in events}
        <4>1. PICK x \in events : /\ x.event = e
                                  /\ eventRows'[e] = EventStatus(x.closed,
                                        {x.markets[n] : n \in DOMAIN x.markets})
          BY <1>2, <1>5, <3>1 DEF Upserted
        <4>2. DOMAIN x.markets = Parsed(e)
          BY <4>1, <1>1, RowsAreApart DEF events
        <4>3. x.markets[m].resolved
          BY <4>1, <4>2, <2>2 DEF EventStatus
        <4>4. m \in WrittenMarkets(x) /\ m \in written /\ EventOf(m) = x
          BY <4>2, <4>1, <1>3 DEF WrittenMarkets, written
        <4> QED
          BY <4>3, <4>4, <1>2 DEF Upserted
      <3>2. CASE e \notin {x.event : x \in events}
        <4>1. e \in DOMAIN eventRows /\ eventRows[e] = "resolved"
          BY <1>2, <3>2, <2>2 DEF Upserted
        <4>2. m \in DOMAIN marketRows /\ marketRows[m].resolved
          BY <4>1 DEF Inductive, RowsAgree
        <4>3. m \notin written
          <5> SUFFICES ASSUME m \in written PROVE FALSE
            OBVIOUS
          <5>1. /\ EventOf(m) \in events /\ m \in Parsed(EventOf(m).event)
                /\ EventOf(m).event \in DOMAIN MarketsOf
            BY <1>1, <1>4, RowsAreApart DEF events
          <5>2. e \in DOMAIN MarketsOf
            BY <4>1 DEF Inductive, Typed
          <5>3. EventOf(m).event = e
            BY <5>1, <5>2, ListingAssumption DEF Parsed
          <5> QED
            BY <5>1, <5>3, <3>2
        <4> QED
          BY <4>2, <4>3, <1>2 DEF Upserted
      <3> QED
        BY <3>1, <3>2
    <2> QED
      BY <2>1, <2>2 DEF RowsAgree
  <1> QED
    BY <1>6, <1>7, <1>8, <1>9, <1>10 DEF Inductive

-----------------------------------------------------------------------------
\* Every step of the registry preserves the invariant.
LEMMA NextPreserves == Inductive /\ [Next]_vars => Inductive'
  <1> SUFFICES ASSUME Inductive, [Next]_vars PROVE Inductive'
    OBVIOUS
  <1>1. CASE Gamma
    <2>1. CASE \E m \in Markets, r \in Rules : Amend(m, r, FALSE, Mids)
      BY <2>1, AmendPreserves
    <2>2. ASSUME NEW m \in Markets, NEW p \in PriceLists, Amend(m, raw[m].rule, TRUE, p)
          PROVE  Inductive'
      <3>1. raw[m].rule \in Rules
        BY DEF Inductive, Typed, Texts
      <3> QED
        BY <2>2, <3>1, AmendPreserves
    <2> QED
      BY <1>1, <2>1, <2>2, ListEventPreserves, CloseEventPreserves DEF Gamma
  <1>2. CASE Run
    BY <1>2, StartRunPreserves, FetchPreserves, CommitPagePreserves, FinishRunPreserves DEF Run
  <1>3. CASE FetchGarbled \/ Abort
    BY <1>3, FetchGarbledPreserves, AbortPreserves
  <1>4. CASE UNCHANGED vars
    BY <1>4 DEF vars, gamma, tables, run, history, Inductive, Typed, PageIsListed,
                SettlementsShown, Shown, SweepIsContiguous, RowsAgree
  <1> QED
    BY <1>1, <1>2, <1>3, <1>4 DEF Next

\* The invariant holds throughout.
LEMMA RegistryInductive == Spec => []Inductive
  BY InitInductive, NextPreserves, PTL DEF Spec

\* The rows of a market and of its event agree with one another, whatever is
\* edited, resolved and taken back between the pages, and wherever runs fail.
THEOREM RowsAlwaysAgree == Spec => []RowsAgree
  <1>1. Inductive => RowsAgree
    BY DEF Inductive
  <1> QED
    BY <1>1, RegistryInductive, PTL

\* No page blanks out a settlement, and no mid becomes one.
THEOREM SettlementsStick == Spec => SettlementSticks
  <1> DEFINE Sticks == \A m \in Markets : \A i \in DOMAIN prices[m] :
        /\ i \in DOMAIN prices'[m]
        /\ prices[m][i] # {} => prices'[m][i] # {}
        /\ \A v \in prices'[m][i] : <<m, i, v>> \in shown
  <1>1. Inductive /\ [Next]_vars => [Sticks]_vars
    <2> SUFFICES ASSUME Inductive, Next PROVE Sticks
      BY DEF Sticks
    <2>1. CASE UNCHANGED prices
      BY <2>1 DEF Inductive, SettlementsShown
    <2>2. CASE CommitPage
      <3>1. Inductive' /\ shown' = shown
        BY <2>2, CommitPagePreserves DEF CommitPage
      <3>2. PICK settled : prices' = Upserted(settled, prices) /\ \A m \in DOMAIN settled :
               \E outcomes : settled[m] = ReplacedOutcomes(m, outcomes)
        <4> DEFINE events == Written(page)
                   EventOf(m) == CHOOSE x \in events : m \in WrittenMarkets(x)
                   new == [m \in UNION {WrittenMarkets(x) : x \in events} |->
                       ReplacedOutcomes(m, ParseOutcomes(m, EventOf(m).markets[m]))]
        <4>1. prices' = Upserted(new, prices)
          BY <2>2 DEF CommitPage
        <4>2. \A m \in DOMAIN new : new[m] =
                ReplacedOutcomes(m, ParseOutcomes(m, EventOf(m).markets[m]))
          OBVIOUS
        <4> HIDE DEF new
        <4>3. \A m \in DOMAIN new : \E outcomes : new[m] = ReplacedOutcomes(m, outcomes)
          BY <4>2
        <4> QED
          BY <4>1, <4>3
      <3>3. ASSUME NEW m \in Markets, NEW i \in DOMAIN prices[m]
            PROVE  i \in DOMAIN prices'[m] /\ (prices[m][i] # {} => prices'[m][i] # {})
        <4>1. CASE m \in DOMAIN settled
          <5>1. PICK outcomes : prices'[m] = ReplacedOutcomes(m, outcomes)
            BY <3>2, <4>1 DEF Upserted
          <5> QED
            BY <5>1 DEF ReplacedOutcomes, Upserted
        <4>2. CASE m \notin DOMAIN settled
          BY <3>2, <4>2 DEF Upserted, Inductive, Typed
        <4> QED
          BY <4>1, <4>2
      <3> QED
        BY <3>1, <3>3 DEF Inductive, SettlementsShown
    <2> QED
      BY <2>1, <2>2 DEF Next, Gamma, Run, ListEvent, Amend, CloseEvent, StartRun, Fetch,
                        FetchGarbled, FinishRun, Abort, tables
  <1>2. SettlementSticks <=> [][Sticks]_vars
    BY DEF SettlementSticks
  <1> QED
    BY <1>1, <1>2, RegistryInductive, PTL DEF Spec

\* The cursor starts over only after the sweep has read all it was due to.
THEOREM SweepsReadAll == Spec => SweepReadsAll
  <1> DEFINE Reads == cursor > 0 /\ cursor' = 0 => due \subseteq swept \/ garbled
  <1>1. Inductive /\ [Next]_vars => [Reads]_vars
    <2> SUFFICES ASSUME Inductive, Next PROVE Reads
      OBVIOUS
    <2>1. CASE cursor' = cursor
      BY <2>1 DEF Inductive, Typed
    <2>2. CASE CommitPage
      BY <2>2, MarketRegistryAssumption DEF CommitPage, Inductive, Typed
    <2>3. CASE FinishRun
      BY <2>3 DEF FinishRun, CursorAfter, Inductive, Typed, SweepIsContiguous
    <2> QED
      BY <2>1, <2>2, <2>3 DEF Next, Gamma, Run, ListEvent, Amend, CloseEvent, StartRun, Fetch,
                              FetchGarbled, Abort, tables
  <1>2. SweepReadsAll <=> [][Reads]_vars
    BY DEF SweepReadsAll
  <1> QED
    BY <1>1, <1>2, RegistryInductive, PTL DEF Spec
=============================================================================
