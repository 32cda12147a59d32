---------------------------- MODULE ClobSimulator ----------------------------
(***************************************************************************)
(* apps/executor/src/venues/simulator.ts under the coordinator: the venue  *)
(* that enforces buying power and inventory, consumes depth, and can be    *)
(* told to answer ambiguously.                                             *)
(*                                                                         *)
(* Every venue method awaits delay() and then runs to completion, so a     *)
(* submit is two steps: the coordinator sends it (the call goes on the     *)
(* wire), and later the simulator executes it.  Prices and quantities are  *)
(* naturals; money is kept in hundredths of a price unit, so that a fee of *)
(* FeePercent is exact.                                                    *)
(***************************************************************************)
EXTENDS VenueReconciliation, Allotment

CONSTANTS
    OrderTerms,       \* [Intents -> [qty, limit, tif]]; qty of a flatten is ignored
    FlattenOf,        \* [Instruments -> Intents]: the exit flatten() mints for an instrument
    OpeningBooks,     \* [Instruments -> [bids, asks]]: the size at each price
    StartingCash,
    FeePercent,
    AmbiguousSubmits  \* how many submits are answered "unknown"

ASSUME BookAssumption ==
    /\ DOMAIN OpeningBooks = Instruments
    /\ \A k \in Instruments :
          /\ DOMAIN OpeningBooks[k] = {"asks", "bids"}
          /\ \A side \in {"asks", "bids"} : IsBookSide(OpeningBooks[k][side])
ASSUME TermsAssumption ==
    \A i \in Intents : OrderTerms[i].qty \in Nat /\ OrderTerms[i].limit \in Nat
ASSUME FlattenAssumption ==
    \A k \in Instruments : FlattenOf[k] \in Intents \ Entries /\ InstrumentOf[FlattenOf[k]] = k
ASSUME MoneyAssumption ==
    StartingCash \in Nat /\ FeePercent \in 0..100 /\ AmbiguousSubmits \in Nat

VARIABLES
    cash, books, positions, ambiguousRemaining,
    flattenQty        \* quantity of the exit minted for an instrument, 0 before

marketVars == <<cash, books, positions, ambiguousRemaining>>
simVars == <<marketVars, venueVars, flattenQty, reconcileVars>>
allVars == <<coordVars, simVars>>

MintedExits == {FlattenOf[k] : k \in Instruments}
Quantity(i) ==
    IF i \in MintedExits THEN flattenQty[InstrumentOf[i]] ELSE OrderTerms[i].qty

SimInit ==
    /\ Init
    /\ cash = 100 * StartingCash
    /\ books = OpeningBooks
    /\ positions = [k \in Instruments |-> 0]
    /\ ambiguousRemaining = AmbiguousSubmits
    /\ VenueInit
    /\ flattenQty = [k \in Instruments |-> 0]
    /\ ReconcileInit

-----------------------------------------------------------------------------
(* Walking a book.                                                         *)

OppositeSide(i) == IF Side(i) = "BUY" THEN "asks" ELSE "bids"
OppositeLevels(i) == books[InstrumentOf[i]][OppositeSide(i)]

\* Price p is better than price q for intent i.
Better(i, p, q) == IF Side(i) = "BUY" THEN p < q ELSE p > q

\* Faulty variant: the limit only has to hold at the top of the book.
WithinLimitAtTop(i, p) ==
    \E best \in DOMAIN OppositeLevels(i) :
        /\ \A q \in DOMAIN OppositeLevels(i) : ~ Better(i, q, best)
        /\ IF Side(i) = "BUY" THEN best <= OrderTerms[i].limit ELSE best >= OrderTerms[i].limit

WithinLimit(i, p) ==
    IF Side(i) = "BUY" THEN p <= OrderTerms[i].limit ELSE p >= OrderTerms[i].limit

Takeable(i) == {p \in DOMAIN OppositeLevels(i) : WithinLimit(i, p)}

\* How much a walk for `qty` takes from each level within the limit.
Taken(i, qty) ==
    Allot(Restrict(OppositeLevels(i), Takeable(i)),
          [p \in Takeable(i) |-> {q \in Takeable(i) : Better(i, q, p)}], qty)

\* Faulty variant: a walk leaves the book as it was.
ConsumedNot(levels, taken) == levels

\* The levels after a walk; emptied levels are dropped.
Consumed(levels, taken) ==
    LET left == [p \in DOMAIN levels |->
                   IF p \in DOMAIN taken THEN levels[p] - taken[p] ELSE levels[p]]
    IN  Restrict(left, {p \in DOMAIN left : left[p] > 0})

-----------------------------------------------------------------------------
(* submitIntent, after its delay.                                          *)

\* What a submit of intent i would take from the book: the depth within its
\* limit, the quantity it fills, what that costs, and the levels left.
Walk(i) ==
    LET available == SumFunctionOnSet(OppositeLevels(i), Takeable(i))
        qty       == Lesser(Quantity(i), available)
        taken     == Taken(i, qty)
        cost      == SumFunction([p \in DOMAIN taken |-> taken[p] * p])
    IN  [available |-> available, qty |-> qty, cost |-> 100 * cost, fee |-> cost * FeePercent,
         left |-> Consumed(OppositeLevels(i), taken)]

\* Faulty variant: the fee is left out of the buying-power check.
FundedWithoutFee(i, w) ==
    IF Side(i) = "BUY" THEN w.cost <= cash ELSE w.qty <= positions[InstrumentOf[i]]

Funded(i, w) ==
    IF Side(i) = "BUY" THEN w.cost + w.fee <= cash ELSE w.qty <= positions[InstrumentOf[i]]

Rejected(i, w) ==
    \/ w.qty = 0
    \/ OrderTerms[i].tif = "FOK" /\ w.available < Quantity(i)
    \/ ~ Funded(i, w)

\* The answer reaches the call if its process still waits for it.
Answer(c, rep) == IF phase[c] = "submitting" THEN VenueAnswers(c, rep) ELSE UNCHANGED coordVars

\* Nothing was placed, and the caller cannot tell.
ExecuteAmbiguously(c) ==
    /\ ambiguousRemaining > 0
    /\ ambiguousRemaining' = ambiguousRemaining - 1
    /\ Answer(c, ReportOf("unknown", 0, 0))
    /\ UNCHANGED <<cash, books, positions, orders, fills>>

Reject(c, w) ==
    /\ ambiguousRemaining = 0
    /\ Rejected(arg[c], w)
    /\ Answer(c, ReportOf("rejected", 0, 0))
    /\ UNCHANGED <<marketVars, orders, fills>>

Fill(c, w) ==
    LET i      == arg[c]
        k      == InstrumentOf[i]
        status == IF w.qty >= Quantity(i) THEN "filled" ELSE "partially_filled"
    IN  /\ ambiguousRemaining = 0
        /\ ~ Rejected(i, w)
        /\ IF Side(i) = "BUY"
           THEN /\ cash' = cash - w.cost - w.fee
                /\ positions' = [positions EXCEPT ![k] = @ + w.qty]
           ELSE /\ cash' = cash + w.cost - w.fee
                /\ positions' = [positions EXCEPT ![k] = @ - w.qty]
        /\ books' = [books EXCEPT ![k][OppositeSide(i)] = w.left]
        /\ orders' = Append(orders, [intent |-> i, status |-> status, filled |-> w.qty])
        /\ fills' = Append(fills, [order |-> Len(orders) + 1, instrument |-> k, side |-> Side(i),
                                   qty |-> w.qty, cost |-> w.cost, fee |-> w.fee])
        /\ Answer(c, ReportOf(status, Len(orders) + 1, w.qty))
        /\ UNCHANGED ambiguousRemaining

Execute(c) ==
    /\ c \in wire
    /\ wire' = wire \ {c}
    /\ \E w \in {Walk(arg[c])} : ExecuteAmbiguously(c) \/ Reject(c, w) \/ Fill(c, w)
    /\ UNCHANGED <<flattenQty, reconcileVars>>

-----------------------------------------------------------------------------
(* The other venue methods.                                                *)

SimCancelAll ==
    /\ \E o \in DOMAIN orders : Open(orders[o])
    /\ orders' = [o \in DOMAIN orders |->
                    IF Open(orders[o]) THEN [orders[o] EXCEPT !.status = "canceled"] ELSE orders[o]]
    /\ UNCHANGED <<coordVars, marketVars, fills, wire, flattenQty, reconcileVars>>

\* listPositions, then one bounded FAK exit per long position.  The quantity
\* is fixed here and may be stale when the exit is dispatched.
Flatten ==
    /\ \E k \in Instruments : positions[k] > 0 /\ flattenQty[k] = 0
    /\ flattenQty' = [k \in Instruments |->
                        IF flattenQty[k] = 0 THEN positions[k] ELSE flattenQty[k]]
    /\ UNCHANGED <<coordVars, marketVars, venueVars, reconcileVars>>

-----------------------------------------------------------------------------
(* The coordinator's side.                                                 *)

\* An exit exists for dispatch only once flatten() has minted it.
SimDispatch(c, i) ==
    /\ i \in MintedExits => flattenQty[InstrumentOf[i]] > 0
    /\ Dispatch(c, i)
    /\ wire' = IF phase'[c] = "submitting" THEN wire \cup {c} ELSE wire
    /\ UNCHANGED <<marketVars, orders, fills, flattenQty, reconcileVars>>

SimResume(c) ==
    /\ \/ (Return(c) \/ BeginReconcile(c)) /\ UNCHANGED reconcileVars
       \/ QueryOpenOrders(c)
       \/ QueryFills(c)
       \/ Conclude(c)
    /\ UNCHANGED <<marketVars, venueVars, flattenQty>>

SimOperate ==
    /\ \/ (\E s \in RunStates : SetRunState(s)) /\ UNCHANGED reconcileVars
       \/ \E prior \in {seen, {}} : Crash(prior)
    /\ UNCHANGED <<marketVars, venueVars, flattenQty>>

SimNext ==
    \/ \E c \in Calls, i \in Intents : SimDispatch(c, i)
    \/ \E c \in Calls : Execute(c) \/ SimResume(c)
    \/ SimCancelAll
    \/ Flatten
    \/ SimOperate

SimSpec == SimInit /\ [][SimNext]_allVars

-----------------------------------------------------------------------------
(* Properties.                                                             *)

\* The fourth ingredient of the v2 loss: however orders race for the same
\* cash or the same inventory, across instruments, neither goes negative.
FundedAndLong == cash >= 0 /\ \A k \in Instruments : positions[k] >= 0

\* What has been traded on one side of an instrument.
Traded(side, k) ==
    SumFunctionOnSet([n \in DOMAIN fills |-> fills[n].qty],
                     {n \in DOMAIN fills : fills[n].instrument = k /\ fills[n].side = side})

\* No liquidity is sold twice and no fill is lost: on each instrument the
\* fills explain exactly the inventory held and the depth that is gone.
FillsExplainMarket ==
    \A k \in Instruments :
        LET bought == Traded("BUY", k)
            sold   == Traded("SELL", k)
        IN  /\ positions[k] = bought - sold
            /\ SumFunction(books[k].asks) = SumFunction(OpeningBooks[k].asks) - bought
            /\ SumFunction(books[k].bids) = SumFunction(OpeningBooks[k].bids) - sold

\* The VWAP of every fill is inside the intent's limit, and a FOK order is
\* filled whole or not at all.
FillsRespectTerms ==
    \A n \in DOMAIN fills :
        LET i == orders[fills[n].order].intent
        IN  /\ IF fills[n].side = "BUY"
               THEN fills[n].cost <= 100 * fills[n].qty * OrderTerms[i].limit
               ELSE fills[n].cost >= 100 * fills[n].qty * OrderTerms[i].limit
            /\ OrderTerms[i].tif = "FOK" => fills[n].qty = Quantity(i)

=============================================================================
