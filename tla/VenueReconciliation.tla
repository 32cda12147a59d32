------------------------- MODULE VenueReconciliation -------------------------
(***************************************************************************)
(* The coordinator's reconcile(), against whatever venue has an order list *)
(* and a fill list.  The two queries of its Promise.all are two steps: the *)
(* venue answers them in either order, and anything may happen in between. *)
(*                                                                         *)
(* What the venue makes of an order is up to the composing module.  An     *)
(* order is a record with at least intent, status and filled, its id being *)
(* its place in the sequence; a fill has order, instrument, side and qty.  *)
(***************************************************************************)
EXTENDS ExecutionCoordinator, Sequences, FiniteSetsExt, Functions

CONSTANT NotAsked     \* a query that has not been answered yet

VARIABLES
    orders,           \* the venue's orders; an order's id is its place
    fills,            \* the account's fills, oldest first
    wire,             \* calls whose submit the venue has not taken up yet
    openSeen,         \* what listOpenOrders told each reconciling call
    fillsSeen         \* what listRecentFills told it

venueVars == <<orders, fills, wire>>
reconcileVars == <<openSeen, fillsSeen>>

VenueInit ==
    /\ orders = <<>>
    /\ fills = <<>>
    /\ wire = {}

ReconcileInit ==
    /\ openSeen = [c \in Calls |-> NotAsked]
    /\ fillsSeen = [c \in Calls |-> NotAsked]

Statuses ==
    {"pending", "live", "partially_filled", "filled", "canceled", "rejected", "expired", "unknown"}
VenueReports == [status : Statuses, order : Nat, filled : Nat]

Side(i) == IF i \in Entries THEN "BUY" ELSE "SELL"

ReportOf(status, order, filled) == [status |-> status, order |-> order, filled |-> filled]

Open(order) == order.status \in {"live", "partially_filled"}

Untouched(f, c) == f[c] = NotAsked

\* The answers are locals of reconcile(): they go when these calls leave it.
ForgetAnswers(calls) ==
    /\ openSeen' = [c \in Calls |-> IF c \in calls THEN NotAsked ELSE openSeen[c]]
    /\ fillsSeen' = [c \in Calls |-> IF c \in calls THEN NotAsked ELSE fillsSeen[c]]

\* listOpenOrders is answered: the resting orders, by client intent id.
QueryOpenOrders(c) ==
    /\ phase[c] = "reconciling"
    /\ Untouched(openSeen, c)
    /\ openSeen' = [openSeen EXCEPT ![c] =
                      {[intent |-> orders[o].intent,
                        report |-> ReportOf(orders[o].status, o, orders[o].filled)] :
                           o \in {n \in DOMAIN orders : Open(orders[n])}}]
    /\ UNCHANGED <<coordVars, venueVars, fillsSeen>>

\* listRecentFills is answered.
QueryFills(c) ==
    /\ phase[c] = "reconciling"
    /\ Untouched(fillsSeen, c)
    /\ fillsSeen' = [fillsSeen EXCEPT ![c] = fills]
    /\ UNCHANGED <<coordVars, venueVars, openSeen>>

\* Faulty variant: a fill of the other side is taken as well.
LooksLikeEitherSide(fill, i) == fill.instrument = InstrumentOf[i]

\* A fill carries no intent: it is matched by instrument and side alone.
LooksLike(fill, i) == fill.instrument = InstrumentOf[i] /\ fill.side = Side(i)

\* What reconcile() concludes from the two answers.
Recovered(c) ==
    LET resting == {o \in openSeen[c] : o.intent = arg[c]}
        traded  == fillsSeen[c]
        match   == {n \in DOMAIN traded : LooksLike(traded[n], arg[c])}
    IN  IF resting # {} THEN (CHOOSE o \in resting : TRUE).report
        ELSE IF match = {} THEN NoReport
        ELSE ReportOf("filled", traded[Min(match)].order,
                      SumFunctionOnSet([n \in DOMAIN traded |-> traded[n].qty], match))

Conclude(c) ==
    /\ ~ Untouched(openSeen, c)
    /\ ~ Untouched(fillsSeen, c)
    /\ FinishReconcile(c, Recovered(c))
    /\ ForgetAnswers({c})

\* One of the two queries fails, and the answer of the other is dropped.
QueryThrows(c) ==
    /\ ReconcileThrows(c)
    /\ ForgetAnswers({c})

Crash(prior) ==
    /\ Restart(prior)
    /\ ForgetAnswers(Calls)
=============================================================================
