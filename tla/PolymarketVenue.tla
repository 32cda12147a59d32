--------------------------- MODULE PolymarketVenue ---------------------------
(***************************************************************************)
(* apps/executor/src/venues/polymarket.ts under the coordinator, with the  *)
(* exchange behind its signing client as the environment.                  *)
(*                                                                         *)
(* The exchange is code of someone else's: a posted order may rest, match  *)
(* or be refused, its acknowledgement may be lost or carry a status the    *)
(* adapter does not know, and a post that has failed for the caller may    *)
(* still land later.  An order asks for Lots lots, matched one at a time.  *)
(***************************************************************************)
EXTENDS VenueReconciliation, Integers

CONSTANT Lots         \* how many lots an order asks for

ASSUME LotsAssumption == Lots \in Nat \ {0}

VARIABLE reply        \* the acknowledgement on its way back to each call

exchangeVars == <<venueVars, reply>>
liveVars == <<coordVars, reconcileVars, exchangeVars>>

LiveInit ==
    /\ Init
    /\ ReconcileInit
    /\ VenueInit
    /\ reply = [c \in Calls |-> NoReport]

-----------------------------------------------------------------------------
(* The adapter.                                                            *)

\* Faulty variant: a status the adapter does not know counts as a refusal.
MapStatusRefusing(raw) ==
    CASE raw \in {"matched", "filled"} -> "filled"
      [] raw \in {"live", "open"} -> "live"
      [] raw \in {"partial", "partially_filled"} -> "partially_filled"
      [] raw \in {"canceled", "cancelled"} -> "canceled"
      [] OTHER -> "rejected"

\* An unrecognised status is neither a success nor a refusal.
MapStatus(raw) ==
    CASE raw \in {"matched", "filled"} -> "filled"
      [] raw \in {"live", "open"} -> "live"
      [] raw \in {"partial", "partially_filled"} -> "partially_filled"
      [] raw \in {"canceled", "cancelled"} -> "canceled"
      [] raw = "rejected" -> "rejected"
      [] OTHER -> "unknown"

\* postOrder is awaited and its answer translated.
Acknowledge(c) ==
    /\ reply[c] # NoReport
    /\ VenueAnswers(c, ReportOf(MapStatus(reply[c].raw), reply[c].order, reply[c].filled))
    /\ reply' = [reply EXCEPT ![c] = NoReport]
    /\ UNCHANGED <<venueVars, reconcileVars>>

\* Whatever postOrder throws is ambiguous.  The request may still be on its
\* way, and the order may already rest.
PostFails(c) ==
    /\ VenueAnswers(c, ReportOf("unknown", 0, 0))
    /\ reply' = [reply EXCEPT ![c] = NoReport]
    /\ UNCHANGED <<venueVars, reconcileVars>>

\* cancelAll at the exchange, for the coordinator's cancelOpenOrders.
LiveCancelAll ==
    /\ \E o \in DOMAIN orders : Open(orders[o])
    /\ orders' = [o \in DOMAIN orders |->
                    IF Open(orders[o]) THEN [orders[o] EXCEPT !.status = "canceled"]
                    ELSE orders[o]]
    /\ UNCHANGED <<coordVars, reconcileVars, fills, wire, reply>>

-----------------------------------------------------------------------------
(* The exchange.                                                           *)

FilledStatus(n) ==
    IF n = 0 THEN "live" ELSE IF n < Lots THEN "partially_filled" ELSE "filled"

\* A status string the exchange may answer for an order in `status`.
RawStatuses(status) ==
    {"delayed"} \cup
        CASE status = "filled" -> {"matched"}
          [] status = "partially_filled" -> {"partial"}
          [] OTHER -> {status}

\* The exchange answers call c, if it still listens.
AnswerWith(c, raw, order, n) ==
    reply' = IF phase[c] = "submitting"
             THEN [reply EXCEPT ![c] = [raw |-> raw, order |-> order, filled |-> n]]
             ELSE reply

\* The fills once n more lots of an order have traded.
FillsWith(order, i, n) ==
    IF n = 0 THEN fills
    ELSE Append(fills, [order |-> order, instrument |-> InstrumentOf[i], side |-> Side(i), qty |-> n])

\* The post arrives, and n lots match at once.  An order that may not rest
\* has its remainder canceled.
Land(c) ==
    LET i  == arg[c]
        id == Len(orders) + 1
    IN  \E n \in 0..Lots : \E status \in {FilledStatus(n)} \cup {"canceled" : rest \in n..(Lots - 1)} :
            \E raw \in RawStatuses(status) :
                /\ orders' = Append(orders, [intent |-> i, status |-> status, filled |-> n])
                /\ fills' = FillsWith(id, i, n)
                /\ AnswerWith(c, raw, id, n)

\* The exchange refuses the post: there is no order.
Refuse(c) ==
    /\ AnswerWith(c, "rejected", 0, 0)
    /\ UNCHANGED <<orders, fills>>

\* The post never arrives.
Drop(c) == UNCHANGED <<orders, fills, reply>>

Deliver(c) ==
    /\ c \in wire
    /\ wire' = wire \ {c}
    /\ Land(c) \/ Refuse(c) \/ Drop(c)
    /\ UNCHANGED <<coordVars, reconcileVars>>

\* A counterparty takes one lot of a resting order.
Match(o) ==
    /\ Open(orders[o])
    /\ orders' = [orders EXCEPT ![o].filled = @ + 1, ![o].status = FilledStatus(orders[o].filled + 1)]
    /\ fills' = FillsWith(o, orders[o].intent, 1)
    /\ UNCHANGED <<coordVars, reconcileVars, wire, reply>>

-----------------------------------------------------------------------------
LiveDispatch(c, i) ==
    /\ Dispatch(c, i)
    /\ wire' = IF phase'[c] = "submitting" THEN wire \cup {c} ELSE wire
    /\ UNCHANGED <<orders, fills, reply, reconcileVars>>

LiveResume(c) ==
    /\ \/ (Return(c) \/ BeginReconcile(c) \/ Rethrow(c)) /\ UNCHANGED reconcileVars
       \/ QueryThrows(c)
       \/ QueryOpenOrders(c)
       \/ QueryFills(c)
       \/ Conclude(c)
    /\ UNCHANGED exchangeVars

LiveOperate ==
    /\ UNCHANGED venueVars
    /\ \/ (\E s \in RunStates : SetRunState(s)) /\ UNCHANGED <<reconcileVars, reply>>
       \/ (\E prior \in {seen, {}} : Crash(prior)) /\ reply' = [c \in Calls |-> NoReport]

LiveNext ==
    \/ \E c \in Calls, i \in Intents : LiveDispatch(c, i)
    \/ \E c \in Calls : Acknowledge(c) \/ PostFails(c) \/ Deliver(c) \/ LiveResume(c)
    \/ \E o \in DOMAIN orders : Match(o)
    \/ LiveCancelAll
    \/ LiveOperate

LiveSpec == LiveInit /\ [][LiveNext]_liveVars

-----------------------------------------------------------------------------
(* Properties.                                                             *)

OrdersOf(i) == {o \in DOMAIN orders : orders[o].intent = i}

\* No duplicate exposure: the exchange never holds two orders for one intent,
\* whatever acknowledgement is lost, late or unreadable, however
\* reconciliation ends, and however often the intent is dispatched again,
\* as long as restarts carry the seen ids over.
OneOrderPerIntent == generation = 0 => \A i \in Intents : \A o, p \in OrdersOf(i) : o = p

\* A report returned as "executed" is venue truth: a refusal has no order (as
\* long as restarts carry the seen ids over), and anything else is the intent's
\* own order, filled at least as far.
ExecutedReportIsTrue ==
    \A c \in Calls :
        phase[c] = "executed" =>
            IF report[c].status = "rejected" THEN generation = 0 => OrdersOf(arg[c]) = {}
            ELSE /\ report[c].order \in OrdersOf(arg[c])
                 /\ report[c].filled <= orders[report[c].order].filled

\* A recovered report always names an order the exchange really holds, on the
\* right instrument and side, and no more lots than traded there.
RecoveryNamesARealOrder ==
    \A c \in Calls :
        phase[c] = "recovered" =>
            LET alike == {o \in DOMAIN orders :
                            /\ InstrumentOf[orders[o].intent] = InstrumentOf[arg[c]]
                            /\ Side(orders[o].intent) = Side(arg[c])}
            IN  /\ report[c].order \in alike
                /\ report[c].filled <=
                     SumFunctionOnSet([o \in DOMAIN orders |-> orders[o].filled], alike)

\* A halt closes the tap: while the process stays halted, an order can only
\* come from a post that was already on the wire, each post makes at most
\* one, and no order that stopped trading starts again.
HaltOnlyDrainsOrders ==
    [][ runState = "halted" =>
          /\ wire' \subseteq wire
          /\ Len(orders') + Cardinality(wire') <= Len(orders) + Cardinality(wire)
          /\ \A o \in DOMAIN orders : Open(orders'[o]) => Open(orders[o]) ]_liveVars

\* "If the order is there, we adopt it": a call that reports its order
\* recovered has an order at the venue.
RecoveredOrderIsOwn ==
    \A c \in Calls : phase[c] = "recovered" => OrdersOf(arg[c]) # {}

=============================================================================
