------------------------ MODULE MarketDataCollector ------------------------
(***************************************************************************)
(* python/nbe_theta/ingest/collector.py and the book state machine of      *)
(* marketstream.py: REST snapshots, then a subscription whose messages are *)
(* folded into books, and a REST repair after a dropped stream.            *)
(*                                                                         *)
(* A book is the set of prices with size on each side.  The venue changes  *)
(* its books at any time; a change becomes a message only for a token that *)
(* is subscribed, and a message may be malformed or unaddressed.  Frames   *)
(* without a token or a type also come with no change behind them, as many *)
(* as the venue likes.  Of the quotes, which are history, only those of a  *)
(* REST snapshot are kept; the throttle of those of the stream is not      *)
(* modelled.                                                               *)
(***************************************************************************)
EXTENDS Naturals, Sequences, FiniteSetsExt

CONSTANTS
    Tokens,
    PricesOf,         \* [Tokens -> SUBSET Nat]: the ticks of each token
    Defects,          \* what the venue gets wrong, a subset of AllDefects
    MaxMessages,      \* max_messages_per_cycle
    MaxInFlight       \* bound: messages between the venue and the collector

\* A change that cannot be read, one without its token or its type, and a
\* `book` of which some levels cannot be read.
AllDefects == {"malformed_change", "unaddressed", "partial_book"}

ASSUME CollectorAssumption ==
    /\ Defects \subseteq AllDefects
    /\ PricesOf \in [Tokens -> SUBSET Nat]
    /\ MaxMessages \in Nat \ {0}
    /\ MaxInFlight \in Nat

VARIABLES
    venue,        \* the venue's books
    channel,      \* frames on their way on this subscription
    anchored,     \* history: tokens whose last `book` message was whole, and all since was sent
    book,         \* BookState of each token
    phase,        \* where run_cycle stands: idle, cold, consuming or repair
    subscribed,   \* the cycle's tokens
    todo,         \* tokens a resync has still to ask for
    seen,         \* messages handled in this cycle
    requoted,     \* tokens of which this cycle stored a quote observed after its last gap
    repaired      \* whether the last cycle ended with the repair of a gap

venueVars == <<venue, channel, anchored>>
cycleVars == <<phase, subscribed, todo, seen, requoted, repaired>>
vars == <<venueVars, book, cycleVars>>

Sides == {"bids", "asks"}
Prices == UNION {PricesOf[t] : t \in Tokens}
Levels == [Sides -> SUBSET Prices]
EmptyLevels == [s \in Sides |-> {}]

Crossed(levels) == \E bid \in levels["bids"], ask \in levels["asks"] : bid > ask

\* The levels of a book that is out of sync are never read again.
Unsynced == [levels |-> EmptyLevels, synced |-> FALSE]

Init ==
    /\ venue = [t \in Tokens |-> EmptyLevels]
    /\ channel = <<>>
    /\ anchored = {}
    /\ book = [t \in Tokens |-> Unsynced]
    /\ phase = "idle"
    /\ subscribed = {}
    /\ todo = {}
    /\ seen = 0
    /\ requoted = {}
    /\ repaired = FALSE

-----------------------------------------------------------------------------
(* The venue and the wire.                                                 *)

Heard(t) == phase = "consuming" /\ t \in subscribed

\* A frame that names no token, or no type: of what it is about the collector
\* learns nothing.
Unaddressed == [kind |-> "unaddressed"]

Send(msg) ==
    /\ Len(channel) < MaxInFlight
    /\ channel' = Append(channel, msg)

\* A level appears or goes.  What is sent about it is a delta, a delta that
\* cannot be read, or a frame that does not say which token it is about.
Change(t, side, price) ==
    LET gone   == price \in venue[t][side]
        levels == [venue[t] EXCEPT ![side] = IF gone THEN @ \ {price} ELSE @ \cup {price}]
    IN  /\ ~ Crossed(levels)
        /\ venue' = [venue EXCEPT ![t] = levels]
        /\ IF Heard(t)
           THEN \/ /\ Send([token |-> t, kind |-> "price_change", side |-> side,
                            price |-> price, gone |-> gone])
                   /\ UNCHANGED anchored
                \/ /\ "malformed_change" \in Defects
                   /\ Send([token |-> t, kind |-> "malformed_change"])
                   /\ UNCHANGED anchored
                \/ /\ "unaddressed" \in Defects
                   /\ Send(Unaddressed)
                   /\ anchored' = anchored \ {t}
           ELSE UNCHANGED <<channel, anchored>>
        /\ UNCHANGED <<book, cycleVars>>

\* A snapshot message, of which a level may be unreadable.
SendBook(t) ==
    /\ Heard(t)
    /\ \/ /\ Send([token |-> t, kind |-> "book", levels |-> venue[t]])
          /\ anchored' = anchored \cup {t}
       \/ /\ "partial_book" \in Defects
          /\ \E side \in Sides : \E price \in venue[t][side] :
                Send([token |-> t, kind |-> "book", levels |-> [venue[t] EXCEPT ![side] = @ \ {price}]])
          /\ anchored' = anchored \ {t}
    /\ UNCHANGED <<venue, book, cycleVars>>

SendTrade(t) ==
    /\ Heard(t)
    /\ Send([token |-> t, kind |-> "last_trade_price"])
    /\ UNCHANGED <<venue, anchored, book, cycleVars>>

\* A frame about none of the books.
SendNotice ==
    /\ "unaddressed" \in Defects
    /\ phase = "consuming"
    /\ Send(Unaddressed)
    /\ UNCHANGED <<venue, anchored, book, cycleVars>>

-----------------------------------------------------------------------------
(* BookState and apply_message.                                            *)

Snapshot(levels) == [levels |-> levels, synced |-> TRUE]

\* Faulty variant: a change that cannot be read is skipped.
DesyncNot(b) == b

Desync(b) == Unsynced

\* A delta means nothing to a book that is out of sync.
ApplyChange(b, msg) ==
    IF ~ b.synced THEN b
    ELSE [b EXCEPT !.levels[msg.side] = IF msg.gone THEN @ \ {msg.price} ELSE @ \cup {msg.price}]

ApplyMessage(b, msg) ==
    CASE msg.kind = "book"             -> Snapshot(msg.levels)
      [] msg.kind = "price_change"     -> ApplyChange(b, msg)
      [] msg.kind = "malformed_change" -> Desync(b)
      [] OTHER                         -> b

\* quote() after each message: a crossed book desyncs itself.
AfterQuote(b) == IF b.synced /\ Crossed(b.levels) THEN Unsynced ELSE b

-----------------------------------------------------------------------------
(* run_cycle.                                                              *)

\* The books that have no snapshot, or lost it, are asked for first.
StartCycle(tokens) ==
    /\ phase = "idle"
    /\ tokens # {}
    /\ phase' = "cold"
    /\ subscribed' = tokens
    /\ todo' = {t \in tokens : ~ book[t].synced}
    /\ requoted' = {}
    /\ repaired' = FALSE
    /\ UNCHANGED <<venueVars, book, seen>>

\* One token of a resync.  A fetch that fails leaves its book as it is; one
\* that succeeds is also quoted, whatever the throttle.
Resync(t) ==
    /\ phase \in {"cold", "repair"}
    /\ t \in todo
    /\ todo' = todo \ {t}
    /\ \/ UNCHANGED <<book, requoted>>
       \/ /\ book' = [book EXCEPT ![t] = Snapshot(venue[t])]
          /\ requoted' = requoted \cup {t}
    /\ UNCHANGED <<venueVars, phase, subscribed, seen, repaired>>

Subscribe ==
    /\ phase = "cold"
    /\ todo = {}
    /\ phase' = "consuming"
    /\ UNCHANGED <<venueVars, book, subscribed, todo, seen, requoted, repaired>>

\* Leaving the loop over subscribe() closes the connection.
Disconnect ==
    /\ channel' = <<>>
    /\ anchored' = {}
    /\ UNCHANGED venue

\* The locals of run_cycle go.
LeaveCycle ==
    /\ phase' = "idle"
    /\ subscribed' = {}
    /\ seen' = 0

Addressed == channel # <<>> /\ Head(channel) # Unaddressed

\* subscribe() passes over what it cannot address: it yields nothing, so the
\* frame does not count, and calls recv again with the whole timeout.
Skip ==
    /\ phase = "consuming"
    /\ channel # <<>>
    /\ ~ Addressed
    /\ channel' = Tail(channel)
    /\ UNCHANGED <<venue, anchored, book, cycleVars>>

\* One message.  After the last one of the cycle the books stay as they are.
Handle ==
    LET msg  == Head(channel)
        t    == msg.token
        next == AfterQuote(ApplyMessage(book[t], msg))
        last == seen + 1 = MaxMessages
    IN  /\ phase = "consuming"
        /\ Addressed
        /\ book' = [book EXCEPT ![t] = next]
        /\ IF last
           THEN Disconnect /\ LeaveCycle
           ELSE /\ channel' = Tail(channel)
                /\ seen' = seen + 1
                /\ UNCHANGED <<venue, anchored, phase, subscribed>>
        /\ UNCHANGED <<todo, requoted, repaired>>

\* Faulty variant: only the books of this cycle are desynced.
TornSubscribed == subscribed

\* desync_all.
Torn == Tokens

ToRepair == subscribed

\* StreamClosed: nothing is trusted until REST has been asked again.
StreamClosed ==
    /\ book' = [t \in Tokens |-> IF t \in Torn THEN Unsynced ELSE book[t]]
    /\ Disconnect
    /\ phase' = "repair"
    /\ todo' = ToRepair
    /\ requoted' = {}
    /\ seen' = 0
    /\ UNCHANGED <<subscribed, repaired>>

\* The connection cannot be opened, drops, or sends what is not JSON.
Drop ==
    /\ phase = "consuming" \/ (phase = "cold" /\ todo = {})
    /\ StreamClosed

\* Faulty variant: recv waits forever.
RecvTimesOutNever == FALSE

\* No frame of any kind has come for the whole of recv's timeout.
RecvTimesOut == phase = "consuming" /\ channel = <<>>

RecvTimeout == RecvTimesOut /\ StreamClosed

EndRepair ==
    /\ phase = "repair"
    /\ todo = {}
    /\ LeaveCycle
    /\ repaired' = TRUE
    /\ UNCHANGED <<venueVars, book, todo, requoted>>

\* The process dies: the books are gone, and so are the quotes of a cycle
\* that had not committed.
Restart ==
    /\ Disconnect
    /\ book' = [t \in Tokens |-> Unsynced]
    /\ LeaveCycle
    /\ todo' = {}
    /\ requoted' = {}
    /\ repaired' = FALSE

-----------------------------------------------------------------------------
Collect ==
    \/ \E t \in Tokens : Resync(t)
    \/ Subscribe
    \/ Skip
    \/ Handle
    \/ RecvTimeout
    \/ EndRepair

Next ==
    \/ \E t \in Tokens, side \in Sides : \E price \in PricesOf[t] : Change(t, side, price)
    \/ \E t \in Tokens : SendBook(t) \/ SendTrade(t)
    \/ SendNotice
    \/ \E tokens \in SUBSET Tokens : StartCycle(tokens)
    \/ Collect
    \/ Drop
    \/ Restart

Spec == Init /\ [][Next]_vars

\* The collector runs, its requests end, and recv has a timeout.  It is one
\* thread: while there are frames to pass over it need not time out.
FairSpec == Spec /\ WF_vars(Collect)

-----------------------------------------------------------------------------
(* Properties.                                                             *)

About(msg, t) == msg # Unaddressed /\ msg.token = t

\* All that was sent about t on this subscription has been handled.
Drained(t) == \A n \in DOMAIN channel : ~ About(channel[n], t)

\* Deltas, prints and unreadable deltas in any order never make a synced
\* book wrong, once a whole `book` message of it was sent on this subscription
\* and no message about it since went by unread.
AnchoredBookIsExact ==
    \A t \in anchored : Drained(t) /\ book[t].synced => book[t].levels = venue[t]

\* "No token is left carrying a price from before the gap while pretending
\* to be live": after a repair a token has a later quote, or is out of sync,
\* also if it belonged to an earlier cycle only.
GapIsRepaired ==
    phase = "idle" /\ repaired => \A t \in Tokens : book[t].synced => t \in requoted

\* No cycle hangs on a silent stream, on a REST call that fails or on messages
\* of any kind: what alone can keep one open is a stream that never stops
\* sending frames that nobody can address, and never pauses for as long as
\* recv waits (subscribe, _consume).
CycleEndsUnlessFlooded ==
    \/ phase # "idle" ~> phase = "idle"
    \/ []<><<Skip>>_vars

=============================================================================
