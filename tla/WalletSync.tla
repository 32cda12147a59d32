----------------------------- MODULE WalletSync -----------------------------
(***************************************************************************)
(* The two processes that read one wallet's trades from the Data API:      *)
(* WalletSync of python/nbe_theta/ingest/monitor.py, which follows the     *)
(* newest trades down to a watermark, and WalletBackfillIngestor of        *)
(* backfill.py, which pages through the whole history by offset.  Both     *)
(* keep their place in one row of ingest_cursors.                          *)
(*                                                                         *)
(* Trades are numbered by the time they occurred.  The listing is newest   *)
(* first and grows at the top, and a trade may be listed late.  A page is  *)
(* one transaction; a failure anywhere rolls it back and ends the run.     *)
(***************************************************************************)
EXTENDS Naturals, FiniteSets, FiniteSetsExt

CONSTANTS
    MaxTrades,        \* bound: how many trades the wallet makes
    PageLimit,        \* rows on a page
    Overlap,          \* sync_overlap_s: how much later than it occurred a trade may be listed
    SyncMaxPages,     \* sync_max_pages
    BackfillMaxPages  \* the backfill's max_pages; 0 is no limit

ASSUME WalletSyncAssumption ==
    /\ MaxTrades \in Nat
    /\ PageLimit \in Nat \ {0}
    /\ Overlap \in Nat
    /\ SyncMaxPages \in Nat \ {0}
    /\ BackfillMaxPages \in Nat

VARIABLES
    listed,     \* the trades the venue lists
    stored,     \* the rows of venue_trades
    cursor,     \* the shared row: the backfill's offset and the monitor's watermark
    sync,       \* the monitor's run
    backfill,   \* the backfill's run
    completed,  \* whether the monitor's last run read down to its cutoff or the end
    ragged,     \* history: some run kept a page and stopped above its cutoff
    clobbered,  \* history: a sync wrote back an offset that had changed since it was read
    highest,    \* history: the highest watermark ever committed
    sweep       \* history: what was listed when the backfill last started at the top

historyVars == <<completed, ragged, clobbered, highest, sweep>>
vars == <<listed, stored, cursor, sync, backfill, historyVars>>

Trades == 1..MaxTrades

\* No watermark.  As a cutoff it is below every trade, and so never ends a
\* sync, as a missing cutoff does not in the code.
None == 0

IdleSync ==
    [phase |-> "idle", pages |-> 0, cutoff |-> None, newest |-> None, page |-> {}, offset |-> 0]
IdleBackfill == [phase |-> "idle", pages |-> 0, from |-> 0, page |-> {}]

Init ==
    /\ listed = {}
    /\ stored = {}
    /\ cursor = [offset |-> 0, watermark |-> None]
    /\ sync = IdleSync
    /\ backfill = IdleBackfill
    /\ completed = FALSE
    /\ ragged = FALSE
    /\ clobbered = FALSE
    /\ highest = None
    /\ sweep = {}

-----------------------------------------------------------------------------
(* The venue.                                                              *)

NewestOf(trades) == Max(trades \cup {None})

\* A trade appears, at most Overlap later than it occurred.
List(n) ==
    /\ n \notin listed
    /\ n + Overlap >= NewestOf(listed)
    /\ listed' = listed \cup {n}
    /\ UNCHANGED <<stored, cursor, sync, backfill, historyVars>>

\* The page at an offset of the newest-first listing.
PageAt(offset) ==
    {n \in listed : Cardinality({m \in listed : m >= n}) \in (offset + 1)..(offset + PageLimit)}

\* A short page ends the listing.
Short(page) == Cardinality(page) < PageLimit

-----------------------------------------------------------------------------
(* WalletSync.run.                                                         *)

\* Faulty variant: the sync stops at the watermark itself.
CutoffAtWatermark(watermark) == watermark

Cutoff(watermark) == IF watermark > Overlap THEN watermark - Overlap ELSE None

StartSync ==
    /\ sync.phase = "idle"
    /\ sync' = [IdleSync EXCEPT !.phase = "fetch", !.newest = cursor.watermark,
                               !.cutoff = Cutoff(cursor.watermark)]
    /\ UNCHANGED <<listed, stored, cursor, backfill, historyVars>>

FetchForSync ==
    /\ sync.phase = "fetch"
    /\ sync' = [sync EXCEPT !.phase = "fetched", !.page = PageAt(sync.pages * PageLimit)]
    /\ UNCHANGED <<listed, stored, cursor, backfill, historyVars>>

\* Faulty variant: the newest trade of the page, whatever was seen before.
NewestSeenOnPage(newest, page) == NewestOf(page)

NewestSeen(newest, page) == Max({newest, NewestOf(page)})

\* The rows are upserted, which locks the wallet's row until the commit if
\* there is any, and then the cursor is read in order to be merged.
StageSync ==
    /\ sync.phase = "fetched"
    /\ sync' = [sync EXCEPT !.phase = "staged", !.newest = NewestSeen(sync.newest, sync.page),
                           !.offset = cursor.offset]
    /\ UNCHANGED <<listed, stored, cursor, backfill, historyVars>>

WalletLocked == sync.phase = "staged" /\ sync.page # {}

\* merge_watermark keeps the offset that was read.
MergedCursor ==
    IF sync.newest = None THEN cursor
    ELSE [offset |-> sync.offset, watermark |-> sync.newest]

ReachedCutoff(page) == page # {} /\ \A n \in page : n < sync.cutoff

\* The page commits; the sync goes on, or ends in one of three ways.
CommitSync ==
    LET complete == ReachedCutoff(sync.page) \/ Short(sync.page)
        capped   == ~ complete /\ sync.pages + 1 = SyncMaxPages
    IN  /\ sync.phase = "staged"
        /\ stored' = stored \cup sync.page
        /\ cursor' = MergedCursor
        /\ highest' = Max({highest, cursor'.watermark})
        /\ sync' = IF complete \/ capped THEN IdleSync
                   ELSE [sync EXCEPT !.phase = "fetch", !.pages = @ + 1, !.page = {}, !.offset = 0]
        /\ completed' = IF capped THEN FALSE ELSE completed \/ complete
        /\ ragged' = (ragged \/ capped)
        /\ clobbered' = (clobbered \/ cursor'.offset # cursor.offset)
        /\ UNCHANGED <<listed, backfill, sweep>>

\* A request or a statement fails, or the process dies: the page under way
\* is rolled back, those before it stay.
FailSync ==
    /\ sync.phase # "idle"
    /\ sync' = IdleSync
    /\ completed' = FALSE
    /\ ragged' = (ragged \/ sync.pages > 0)
    /\ UNCHANGED <<listed, stored, cursor, backfill, clobbered, highest, sweep>>

-----------------------------------------------------------------------------
(* WalletBackfillIngestor.backfill_wallet.                                 *)

\* The backfill knows nothing of the watermark.
OffsetCursor(offset) == [offset |-> offset, watermark |-> None]

StartBackfill ==
    /\ backfill.phase = "idle"
    /\ backfill' = [IdleBackfill EXCEPT !.phase = "fetch", !.from = cursor.offset]
    /\ sweep' = IF cursor.offset = 0 THEN listed ELSE sweep
    /\ UNCHANGED <<listed, stored, cursor, sync, completed, ragged, clobbered, highest>>

FetchForBackfill ==
    /\ backfill.phase = "fetch"
    /\ backfill' = [backfill EXCEPT !.phase = "fetched", !.page = PageAt(backfill.from)]
    /\ UNCHANGED <<listed, stored, cursor, sync, historyVars>>

\* All offsets past the last trade are one, as their pages are always empty.
PageAfter(offset) == Min({offset + PageLimit, MaxTrades})

\* The page, the wallet's row and the offset commit together.
CommitBackfill ==
    LET next == PageAfter(backfill.from)
    IN  /\ backfill.phase = "fetched"
        /\ ~ WalletLocked
        /\ stored' = stored \cup backfill.page
        /\ cursor' = OffsetCursor(next)
        /\ backfill' = IF Short(backfill.page) THEN [IdleBackfill EXCEPT !.phase = "ending"]
                       ELSE IF backfill.pages + 1 = BackfillMaxPages THEN IdleBackfill
                       ELSE [phase |-> "fetch", pages |-> backfill.pages + 1, from |-> next, page |-> {}]
        /\ UNCHANGED <<listed, sync, historyVars>>

\* The whole history was read: the next run starts from the top again.
EndBackfill ==
    /\ backfill.phase = "ending"
    /\ cursor' = OffsetCursor(0)
    /\ backfill' = IdleBackfill
    /\ UNCHANGED <<listed, stored, sync, historyVars>>

\* Faulty variant: the offset is written before the page commits, so that a
\* failure in between skips it.
OffsetOnFailureAdvanced(offset) == PageAfter(offset)

\* A failed page leaves the offset where the last committed page put it.
OffsetOnFailure(offset) == offset

FailBackfill ==
    /\ backfill.phase # "idle"
    /\ backfill' = IdleBackfill
    /\ cursor' = [cursor EXCEPT !.offset = OffsetOnFailure(cursor.offset)]
    /\ UNCHANGED <<listed, stored, sync, historyVars>>

-----------------------------------------------------------------------------
MonitorNext ==
    \/ \E n \in Trades : List(n)
    \/ StartSync \/ FetchForSync \/ StageSync \/ CommitSync \/ FailSync

Next ==
    \/ MonitorNext
    \/ StartBackfill \/ FetchForBackfill \/ CommitBackfill \/ EndBackfill \/ FailBackfill

Spec == Init /\ [][Next]_vars

\* A wallet that is watched while no backfill runs.
MonitorSpec == Init /\ [][MonitorNext]_vars

-----------------------------------------------------------------------------
(* Properties.                                                             *)

\* Every listed trade below the highest watermark, but for those that may
\* still be listed late, is stored.
Seamless == \A n \in listed : n + Overlap < highest => n \in stored

\* As long as no run has kept a page and then failed or hit its page limit,
\* there is no gap below the watermark: not from late trades, not from a
\* listing that moves between two pages, not from a backfill that wipes the
\* watermark.
NoGapUnlessRagged == sync.phase = "idle" /\ ~ ragged => Seamless

\* "The deliberate overlap guarantees no gap at the seam": after a sync
\* that completed, no trade is missing between those that are stored.
NoGapAtSeam ==
    sync.phase = "idle" /\ completed =>
        \A n \in listed \ stored : n + Overlap < highest => \A m \in stored : n < m

\* The monitor only ever advances the watermark, over all its runs, though
\* the backfill wipes it at any moment and deeper pages hold older trades.
WatermarkAdvances == [][cursor'.watermark \in {None, cursor.watermark} \cup highest..MaxTrades]_vars

\* A backfill that has read to the end has stored everything that was listed
\* when it started at the top, however often it was interrupted and resumed
\* and whatever was listed since, unless a sync has written back an offset
\* that the backfill had already reset.
SweepCovers == backfill.phase = "ending" /\ ~ clobbered => sweep \subseteq stored
=============================================================================
