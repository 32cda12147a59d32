--------------------------- MODULE WalletSyncProofs ---------------------------
(***************************************************************************)
(* Proofs about WalletSync, for any number of trades, page size, overlap   *)
(* and page limits.                                                        *)
(*                                                                         *)
(* The argument is about ranks.  The rank of a trade is its place in the   *)
(* newest-first listing; a page holds the ranks of a stretch, and ranks    *)
(* only grow.                                                              *)
(***************************************************************************)
EXTENDS WalletSync, FiniteSetTheorems, WellFoundedInduction, TLAPS

Above(T, n) == {m \in T : m >= n}
Rank(T, n) == Cardinality(Above(T, n))

\* The page at an offset of a listing T.
PageOf(T, offset) == {n \in T : Rank(T, n) \in (offset + 1)..(offset + PageLimit)}

-----------------------------------------------------------------------------
\* A set of trades is finite.
LEMMA TradesAreFinite ==
  ASSUME NEW T \in SUBSET Trades
  PROVE  IsFiniteSet(T) /\ Cardinality(T) \in Nat /\ T \subseteq Nat
  <1>1. IsFiniteSet(Trades) /\ Trades \subseteq Nat
    BY FS_Interval, WalletSyncAssumption DEF Trades
  <1> QED
    BY <1>1, FS_Subset, FS_CardinalityType

\* The greatest of two numbers.
LEMMA MaxOfTwo ==
  ASSUME NEW a \in Nat, NEW b \in Nat
  PROVE  /\ Max({a, b}) \in {a, b} /\ Max({a, b}) >= a /\ Max({a, b}) >= b
  <1>1. \E x \in {a, b} : \A y \in {a, b} : x >= y
    OBVIOUS
  <1> QED
    BY <1>1 DEF Max

\* The least of a set of numbers.
LEMMA LeastExists ==
  ASSUME NEW T \in SUBSET Nat, T # {}
  PROVE  \E m \in T : \A n \in T : m <= n
  <1>1. PICK m \in T : \A n \in T : ~ (<<n, m>> \in OpToRel(<, Nat))
    BY NatLessThanWellFounded, WFMin
  <1>2. \A n \in T : ~ (n < m)
    BY <1>1 DEF OpToRel
  <1> QED
    BY <1>2

\* The greatest of a set of trades.
LEMMA GreatestExists ==
  ASSUME NEW T \in SUBSET Trades, T # {}
  PROVE  \E m \in T : \A n \in T : n <= m
  <1> DEFINE U == {MaxTrades - n : n \in T}
  <1>1. U \in SUBSET Nat /\ U # {}
    <2>1. \A n \in T : MaxTrades - n \in Nat
      BY WalletSyncAssumption DEF Trades
    <2> QED
      BY <2>1
  <1>2. PICK u \in U : \A v \in U : u <= v
    BY <1>1, LeastExists
  <1>3. PICK m \in T : u = MaxTrades - m
    BY <1>2
  <1>4. ASSUME NEW n \in T PROVE n <= m
    <2>1. MaxTrades - m <= MaxTrades - n
      BY <1>2, <1>3
    <2> QED
      BY <2>1, WalletSyncAssumption DEF Trades
  <1> QED
    BY <1>3, <1>4

\* NewestOf is the newest trade, if there is any.
LEMMA NewestFacts ==
  ASSUME NEW T \in SUBSET Trades
  PROVE  /\ NewestOf(T) \in T \cup {None} /\ NewestOf(T) \in Nat
         /\ \A n \in T : n <= NewestOf(T)
  <1>1. \E x \in T \cup {None} : \A y \in T \cup {None} : x >= y
    <2>1. CASE T = {}
      BY <2>1 DEF None
    <2>2. CASE T # {}
      <3>1. PICK m \in T : \A n \in T : n <= m
        BY <2>2, GreatestExists
      <3> QED
        BY <3>1 DEF None, Trades
    <2> QED
      BY <2>1, <2>2
  <1>2. NewestOf(T) \in T \cup {None} /\ \A y \in T \cup {None} : NewestOf(T) >= y
    BY <1>1 DEF NewestOf, Max
  <1>3. T \cup {None} \subseteq Nat
    BY TradesAreFinite DEF None
  <1> QED
    BY <1>2, <1>3

\* Ranks are positive numbers that fall as trades get newer.
LEMMA RankFacts ==
  ASSUME NEW T \in SUBSET Trades, NEW n \in T
  PROVE  /\ Rank(T, n) \in Nat \ {0}
         /\ \A m \in T : (m >= n => Rank(T, m) <= Rank(T, n))
                      /\ (Rank(T, m) < Rank(T, n) => m > n)
  <1>1. \A m \in T : /\ IsFiniteSet(Above(T, m)) /\ Rank(T, m) \in Nat
                     /\ m \in Above(T, m) /\ m \in Nat
    BY TradesAreFinite DEF Above, Rank
  <1>2. Rank(T, n) # 0
    BY <1>1, FS_EmptySet DEF Rank
  <1>3. ASSUME NEW m \in T, m >= n PROVE Rank(T, m) <= Rank(T, n)
    <2>1. Above(T, m) \in SUBSET Above(T, n)
      BY <1>3, TradesAreFinite DEF Above
    <2> QED
      BY <1>1, <2>1, FS_Subset DEF Rank
  <1>4. \A m \in T : Rank(T, m) < Rank(T, n) => m > n
    <2> TAKE m \in T
    <2>1. ASSUME m <= n PROVE Rank(T, n) <= Rank(T, m)
      <3>1. Above(T, n) \in SUBSET Above(T, m)
        BY <1>1, <2>1, TradesAreFinite DEF Above
      <3> QED
        BY <1>1, <3>1, FS_Subset DEF Rank
    <2> QED
      BY <1>1, <2>1
  <1> QED
    BY <1>1, <1>2, <1>3, <1>4

\* The newest trade has rank one.
LEMMA NewestIsFirst ==
  ASSUME NEW T \in SUBSET Trades, NEW n \in T, \A m \in T : m <= n
  PROVE  Rank(T, n) = 1
  <1>1. Above(T, n) = {n}
    BY TradesAreFinite DEF Above
  <1> QED
    BY <1>1, FS_Singleton DEF Rank

\* A rank only grows as the listing does.
LEMMA RanksGrow ==
  ASSUME NEW T \in SUBSET Trades, NEW U \in SUBSET Trades, T \subseteq U, NEW n \in T
  PROVE  Rank(T, n) <= Rank(U, n)
  <1>1. Above(T, n) \in SUBSET Above(U, n) /\ IsFiniteSet(Above(U, n))
    BY TradesAreFinite DEF Above
  <1> QED
    BY <1>1, FS_Subset DEF Rank

\* Down to a rank k that is not the last, the listing holds k trades.
LEMMA RanksAreDense ==
  ASSUME NEW T \in SUBSET Trades, NEW k \in Nat, NEW n \in T, Rank(T, n) > k
  PROVE  Cardinality({m \in T : Rank(T, m) <= k}) = k
  <1> DEFINE S == {m \in T : Rank(T, m) <= k}
             R == T \ S
  <1>1. IsFiniteSet(S) /\ Cardinality(S) \in Nat /\ S \subseteq Nat /\ R \subseteq Nat
    BY TradesAreFinite
  <1>2. \A m \in T : Rank(T, m) \in Nat \ {0} /\ m \in Nat
    BY RankFacts, TradesAreFinite
  <1>3. R # {} /\ n \in R
    BY <1>2
  <1>4. Cardinality(S) <= k
    <2>1. CASE S = {}
      BY <2>1, FS_EmptySet
    <2>2. CASE S # {}
      <3>1. PICK m \in S : \A x \in S : m <= x
        BY <1>1, <2>2, LeastExists
      <3>2. S \in SUBSET Above(T, m) /\ IsFiniteSet(Above(T, m))
        BY <1>2, <3>1, TradesAreFinite DEF Above
      <3>3. Cardinality(S) <= Rank(T, m)
        BY <3>2, FS_Subset DEF Rank
      <3> QED
        BY <1>1, <1>2, <3>1, <3>3
    <2> QED
      BY <2>1, <2>2
  <1>5. Cardinality(S) >= k
    <2>1. PICK x \in R : \A y \in R : y <= x
      BY <1>3, GreatestExists
    <2>2. Rank(T, x) > k
      BY <1>2, <2>1
    <2>3. Above(T, x) \in SUBSET (S \cup {x})
      BY <1>2, <2>1 DEF Above
    <2>4. Cardinality(S \cup {x}) = Cardinality(S) + 1 /\ IsFiniteSet(S \cup {x})
      BY <1>1, <2>1, FS_AddElement
    <2>5. Rank(T, x) <= Cardinality(S) + 1
      BY <2>3, <2>4, FS_Subset DEF Rank
    <2> QED
      BY <1>1, <1>2, <2>1, <2>2, <2>5
  <1> QED
    BY <1>1, <1>4, <1>5

\* A page that something follows is full.
LEMMA ShortPageIsLast ==
  ASSUME NEW T \in SUBSET Trades, NEW offset \in Nat, NEW n \in T,
         Rank(T, n) > offset + PageLimit
  PROVE  ~ Short(PageOf(T, offset))
  <1> DEFINE upTo(k) == {m \in T : Rank(T, m) <= k}
  <1> HIDE DEF upTo
  <1>1. PageLimit \in Nat \ {0} /\ \A m \in T : Rank(T, m) \in Nat
    BY RankFacts, WalletSyncAssumption
  <1>2. Cardinality(upTo(offset)) = offset
    <2>1. Rank(T, n) > offset
      BY <1>1
    <2> QED
      BY <2>1, RanksAreDense DEF upTo
  <1>3. Cardinality(upTo(offset + PageLimit)) = offset + PageLimit
    BY <1>1, RanksAreDense DEF upTo
  <1>4. /\ upTo(offset + PageLimit) = upTo(offset) \cup PageOf(T, offset)
        /\ upTo(offset) \cap PageOf(T, offset) = {}
    BY <1>1 DEF PageOf, upTo
  <1>5. /\ IsFiniteSet(upTo(offset))
        /\ IsFiniteSet(PageOf(T, offset)) /\ Cardinality(PageOf(T, offset)) \in Nat
    BY TradesAreFinite DEF PageOf, upTo
  <1>6. offset + PageLimit = offset + Cardinality(PageOf(T, offset)) - Cardinality({})
    BY <1>2, <1>3, <1>4, <1>5, FS_Union
  <1> QED
    BY <1>1, <1>5, <1>6, FS_EmptySet DEF Short

\* The lesser of two numbers.
LEMMA MinOfTwo ==
  ASSUME NEW a \in Nat, NEW b \in Nat
  PROVE  Min({a, b}) \in Nat /\ Min({a, b}) <= a
  <1>1. \E x \in {a, b} : \A y \in {a, b} : x =< y
    OBVIOUS
  <1> QED
    BY <1>1 DEF Min

\* Pages follow one another.
LEMMA PageOffsets ==
  ASSUME NEW k \in Nat
  PROVE  /\ k * PageLimit \in Nat /\ (k + 1) * PageLimit = k * PageLimit + PageLimit
         /\ PageLimit \in Nat \ {0}
  <1>1. PageLimit \in Nat \ {0}
    BY WalletSyncAssumption
  <1> QED
    BY <1>1

-----------------------------------------------------------------------------
(* The invariant.                                                          *)

Typed ==
    /\ listed \in SUBSET Trades /\ stored \subseteq Trades
    /\ cursor \in [offset : Nat, watermark : listed \cup {None}]
    /\ sync \in [phase : {"idle", "fetch", "fetched", "staged"}, pages : Nat, cutoff : Nat,
                 newest : listed \cup {None}, page : SUBSET listed, offset : Nat]
    /\ backfill \in [phase : {"idle", "fetch", "fetched", "ending"}, pages : Nat, from : Nat,
                     page : SUBSET listed]
    /\ ragged \in BOOLEAN /\ clobbered \in BOOLEAN
    /\ highest \in listed \cup {None} /\ sweep \subseteq listed

\* A sync has seen something as new as what was ever committed by the time
\* it commits.
WatermarksRise ==
    /\ cursor.watermark \in {None, highest}
    /\ sync.phase = "staged" \/ sync.pages > 0 => sync.newest >= highest
    /\ sync.phase = "fetched" /\ sync.pages = 0 /\ highest # None =>
        \E n \in sync.page : n >= highest

\* What a sync in progress has not stored is deeper than it has read, or was
\* listed so late that the next one will read it again.
SyncLeavesNoGap ==
    /\ sync.phase = "idle" => sync.pages = 0
    /\ sync.cutoff = 0 \/ sync.cutoff + Overlap <= highest
    /\ ~ ragged =>
        /\ sync.pages = 0 => Seamless
        /\ \A n \in listed : n < sync.cutoff => n \in stored
        /\ sync.phase = "fetch" => \A n \in listed :
            n \in stored \/ n + Overlap >= sync.newest \/ Rank(listed, n) > sync.pages * PageLimit
        /\ sync.phase \in {"fetched", "staged"} => \A n \in listed \ sync.page :
            \/ n \in stored
            \/ n + Overlap >= sync.newest /\ \A p \in sync.page : n + Overlap >= p
            \/ /\ Rank(listed, n) > (sync.pages + 1) * PageLimit
               /\ ~ Short(sync.page)
               /\ \A p \in sync.page : n < p

\* What a backfill has not stored is deeper than its offset.
BackfillLeavesNoGap ==
    ~ clobbered =>
        /\ backfill.phase \in {"fetch", "fetched"} => backfill.from = cursor.offset
        /\ \A n \in sweep : n \in stored \/ Rank(listed, n) > cursor.offset
        /\ backfill.phase = "fetched" => \A n \in sweep :
            \/ n \in stored \cup backfill.page
            \/ Rank(listed, n) > backfill.from + PageLimit /\ ~ Short(backfill.page)
        /\ backfill.phase = "ending" => sweep \subseteq stored

Inductive == Typed /\ WatermarksRise /\ SyncLeavesNoGap /\ BackfillLeavesNoGap

-----------------------------------------------------------------------------
\* Nothing is listed yet.
LEMMA InitInductive == Init => Inductive
  <1> SUFFICES ASSUME Init PROVE Inductive
    OBVIOUS
  <1> USE DEF Init, IdleSync, IdleBackfill, None
  <1>1. Typed
    BY DEF Typed
  <1>2. WatermarksRise
    BY DEF WatermarksRise
  <1>3. SyncLeavesNoGap
    BY DEF SyncLeavesNoGap, Seamless
  <1>4. BackfillLeavesNoGap
    BY DEF BackfillLeavesNoGap
  <1> QED
    BY <1>1, <1>2, <1>3, <1>4 DEF Inductive

\* A monitor's step leaves the backfill without a gap.
LEMMA BackfillFrame ==
  ASSUME Inductive, UNCHANGED <<listed, backfill, sweep>>, stored \subseteq stored',
         ~ clobbered' => ~ clobbered /\ cursor'.offset = cursor.offset
  PROVE  BackfillLeavesNoGap'
  BY DEF Inductive, BackfillLeavesNoGap

\* A backfill's step leaves the monitor without a gap, and may wipe its
\* watermark.
LEMMA SyncFrame ==
  ASSUME Inductive, UNCHANGED <<listed, sync, highest, ragged>>, stored \subseteq stored',
         cursor'.watermark \in {None, cursor.watermark}
  PROVE  WatermarksRise' /\ SyncLeavesNoGap'
  <1>1. WatermarksRise'
    BY DEF Inductive, WatermarksRise
  <1>2. SyncLeavesNoGap'
    BY DEF Inductive, SyncLeavesNoGap, Seamless
  <1> QED
    BY <1>1, <1>2

\* Trades appear at the top or a little late, and push the others down.
LEMMA ListPreserves ==
  ASSUME Inductive, NEW n \in Trades, List(n)
  PROVE  Inductive'
  <1>1. /\ listed' = listed \cup {n} /\ n + Overlap >= NewestOf(listed)
        /\ UNCHANGED <<stored, cursor, sync, backfill, completed, ragged, clobbered, highest, sweep>>
    BY DEF List, historyVars
  <1>2. listed \in SUBSET Trades /\ listed' \in SUBSET Trades /\ listed \subseteq listed'
    BY <1>1 DEF Inductive, Typed
  <1>3. n + Overlap >= highest /\ n + Overlap >= sync.newest /\ \A p \in sync.page : n + Overlap >= p
    <2>1. \A p \in listed \cup {None} : n + Overlap >= p /\ p \in Nat
      BY <1>1, <1>2, NewestFacts, TradesAreFinite, WalletSyncAssumption DEF None, Trades
    <2> QED
      BY <2>1 DEF Inductive, Typed
  <1>4. \A m \in listed : /\ Rank(listed, m) <= Rank(listed', m)
                          /\ Rank(listed, m) \in Nat /\ Rank(listed', m) \in Nat
    BY <1>2, RanksGrow, RankFacts
  <1>5. Typed'
    BY <1>1, <1>2 DEF Inductive, Typed
  <1>6. WatermarksRise'
    BY <1>1 DEF Inductive, WatermarksRise
  <1>7. /\ n \in Nat /\ Overlap \in Nat /\ highest \in Nat /\ sync.cutoff \in Nat
        /\ sync.pages \in Nat /\ backfill.from \in Nat /\ cursor.offset \in Nat
    BY <1>2, WalletSyncAssumption, TradesAreFinite DEF Inductive, Typed, Trades, None
  <1>8. SyncLeavesNoGap'
    <2>1. n < sync.cutoff => FALSE
      BY <1>3, <1>7 DEF Inductive, SyncLeavesNoGap
    <2>2. sync.pages * PageLimit \in Nat /\ (sync.pages + 1) * PageLimit \in Nat
      <3> DEFINE k == sync.pages
      <3>1. k \in Nat
        BY <1>7
      <3> HIDE DEF k
      <3>2. k * PageLimit \in Nat /\ (k + 1) * PageLimit \in Nat
        BY <3>1, PageOffsets
      <3> QED
        BY <3>2 DEF k
    <2>3. ~ ragged /\ sync.pages = 0 => Seamless'
      BY <1>1, <1>3, <1>7 DEF Inductive, SyncLeavesNoGap, Seamless
    <2>4. ASSUME ~ ragged, sync.phase = "fetch", NEW m \in listed'
          PROVE  \/ m \in stored \/ m + Overlap >= sync.newest
                 \/ Rank(listed', m) > sync.pages * PageLimit
      <3>1. CASE m = n
        BY <3>1, <1>3
      <3>2. CASE m \in listed
        BY <3>2, <2>2, <2>4, <1>4 DEF Inductive, SyncLeavesNoGap
      <3> QED
        BY <3>1, <3>2, <1>1
    <2>5. ASSUME ~ ragged, sync.phase \in {"fetched", "staged"}, NEW m \in listed' \ sync.page
          PROVE  \/ m \in stored
                 \/ m + Overlap >= sync.newest /\ \A p \in sync.page : m + Overlap >= p
                 \/ /\ Rank(listed', m) > (sync.pages + 1) * PageLimit
                    /\ ~ Short(sync.page)
                    /\ \A p \in sync.page : m < p
      <3>1. CASE m = n
        BY <3>1, <1>3
      <3>2. CASE m \in listed
        BY <3>2, <2>2, <2>5, <1>4 DEF Inductive, SyncLeavesNoGap
      <3> QED
        BY <3>1, <3>2, <1>1
    <2> QED
      BY <1>1, <2>1, <2>3, <2>4, <2>5 DEF Inductive, SyncLeavesNoGap, Short
  <1>9. BackfillLeavesNoGap'
    <2>1. \A m \in sweep : m \in listed
      BY DEF Inductive, Typed
    <2>2. backfill.from + PageLimit \in Nat
      BY <1>7, WalletSyncAssumption
    <2>3. \A m \in sweep : \A k \in Nat : Rank(listed, m) > k => Rank(listed', m) > k
      BY <1>4, <2>1
    <2> HIDE DEF Rank
    <2> QED
      BY <1>1, <1>7, <2>2, <2>3 DEF Inductive, BackfillLeavesNoGap
  <1> QED
    BY <1>5, <1>6, <1>8, <1>9 DEF Inductive

\* What the invariant says of numbers.
LEMMA Numbers ==
  ASSUME Inductive
  PROVE  /\ listed \in SUBSET Trades /\ listed \subseteq Nat /\ Overlap \in Nat
         /\ highest \in Nat /\ sync.cutoff \in Nat /\ sync.newest \in Nat /\ sync.pages \in Nat
         /\ cursor.offset \in Nat /\ cursor.watermark \in Nat /\ backfill.from \in Nat
         /\ \A n \in listed : Rank(listed, n) \in Nat \ {0}
  BY WalletSyncAssumption, TradesAreFinite, RankFacts DEF Inductive, Typed, None

\* A sync starts from a watermark below which nothing is missing.
LEMMA StartSyncPreserves == Inductive /\ StartSync => Inductive'
  <1> SUFFICES ASSUME Inductive, StartSync PROVE Inductive'
    OBVIOUS
  <1>1. Cutoff(cursor.watermark) \in Nat /\ cursor.watermark \in listed \cup {None}
    BY Numbers DEF Cutoff, None, Inductive, Typed
  <1> DEFINE cut == Cutoff(cursor.watermark)
  <1>2. /\ sync.phase = "idle" /\ UNCHANGED <<listed, stored, cursor, backfill, historyVars>>
        /\ sync' = [phase |-> "fetch", pages |-> 0, cutoff |-> cut,
                    newest |-> cursor.watermark, page |-> {}, offset |-> 0]
    BY DEF StartSync, IdleSync
  <1>3. cut = Cutoff(cursor.watermark) /\ cut \in Nat
    BY <1>1
  <1> HIDE DEF cut
  <1>4. /\ sync'.phase = "fetch" /\ sync'.pages = 0 /\ sync'.page = {}
        /\ sync'.newest = cursor.watermark /\ sync'.cutoff = Cutoff(cursor.watermark)
        /\ sync' \in [phase : {"idle", "fetch", "fetched", "staged"}, pages : Nat, cutoff : Nat,
                      newest : listed \cup {None}, page : SUBSET listed, offset : Nat]
    BY <1>1, <1>2, <1>3
  <1>5. Typed'
    BY <1>2, <1>4 DEF Inductive, Typed, historyVars
  <1>6. WatermarksRise'
    BY <1>2, <1>4, Numbers DEF Inductive, WatermarksRise, historyVars
  <1>7. SyncLeavesNoGap'
    <2>1. sync'.cutoff = 0 \/ sync'.cutoff + Overlap <= highest
      BY <1>2, <1>4, Numbers DEF Cutoff, None, Inductive, WatermarksRise
    <2>2. ~ ragged => Seamless
      BY <1>2, <1>4 DEF Inductive, SyncLeavesNoGap
    <2>3. ~ ragged => \A n \in listed : n < sync'.cutoff => n \in stored
      BY <1>2, <1>4, <2>2, Numbers DEF Cutoff, None, Inductive, WatermarksRise, Seamless
    <2>4. 0 * PageLimit = 0
      BY PageOffsets
    <2> QED
      BY <1>2, <1>4, <2>1, <2>2, <2>3, <2>4, Numbers DEF SyncLeavesNoGap, Seamless, historyVars
  <1>8. BackfillLeavesNoGap'
    BY <1>2, <1>4, BackfillFrame DEF historyVars
  <1> QED
    BY <1>5, <1>6, <1>7, <1>8 DEF Inductive

\* The next page of a sync follows those before it.
LEMMA FetchForSyncPreserves == Inductive /\ FetchForSync => Inductive'
  <1> SUFFICES ASSUME Inductive, FetchForSync PROVE Inductive'
    OBVIOUS
  <1> DEFINE off == sync.pages * PageLimit
             P == PageOf(listed, off)
  <1>1. /\ sync.phase = "fetch" /\ UNCHANGED <<listed, stored, cursor, backfill, historyVars>>
        /\ sync' = [sync EXCEPT !.phase = "fetched", !.page = P]
    BY DEF FetchForSync, PageAt, PageOf, Rank, Above
  <1>2. P \subseteq listed
    BY DEF PageOf
  <1>3. off \in Nat /\ (sync.pages + 1) * PageLimit = off + PageLimit /\ PageLimit \in Nat \ {0}
    <2> DEFINE k == sync.pages
    <2>1. k \in Nat
      BY Numbers
    <2> HIDE DEF k
    <2>2. k * PageLimit \in Nat /\ (k + 1) * PageLimit = k * PageLimit + PageLimit
      BY <2>1, PageOffsets
    <2> QED
      BY <2>2, WalletSyncAssumption DEF k
  <1>4. \A n \in listed \ P : \/ Rank(listed, n) <= off
                              \/ Rank(listed, n) > off + PageLimit
    BY <1>3, Numbers DEF PageOf
  <1>5. \A n \in listed, p \in P : /\ Rank(listed, n) <= off => p < n
                                   /\ Rank(listed, n) > off + PageLimit => n < p
    <2> SUFFICES ASSUME NEW n \in listed, NEW p \in P
                 PROVE  /\ Rank(listed, n) <= off => p < n
                        /\ Rank(listed, n) > off + PageLimit => n < p
      OBVIOUS
    <2>1. p \in listed /\ Rank(listed, p) > off /\ Rank(listed, p) <= off + PageLimit
      BY <1>3, Numbers DEF PageOf
    <2>2. /\ Rank(listed, n) \in Nat /\ Rank(listed, p) \in Nat
          /\ Rank(listed, n) < Rank(listed, p) => n > p
          /\ Rank(listed, p) < Rank(listed, n) => p > n
      BY <2>1, Numbers, RankFacts
    <2>3. n \in Nat /\ p \in Nat
      BY <2>1, Numbers
    <2> QED
      BY <1>3, <2>1, <2>2, <2>3
  <1>6. \A n \in listed : Rank(listed, n) > off + PageLimit => ~ Short(P)
    BY <1>3, Numbers, ShortPageIsLast
  <1> HIDE DEF off, P
  <1>7. Typed'
    BY <1>1, <1>2 DEF Inductive, Typed, historyVars
  <1>8. WatermarksRise'
    <2>1. ASSUME sync.pages = 0, highest # None
          PROVE  \E n \in P : n >= highest
      <3>1. highest \in listed
        BY <2>1 DEF Inductive, Typed
      <3>2. PICK n \in listed : \A m \in listed : m <= n
        BY <3>1, Numbers, GreatestExists
      <3>3. Rank(listed, n) = 1
        BY <3>2, Numbers, NewestIsFirst
      <3>4. off = 0
        BY <2>1, <1>3 DEF off
      <3>5. n \in P
        BY <3>3, <3>4, <1>3 DEF P, PageOf
      <3> QED
        BY <3>1, <3>2, <3>5, Numbers
    <2> QED
      BY <1>1, <2>1, Numbers DEF Inductive, Typed, WatermarksRise, historyVars
  <1>9. SyncLeavesNoGap'
    <2>1. ASSUME ~ ragged, NEW n \in listed \ P
          PROVE  \/ n \in stored
                 \/ n + Overlap >= sync.newest /\ \A p \in P : n + Overlap >= p
                 \/ /\ Rank(listed, n) > (sync.pages + 1) * PageLimit
                    /\ ~ Short(P)
                    /\ \A p \in P : n < p
      <3>1. CASE Rank(listed, n) > off + PageLimit
        BY <3>1, <1>3, <1>5, <1>6
      <3>2. CASE Rank(listed, n) <= off
        <4>1. n \in stored \/ n + Overlap >= sync.newest
          BY <1>1, <2>1, <3>2, <1>3, Numbers DEF Inductive, SyncLeavesNoGap, off
        <4>2. \A p \in P : n + Overlap >= p
          BY <1>2, <1>5, <3>2, Numbers
        <4> QED
          BY <4>1, <4>2
      <3> QED
        BY <3>1, <3>2, <1>4
    <2>2. /\ sync'.phase = "fetched" /\ sync'.page = P /\ sync'.newest = sync.newest
          /\ sync'.pages = sync.pages /\ sync'.cutoff = sync.cutoff
      BY <1>1 DEF Inductive, Typed
    <2> QED
      BY <1>1, <2>1, <2>2 DEF Inductive, SyncLeavesNoGap, Seamless, historyVars, Short
  <1>10. BackfillLeavesNoGap'
    BY <1>1, BackfillFrame DEF historyVars
  <1> QED
    BY <1>7, <1>8, <1>9, <1>10 DEF Inductive

\* A staged sync has seen what is on its page.
LEMMA StageSyncPreserves == Inductive /\ StageSync => Inductive'
  <1> SUFFICES ASSUME Inductive, StageSync PROVE Inductive'
    OBVIOUS
  <1> DEFINE seen == NewestSeen(sync.newest, sync.page)
  <1>1. /\ sync.phase = "fetched" /\ UNCHANGED <<listed, stored, cursor, backfill, historyVars>>
        /\ sync' = [sync EXCEPT !.phase = "staged", !.newest = seen, !.offset = cursor.offset]
    BY DEF StageSync
  <1>2. /\ seen \in {sync.newest} \cup sync.page \cup {None}
        /\ seen >= sync.newest /\ \A p \in sync.page : seen >= p
        /\ seen \in Nat
    <2>1. sync.page \in SUBSET Trades /\ sync.newest \in Nat
      BY Numbers DEF Inductive, Typed
    <2>2. /\ NewestOf(sync.page) \in sync.page \cup {None} /\ NewestOf(sync.page) \in Nat
          /\ \A p \in sync.page : p <= NewestOf(sync.page) /\ p \in Nat
      BY <2>1, NewestFacts, TradesAreFinite
    <2>3. /\ seen \in {sync.newest, NewestOf(sync.page)}
          /\ seen >= sync.newest /\ seen >= NewestOf(sync.page)
      BY <2>1, <2>2, MaxOfTwo DEF NewestSeen
    <2> HIDE DEF seen
    <2> QED
      BY <2>1, <2>2, <2>3
  <1> HIDE DEF seen
  <1>3. /\ sync'.phase = "staged" /\ sync'.page = sync.page /\ sync'.newest = seen
        /\ sync'.pages = sync.pages /\ sync'.cutoff = sync.cutoff
    BY <1>1 DEF Inductive, Typed
  <1>4. Typed'
    BY <1>1, <1>2 DEF Inductive, Typed, historyVars, None
  <1>5. WatermarksRise'
    <2>1. seen >= highest
      BY <1>1, <1>2, Numbers DEF Inductive, Typed, WatermarksRise, None
    <2> QED
      BY <1>1, <1>3, <2>1 DEF Inductive, WatermarksRise, historyVars
  <1>6. SyncLeavesNoGap'
    <2>1. \A n \in listed : n + Overlap >= sync.newest /\ (\A p \in sync.page : n + Overlap >= p)
              => n + Overlap >= seen
      BY <1>2, Numbers DEF None
    <2> QED
      BY <1>1, <1>3, <2>1 DEF Inductive, SyncLeavesNoGap, Seamless, historyVars, Short
  <1>7. BackfillLeavesNoGap'
    BY <1>1, BackfillFrame DEF historyVars
  <1> QED
    BY <1>4, <1>5, <1>6, <1>7 DEF Inductive

\* A page that commits leaves nothing behind that the rest of the sync, or
\* the next one, would not read.
LEMMA CommitSyncPreserves == Inductive /\ CommitSync => Inductive'
  <1> SUFFICES ASSUME Inductive, CommitSync PROVE Inductive'
    OBVIOUS
  <1> DEFINE complete == ReachedCutoff(sync.page) \/ Short(sync.page)
             capped == ~ complete /\ sync.pages + 1 = SyncMaxPages
             read == (sync.pages + 1) * PageLimit
             next == [sync EXCEPT !.phase = "fetch", !.pages = @ + 1, !.page = {}, !.offset = 0]
  <1>1. /\ sync.phase = "staged" /\ stored' = stored \cup sync.page
        /\ cursor' = MergedCursor /\ highest' = Max({highest, cursor'.watermark})
        /\ sync' = IF complete \/ capped THEN IdleSync ELSE next
        /\ ragged' = (ragged \/ capped)
        /\ clobbered' = (clobbered \/ cursor'.offset # cursor.offset)
        /\ UNCHANGED <<listed, backfill, sweep>>
    BY DEF CommitSync
  <1>2. /\ cursor' \in [offset : Nat, watermark : listed \cup {None}]
        /\ cursor'.watermark = sync.newest
    BY <1>1, Numbers DEF MergedCursor, Inductive, Typed, WatermarksRise, None
  <1>3. highest' = sync.newest
    <2>1. sync.newest >= highest
      BY <1>1 DEF Inductive, WatermarksRise
    <2>2. LET m == Max({highest, sync.newest})
          IN  m \in {highest, sync.newest} /\ m >= highest /\ m >= sync.newest
      BY Numbers, MaxOfTwo
    <2>3. Max({highest, sync.newest}) = sync.newest
      BY <2>1, <2>2, Numbers
    <2> QED
      BY <1>1, <1>2, <2>3
  <1>4. /\ IdleSync.phase = "idle" /\ IdleSync.pages = 0 /\ IdleSync.cutoff = 0
        /\ IdleSync \in [phase : {"idle", "fetch", "fetched", "staged"}, pages : Nat, cutoff : Nat,
                         newest : listed \cup {None}, page : SUBSET listed, offset : Nat]
    BY DEF IdleSync, None
  <1>5. /\ next.phase = "fetch" /\ next.pages = sync.pages + 1 /\ next.cutoff = sync.cutoff
        /\ next.newest = sync.newest
        /\ next \in [phase : {"idle", "fetch", "fetched", "staged"}, pages : Nat, cutoff : Nat,
                     newest : listed \cup {None}, page : SUBSET listed, offset : Nat]
    <2>1. sync.pages + 1 \in Nat
      BY Numbers
    <2> QED
      BY <2>1 DEF Inductive, Typed
  <1> HIDE DEF next
  <1>6. (next.pages * PageLimit) = read
    BY <1>5
  <1> HIDE DEF read
  <1>7. Typed'
    <2>1. stored' \subseteq Trades /\ ragged' \in BOOLEAN /\ clobbered' \in BOOLEAN
      BY <1>1 DEF Inductive, Typed
    <2>2. highest' \in listed \cup {None}
      BY <1>3 DEF Inductive, Typed
    <2>3. sync' \in [phase : {"idle", "fetch", "fetched", "staged"}, pages : Nat, cutoff : Nat,
                     newest : listed \cup {None}, page : SUBSET listed, offset : Nat]
      BY <1>1, <1>4, <1>5
    <2> QED
      BY <1>1, <1>2, <2>1, <2>2, <2>3 DEF Inductive, Typed
  <1>8. WatermarksRise'
    <2>1. sync'.phase \in {"idle", "fetch"} /\ (sync'.pages = 0 \/ sync'.newest = sync.newest)
      BY <1>1, <1>4, <1>5
    <2>2. cursor'.watermark = highest' /\ sync.newest >= highest'
      BY <1>2, <1>3, Numbers
    <2> QED
      BY <2>1, <2>2, <1>3, <1>4, <1>5, <1>1 DEF WatermarksRise
  <1>9. SyncLeavesNoGap'
    <2>1. sync'.cutoff = 0 \/ sync'.cutoff + Overlap <= highest'
      BY <1>1, <1>3, <1>4, <1>5, Numbers DEF Inductive, WatermarksRise, SyncLeavesNoGap
    <2>2. ASSUME ~ ragged, NEW n \in listed, n < sync.cutoff
          PROVE  n \in stored
      BY <2>2 DEF Inductive, SyncLeavesNoGap
    <2>3. ASSUME ~ ragged, NEW n \in listed
          PROVE  \/ n \in stored' \/ n + Overlap >= sync.newest
                 \/ Rank(listed, n) > read /\ ~ Short(sync.page) /\ \A p \in sync.page : n < p
      BY <1>1, <2>3 DEF Inductive, SyncLeavesNoGap, read
    <2>4. ASSUME ~ ragged, complete, NEW n \in listed, n + Overlap < highest'
          PROVE  n \in stored'
      <3>1. CASE \/ n \in stored'
                 \/ n + Overlap >= sync.newest
        BY <3>1, <2>4, <1>3, Numbers
      <3>2. CASE ~ Short(sync.page) /\ \A p \in sync.page : n < p
        <4>1. PICK p \in sync.page : n < p /\ p < sync.cutoff
          BY <2>4, <3>2 DEF ReachedCutoff
        <4>2. n < sync.cutoff
          BY <4>1, Numbers DEF Inductive, Typed
        <4> QED
          BY <1>1, <2>2, <2>4, <4>2
      <3> QED
        BY <2>3, <2>4, <3>1, <3>2
    <2>5. CASE complete \/ capped
      <3>1. sync' = IdleSync
        BY <1>1, <2>5
      <3>2. ~ ragged' => ~ ragged /\ complete
        BY <1>1, <2>5
      <3>3. ~ ragged' => Seamless'
        BY <1>1, <2>4, <3>2 DEF Seamless
      <3>4. \A n \in listed : ~ (n < sync'.cutoff)
        BY <1>4, <3>1, Numbers
      <3> QED
        BY <1>1, <1>4, <2>1, <3>1, <3>3, <3>4 DEF SyncLeavesNoGap
    <2>6. CASE ~ (complete \/ capped)
      <3>1. sync' = next /\ sync'.pages * PageLimit = read /\ sync'.pages > 0
        BY <1>1, <1>5, <1>6, <2>6, Numbers
      <3>2. ~ ragged' => \A n \in listed : n < sync'.cutoff => n \in stored'
        BY <1>1, <1>5, <2>2, <3>1
      <3>3. ~ ragged' => \A n \in listed :
              \/ n \in stored' \/ n + Overlap >= sync'.newest
              \/ Rank(listed, n) > sync'.pages * PageLimit
        BY <1>1, <1>5, <2>3, <3>1
      <3> HIDE DEF Rank
      <3>4. sync'.phase = "fetch"
        BY <1>5, <3>1
      <3> QED
        BY <1>1, <2>1, <3>1, <3>2, <3>3, <3>4 DEF SyncLeavesNoGap
    <2> QED
      BY <2>5, <2>6
  <1>10. BackfillLeavesNoGap'
    BY <1>1, BackfillFrame
  <1> QED
    BY <1>7, <1>8, <1>9, <1>10 DEF Inductive

\* A sync that fails before its first commit leaves no gap.
LEMMA FailSyncPreserves == Inductive /\ FailSync => Inductive'
  <1> SUFFICES ASSUME Inductive, FailSync PROVE Inductive'
    OBVIOUS
  <1>1. /\ sync' = IdleSync /\ ragged' = (ragged \/ sync.pages > 0)
        /\ UNCHANGED <<listed, stored, cursor, backfill, clobbered, highest, sweep>>
    BY DEF FailSync
  <1>2. /\ IdleSync.phase = "idle" /\ IdleSync.pages = 0 /\ IdleSync.cutoff = 0
        /\ IdleSync \in [phase : {"idle", "fetch", "fetched", "staged"}, pages : Nat, cutoff : Nat,
                         newest : listed \cup {None}, page : SUBSET listed, offset : Nat]
    BY DEF IdleSync, None
  <1>3. Typed'
    BY <1>1, <1>2 DEF Inductive, Typed
  <1>4. WatermarksRise'
    BY <1>1, <1>2 DEF Inductive, WatermarksRise
  <1>5. SyncLeavesNoGap'
    <2>1. ~ ragged' => ~ ragged /\ sync.pages = 0
      <3>1. (ragged \/ sync.pages > 0) => ragged'
        BY <1>1
      <3>2. sync.pages = 0 \/ sync.pages > 0
        BY Numbers
      <3> QED
        BY <3>1, <3>2
    <2>2. ~ ragged' => Seamless
      BY <2>1 DEF Inductive, SyncLeavesNoGap
    <2>3. ~ ragged' => Seamless'
      BY <1>1, <2>2 DEF Seamless
    <2>4. /\ sync'.phase = "idle" /\ sync'.pages = 0 /\ sync'.cutoff = 0
          /\ \A n \in listed' : ~ (n < sync'.cutoff)
      BY <1>1, <1>2, Numbers
    <2> HIDE DEF Rank
    <2> QED
      BY <2>3, <2>4 DEF SyncLeavesNoGap
  <1>6. BackfillLeavesNoGap'
    BY <1>1, BackfillFrame
  <1> QED
    BY <1>3, <1>4, <1>5, <1>6 DEF Inductive

\* A backfill from the top owes all that is listed.
LEMMA StartBackfillPreserves == Inductive /\ StartBackfill => Inductive'
  <1> SUFFICES ASSUME Inductive, StartBackfill PROVE Inductive'
    OBVIOUS
  <1>1. /\ backfill' = [phase |-> "fetch", pages |-> 0, from |-> cursor.offset, page |-> {}]
        /\ sweep' = IF cursor.offset = 0 THEN listed ELSE sweep
        /\ UNCHANGED <<listed, stored, cursor, sync, ragged, clobbered, highest>>
    BY DEF StartBackfill, IdleBackfill
  <1>2. Typed'
    <2>1. backfill' \in [phase : {"idle", "fetch", "fetched", "ending"}, pages : Nat, from : Nat,
                         page : SUBSET listed]
      BY <1>1, Numbers
    <2> QED
      BY <1>1, <2>1 DEF Inductive, Typed
  <1>3. WatermarksRise' /\ SyncLeavesNoGap'
    BY <1>1, SyncFrame
  <1>4. BackfillLeavesNoGap'
    <2>1. ~ clobbered => \A n \in sweep' : n \in stored \/ Rank(listed, n) > cursor.offset
      BY <1>1, Numbers DEF Inductive, BackfillLeavesNoGap
    <2> HIDE DEF Rank
    <2> QED
      BY <1>1, <2>1 DEF BackfillLeavesNoGap
  <1> QED
    BY <1>2, <1>3, <1>4 DEF Inductive

\* The page at the offset holds what is owed of it.
LEMMA FetchForBackfillPreserves == Inductive /\ FetchForBackfill => Inductive'
  <1> SUFFICES ASSUME Inductive, FetchForBackfill PROVE Inductive'
    OBVIOUS
  <1> DEFINE P == PageOf(listed, backfill.from)
  <1>1. /\ backfill.phase = "fetch" /\ UNCHANGED <<listed, stored, cursor, sync, historyVars>>
        /\ backfill' = [backfill EXCEPT !.phase = "fetched", !.page = P]
    BY DEF FetchForBackfill, PageAt, PageOf, Rank, Above
  <1>2. P \subseteq listed
    BY DEF PageOf
  <1>3. \A n \in listed : \/ n \in P
                          \/ Rank(listed, n) <= backfill.from
                          \/ Rank(listed, n) > backfill.from + PageLimit /\ ~ Short(P)
    <2>1. \A n \in listed : Rank(listed, n) > backfill.from + PageLimit => ~ Short(P)
      BY Numbers, ShortPageIsLast
    <2>2. /\ \A n \in listed : Rank(listed, n) \in Nat
          /\ PageLimit \in Nat /\ backfill.from \in Nat
      BY Numbers, WalletSyncAssumption
    <2>3. \A n \in listed : n \in P <=> Rank(listed, n) \in (backfill.from + 1)..(backfill.from + PageLimit)
      BY DEF PageOf
    <2> HIDE DEF P, Rank
    <2> QED
      BY <2>1, <2>2, <2>3
  <1> HIDE DEF P
  <1>4. /\ backfill'.phase = "fetched" /\ backfill'.page = P /\ backfill'.from = backfill.from
    BY <1>1 DEF Inductive, Typed
  <1>5. Typed'
    BY <1>1, <1>2 DEF Inductive, Typed, historyVars
  <1>6. WatermarksRise' /\ SyncLeavesNoGap'
    BY <1>1, SyncFrame DEF historyVars
  <1>7. BackfillLeavesNoGap'
    <2>1. ASSUME ~ clobbered, NEW n \in sweep
          PROVE  \/ n \in stored \cup P
                 \/ Rank(listed, n) > backfill.from + PageLimit /\ ~ Short(P)
      <3>1. n \in listed /\ Rank(listed, n) \in Nat
        BY Numbers DEF Inductive, Typed
      <3>2. n \in stored \/ Rank(listed, n) > backfill.from
        BY <1>1, <2>1 DEF Inductive, BackfillLeavesNoGap
      <3> QED
        BY <1>3, <3>1, <3>2, Numbers
    <2> QED
      BY <1>1, <1>4, <2>1 DEF Inductive, BackfillLeavesNoGap, historyVars, Short
  <1> QED
    BY <1>5, <1>6, <1>7 DEF Inductive

\* The committed page was owed, and what follows it is deeper.
LEMMA CommitBackfillPreserves == Inductive /\ CommitBackfill => Inductive'
  <1> SUFFICES ASSUME Inductive, CommitBackfill PROVE Inductive'
    OBVIOUS
  <1> DEFINE after == PageAfter(backfill.from)
             ended == [phase |-> "ending", pages |-> 0, from |-> 0, page |-> {}]
             more == [phase |-> "fetch", pages |-> backfill.pages + 1, from |-> after, page |-> {}]
  <1>1. /\ backfill.phase = "fetched" /\ stored' = stored \cup backfill.page
        /\ cursor' = [offset |-> after, watermark |-> None]
        /\ UNCHANGED <<listed, sync, completed, ragged, clobbered, highest, sweep>>
    BY DEF CommitBackfill, OffsetCursor, historyVars
  <1>2. \/ backfill' = ended /\ Short(backfill.page)
        \/ backfill' = IdleBackfill
        \/ backfill' = more
    BY DEF CommitBackfill, IdleBackfill
  <1>3. after \in Nat /\ after <= backfill.from + PageLimit /\ backfill.from + PageLimit \in Nat
    <2>1. backfill.from + PageLimit \in Nat /\ MaxTrades \in Nat
      BY Numbers, WalletSyncAssumption
    <2> QED
      BY <2>1, MinOfTwo DEF PageAfter
  <1> HIDE DEF after
  <1>4. Typed'
    <2>1. stored' \subseteq Trades
      BY <1>1 DEF Inductive, Typed
    <2>2. cursor' \in [offset : Nat, watermark : listed \cup {None}]
      BY <1>1, <1>3
    <2>3. backfill.pages + 1 \in Nat
      BY DEF Inductive, Typed
    <2>4. backfill' \in [phase : {"idle", "fetch", "fetched", "ending"}, pages : Nat, from : Nat,
                         page : SUBSET listed]
      BY <1>2, <1>3, <2>3 DEF IdleBackfill
    <2> QED
      BY <1>1, <2>1, <2>2, <2>4 DEF Inductive, Typed
  <1>5. WatermarksRise' /\ SyncLeavesNoGap'
    BY <1>1, SyncFrame
  <1>6. BackfillLeavesNoGap'
    <2>1. ASSUME ~ clobbered, NEW n \in sweep
          PROVE  \/ n \in stored'
                 \/ Rank(listed, n) > after /\ ~ Short(backfill.page)
      <3>1. Rank(listed, n) \in Nat
        BY Numbers DEF Inductive, Typed
      <3>2. \/ n \in stored'
            \/ Rank(listed, n) > backfill.from + PageLimit /\ ~ Short(backfill.page)
        BY <1>1, <2>1 DEF Inductive, BackfillLeavesNoGap
      <3> HIDE DEF Rank
      <3> QED
        BY <1>3, <3>1, <3>2
    <2>2. cursor'.offset = after
      BY <1>1
    <2>3. backfill'.phase \in {"fetch", "fetched"} => backfill'.phase = "fetch" /\ backfill'.from = after
      BY <1>2 DEF IdleBackfill
    <2>4. backfill'.phase = "ending" => Short(backfill.page)
      BY <1>2 DEF IdleBackfill
    <2> HIDE DEF Rank
    <2> QED
      BY <1>1, <2>1, <2>2, <2>3, <2>4 DEF BackfillLeavesNoGap
  <1> QED
    BY <1>4, <1>5, <1>6 DEF Inductive

\* Nothing is owed any more when the offset returns to the top.
LEMMA EndBackfillPreserves == Inductive /\ EndBackfill => Inductive'
  <1> SUFFICES ASSUME Inductive, EndBackfill PROVE Inductive'
    OBVIOUS
  <1>1. /\ backfill.phase = "ending" /\ cursor' = [offset |-> 0, watermark |-> None]
        /\ backfill' = [phase |-> "idle", pages |-> 0, from |-> 0, page |-> {}]
        /\ UNCHANGED <<listed, stored, sync, historyVars>>
    BY DEF EndBackfill, OffsetCursor, IdleBackfill
  <1>2. Typed'
    <2>1. backfill' \in [phase : {"idle", "fetch", "fetched", "ending"}, pages : Nat, from : Nat,
                         page : SUBSET listed]
      BY <1>1
    <2> QED
      BY <1>1, <2>1 DEF Inductive, Typed, historyVars
  <1>3. WatermarksRise' /\ SyncLeavesNoGap'
    BY <1>1, SyncFrame DEF historyVars
  <1>4. BackfillLeavesNoGap'
    BY <1>1 DEF Inductive, BackfillLeavesNoGap, historyVars
  <1> QED
    BY <1>2, <1>3, <1>4 DEF Inductive

\* A failure leaves the offset where it was.
LEMMA FailBackfillPreserves == Inductive /\ FailBackfill => Inductive'
  <1> SUFFICES ASSUME Inductive, FailBackfill PROVE Inductive'
    OBVIOUS
  <1>1. /\ backfill' = [phase |-> "idle", pages |-> 0, from |-> 0, page |-> {}]
        /\ UNCHANGED <<listed, stored, sync, historyVars>>
    BY DEF FailBackfill, IdleBackfill
  <1>2. cursor' = cursor
    BY DEF FailBackfill, OffsetOnFailure, Inductive, Typed
  <1>3. Typed'
    <2>1. backfill' \in [phase : {"idle", "fetch", "fetched", "ending"}, pages : Nat, from : Nat,
                         page : SUBSET listed]
      BY <1>1
    <2> QED
      BY <1>1, <1>2, <2>1 DEF Inductive, Typed, historyVars
  <1>4. WatermarksRise' /\ SyncLeavesNoGap'
    BY <1>1, <1>2, SyncFrame DEF historyVars
  <1>5. BackfillLeavesNoGap'
    BY <1>1, <1>2 DEF Inductive, BackfillLeavesNoGap, historyVars
  <1> QED
    BY <1>3, <1>4, <1>5 DEF Inductive

\* A step that changes nothing preserves the invariant.
LEMMA StutterPreserves == Inductive /\ UNCHANGED vars => Inductive'
  BY DEF Inductive, Typed, WatermarksRise, SyncLeavesNoGap, BackfillLeavesNoGap, Seamless, Short,
         vars, historyVars

\* Every step preserves the invariant.
LEMMA NextPreserves == Inductive /\ [Next]_vars => Inductive'
  BY ListPreserves, StartSyncPreserves, FetchForSyncPreserves, StageSyncPreserves,
     CommitSyncPreserves, FailSyncPreserves, StartBackfillPreserves, FetchForBackfillPreserves,
     CommitBackfillPreserves, EndBackfillPreserves, FailBackfillPreserves, StutterPreserves
     DEF Next, MonitorNext

\* So it holds in every state.
LEMMA AlwaysInductive == Spec => []Inductive
  BY InitInductive, NextPreserves, PTL DEF Spec

-----------------------------------------------------------------------------
(* The theorems.                                                           *)

\* As long as no run has kept a page and then failed or hit its page limit,
\* nothing is missing below the watermark: WalletSync.run and merge_watermark
\* for any number of trades, page size, overlap and page limits, with a
\* backfill of the same wallet at any moment.
THEOREM NoGapBelowWatermark == Spec => []NoGapUnlessRagged
  <1>1. Inductive => NoGapUnlessRagged
    BY DEF Inductive, SyncLeavesNoGap, NoGapUnlessRagged
  <1> QED
    BY <1>1, AlwaysInductive, PTL

\* A backfill that has read to the end has stored all that was listed when it
\* started, unless a sync has written back a stale offset: backfill_wallet.
THEOREM SweepsCover == Spec => []SweepCovers
  <1>1. Inductive => SweepCovers
    BY DEF Inductive, BackfillLeavesNoGap, SweepCovers
  <1> QED
    BY <1>1, AlwaysInductive, PTL

\* The watermark only ever rises, or is wiped by the backfill: WalletSync.run.
THEOREM WatermarksAdvance == Spec => WatermarkAdvances
  <1> DEFINE Advance == cursor'.watermark \in {None, cursor.watermark} \cup highest..MaxTrades
  <1>1. Inductive /\ [Next]_vars => [Advance]_vars
    <2> SUFFICES ASSUME Inductive, Next PROVE Advance
      BY DEF vars
    <2>1. CASE CommitSync
      <3>1. cursor' = MergedCursor /\ sync.newest >= highest
        BY <2>1 DEF CommitSync, Inductive, WatermarksRise
      <3>2. sync.newest \in 0..MaxTrades
        <4>1. sync.newest = 0 \/ sync.newest \in 1..MaxTrades
          BY DEF Inductive, Typed, Trades, None
        <4>2. 0 \in 0..MaxTrades /\ \A k \in 1..MaxTrades : k \in 0..MaxTrades
          BY WalletSyncAssumption
        <4> QED
          BY <4>1, <4>2
      <3>3. cursor'.watermark \in {cursor.watermark, sync.newest}
        BY <3>1 DEF MergedCursor
      <3> QED
        BY <3>1, <3>2, <3>3, Numbers, WalletSyncAssumption
    <2>2. CASE CommitBackfill \/ EndBackfill
      BY <2>2 DEF CommitBackfill, EndBackfill, OffsetCursor
    <2>3. CASE FailBackfill
      BY <2>3 DEF FailBackfill, Inductive, Typed
    <2>4. CASE UNCHANGED cursor
      BY <2>4
    <2> QED
      BY <2>1, <2>2, <2>3, <2>4 DEF Next, MonitorNext, List, StartSync, FetchForSync, StageSync,
         FailSync, StartBackfill, FetchForBackfill
  <1> QED
    BY <1>1, AlwaysInductive, PTL DEF Spec, WatermarkAdvances
=============================================================================
