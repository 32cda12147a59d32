---------------------- MODULE MarketDataCollectorProofs ----------------------
(***************************************************************************)
(* Proofs about MarketDataCollector, for any tokens, ticks, defects and    *)
(* bounds.                                                                 *)
(***************************************************************************)
EXTENDS MarketDataCollector, TLAPS

BookStates == [levels : Levels, synced : BOOLEAN]

Messages ==
    [token : Tokens, kind : {"book"}, levels : Levels]
    \cup [token : Tokens, kind : {"price_change"}, side : Sides, price : Prices, gone : BOOLEAN]
    \cup [token : Tokens, kind : {"malformed_change", "last_trade_price"}]
    \cup {Unaddressed}

\* What a message makes of the book of t.
Effect(b, msg, t) == IF About(msg, t) THEN AfterQuote(ApplyMessage(b, msg)) ELSE b

Typed ==
    /\ venue \in [Tokens -> Levels]
    /\ book \in [Tokens -> BookStates]
    /\ channel \in Seq(Messages)
    /\ anchored \subseteq subscribed /\ subscribed \subseteq Tokens
    /\ \A t \in Tokens : ~ Crossed(venue[t])

\* What is anchored, and what is sent, is on the subscription of this cycle.
OnlyHeardIsSent == phase # "consuming" => anchored = {} /\ channel = <<>>

\* A book b as it will be, message by message, on the way of the messages in
\* ch: s[n] is after n of them.
Foresees(s, b, ch, t) ==
    /\ s \in [0..Len(ch) -> BookStates]
    /\ s[0] = b
    /\ \A n \in 1..Len(ch) : s[n] = Effect(s[n - 1], ch[n], t)

Exact(b, levels) == b.synced => b.levels = levels

\* From the last message about t on, the book will have these levels.
ExactAtLast(s, levels, ch, t) ==
    \A n \in 0..Len(ch) :
        (\A k \in (n + 1)..Len(ch) : ~ About(ch[k], t)) => Exact(s[n], levels)

BooksConverge ==
    \A t \in Tokens : \E s : /\ Foresees(s, book[t], channel, t)
                             /\ t \in anchored => ExactAtLast(s, venue[t], channel, t)

\* Since the gap, only what was asked for again is synced.
RepairedIsRequoted ==
    /\ repaired => phase = "idle"
    /\ phase = "repair" \/ repaired => \A t \in Tokens : book[t].synced => t \in requoted

Inductive == Typed /\ OnlyHeardIsSent /\ BooksConverge /\ RepairedIsRequoted

-----------------------------------------------------------------------------
\* A message makes a book of a book.
LEMMA EffectIsBook ==
  ASSUME NEW b \in BookStates, NEW msg \in Messages, NEW t
  PROVE  Effect(b, msg, t) \in BookStates
  <1>1. Unsynced \in BookStates
    BY DEF Unsynced, EmptyLevels, BookStates, Levels
  <1>2. ASSUME About(msg, t), msg.kind = "price_change", b.synced
        PROVE  ApplyChange(b, msg) \in BookStates
    <2>1. msg.side \in Sides /\ msg.price \in Prices
      BY <1>2 DEF Messages, Unaddressed, About
    <2> QED
      BY <2>1, <1>2 DEF ApplyChange, BookStates, Levels
  <1>3. msg.kind = "book" => Snapshot(msg.levels) \in BookStates
    BY DEF Messages, Unaddressed, Snapshot, BookStates
  <1>4. About(msg, t) => ApplyMessage(b, msg) \in BookStates
    BY <1>1, <1>2, <1>3 DEF ApplyMessage, Desync, ApplyChange
  <1> QED
    BY <1>1, <1>4 DEF Effect, AfterQuote

\* With nothing on the channel a book is what it will be.
LEMMA EmptyChannelConverges ==
  ASSUME channel' = <<>>, anchored' = {}, book' \in [Tokens -> BookStates]
  PROVE  BooksConverge'
  <1> SUFFICES ASSUME NEW t \in Tokens
               PROVE  \E s : Foresees(s, book'[t], channel', t)
    BY DEF BooksConverge
  <1> DEFINE s == [n \in 0..0 |-> book'[t]]
  <1>1. Len(channel') = 0
    OBVIOUS
  <1>2. s \in [0..0 -> BookStates] /\ s[0] = book'[t]
    OBVIOUS
  <1> HIDE DEF s
  <1>3. Foresees(s, book'[t], channel', t)
    BY <1>1, <1>2 DEF Foresees
  <1> QED
    BY <1>3

\* A message is appended: each book will be what the message makes of it.
LEMMA AppendConverges ==
  ASSUME Inductive, NEW msg \in Messages, channel' = Append(channel, msg), book' = book,
         \A t \in anchored' : ~ About(msg, t) => t \in anchored /\ venue'[t] = venue[t],
         \A t \in anchored', b \in BookStates :
             About(msg, t) /\ (t \in anchored => Exact(b, venue[t]))
                 => Exact(Effect(b, msg, t), venue'[t])
  PROVE  BooksConverge'
  <1> SUFFICES ASSUME NEW t \in Tokens
               PROVE  \E s : /\ Foresees(s, book'[t], channel', t)
                             /\ t \in anchored' => ExactAtLast(s, venue'[t], channel', t)
    BY DEF BooksConverge
  <1>1. PICK s : /\ Foresees(s, book[t], channel, t)
                 /\ t \in anchored => ExactAtLast(s, venue[t], channel, t)
    BY DEF Inductive, BooksConverge
  <1> DEFINE L == Len(channel)
             after == [n \in 0..(L + 1) |-> IF n = L + 1 THEN Effect(s[L], msg, t) ELSE s[n]]
  <1>2. /\ L \in Nat /\ Len(channel') = L + 1
        /\ \A n \in 1..L : channel'[n] = channel[n]
        /\ channel'[L + 1] = msg
    BY DEF Inductive, Typed
  <1> HIDE DEF L
  <1>3. Effect(s[L], msg, t) \in BookStates /\ s[L] \in BookStates
    BY <1>1, <1>2, EffectIsBook DEF Foresees, L
  <1>4. after[L + 1] = Effect(s[L], msg, t) /\ \A n \in 0..L : after[n] = s[n]
    BY <1>2
  <1>5. after \in [0..(L + 1) -> BookStates]
    BY <1>1, <1>2, <1>3 DEF Foresees, L
  <1> HIDE DEF after
  <1>6. Foresees(after, book'[t], channel', t)
    <2>1. after[0] = book'[t]
      BY <1>1, <1>2, <1>4 DEF Foresees
    <2>2. \A n \in 1..L : after[n] = Effect(after[n - 1], channel'[n], t)
      BY <1>1, <1>2, <1>4 DEF Foresees, L
    <2>3. after[L + 1] = Effect(after[(L + 1) - 1], channel'[L + 1], t)
      BY <1>2, <1>4
    <2> QED
      BY <1>2, <1>5, <2>1, <2>2, <2>3 DEF Foresees
  <1>7. ASSUME t \in anchored' PROVE ExactAtLast(after, venue'[t], channel', t)
    <2> SUFFICES ASSUME NEW n \in 0..(L + 1),
                        \A k \in (n + 1)..(L + 1) : ~ About(channel'[k], t)
                 PROVE  Exact(after[n], venue'[t])
      BY <1>2 DEF ExactAtLast
    <2>1. CASE About(msg, t)
      <3>1. n = L + 1
        BY <1>2, <2>1
      <3>2. t \in anchored => Exact(s[L], venue[t])
        BY <1>1, <1>2 DEF ExactAtLast, L
      <3>3. Exact(Effect(s[L], msg, t), venue'[t])
        BY <1>3, <1>7, <2>1, <3>2
      <3> QED
        BY <1>4, <3>1, <3>3
    <2>2. CASE ~ About(msg, t)
      <3>1. ExactAtLast(s, venue[t], channel, t) /\ venue'[t] = venue[t]
        BY <1>1, <1>7, <2>2
      <3>2. CASE n = L + 1
        <4>1. Exact(s[L], venue[t])
          BY <1>2, <3>1 DEF ExactAtLast, L
        <4> QED
          BY <4>1, <1>4, <2>2, <3>1, <3>2 DEF Effect
      <3>3. CASE n \in 0..L
        <4>1. \A k \in (n + 1)..L : ~ About(channel[k], t)
          BY <1>2, <3>3
        <4>2. Exact(s[n], venue[t])
          BY <4>1, <3>1, <3>3 DEF ExactAtLast, L
        <4> QED
          BY <4>2, <1>4, <3>1, <3>3
      <3> QED
        BY <3>2, <3>3, <1>2
    <2> QED
      BY <2>1, <2>2
  <1> QED
    BY <1>6, <1>7

\* Nothing is sent, and only what is no longer anchored changes.
LEMMA QuietConverges ==
  ASSUME Inductive, channel' = channel, book' = book,
         \A t \in anchored' : t \in anchored /\ venue'[t] = venue[t]
  PROVE  BooksConverge'
  BY DEF Inductive, BooksConverge

\* The oldest message is handled: each book is one step further.
LEMMA TailConverges ==
  ASSUME Inductive, channel # <<>>, channel' = Tail(channel), anchored' = anchored, venue' = venue,
         \A t \in Tokens : book'[t] = Effect(book[t], Head(channel), t)
  PROVE  BooksConverge'
  <1> SUFFICES ASSUME NEW t \in Tokens
               PROVE  \E s : /\ Foresees(s, book'[t], channel', t)
                             /\ t \in anchored => ExactAtLast(s, venue[t], channel', t)
    BY DEF BooksConverge
  <1>1. PICK s : /\ Foresees(s, book[t], channel, t)
                 /\ t \in anchored => ExactAtLast(s, venue[t], channel, t)
    BY DEF Inductive, BooksConverge
  <1> DEFINE L == Len(channel')
             after == [n \in 0..L |-> s[n + 1]]
  <1>2. /\ L \in Nat /\ Len(channel) = L + 1
        /\ \A n \in 1..L : channel'[n] = channel[n + 1]
        /\ Head(channel) = channel[1]
    BY DEF Inductive, Typed
  <1> HIDE DEF L
  <1>3. after \in [0..L -> BookStates] /\ \A n \in 0..L : after[n] = s[n + 1]
    BY <1>1, <1>2 DEF Foresees
  <1> HIDE DEF after
  <1>4. Foresees(after, book'[t], channel', t)
    <2>1. after[0] = book'[t]
      BY <1>1, <1>2, <1>3 DEF Foresees
    <2>2. ASSUME NEW n \in 1..L PROVE after[n] = Effect(after[n - 1], channel'[n], t)
      <3>1. s[n + 1] = Effect(s[(n + 1) - 1], channel[n + 1], t)
        BY <1>1, <1>2 DEF Foresees
      <3>2. after[n] = s[n + 1] /\ after[n - 1] = s[n] /\ (n + 1) - 1 = n
        BY <1>2, <1>3
      <3> QED
        BY <1>2, <3>1, <3>2
    <2> QED
      BY <1>3, <2>1, <2>2 DEF Foresees, L
  <1>5. ASSUME t \in anchored PROVE ExactAtLast(after, venue[t], channel', t)
    <2> SUFFICES ASSUME NEW n \in 0..L, \A k \in (n + 1)..L : ~ About(channel'[k], t)
                 PROVE  Exact(after[n], venue[t])
      BY DEF ExactAtLast, L
    <2>1. ASSUME NEW k \in (n + 2)..(L + 1) PROVE ~ About(channel[k], t)
      <3>1. k - 1 \in (n + 1)..L /\ k - 1 \in 1..L /\ (k - 1) + 1 = k
        BY <1>2
      <3> QED
        BY <1>2, <3>1
    <2>2. n + 1 \in 0..(L + 1) /\ (n + 1) + 1 = n + 2
      BY <1>2
    <2> QED
      BY <1>1, <1>2, <1>3, <1>5, <2>1, <2>2 DEF ExactAtLast
  <1> QED
    BY <1>4, <1>5

-----------------------------------------------------------------------------
\* Nothing is known of any book.
LEMMA InitInductive == Init => Inductive
  <1> SUFFICES ASSUME Init PROVE Inductive
    OBVIOUS
  <1>1. Unsynced \in BookStates /\ EmptyLevels \in Levels /\ ~ Crossed(EmptyLevels)
    BY DEF Unsynced, EmptyLevels, BookStates, Levels, Crossed, Sides
  <1>2. Typed
    BY <1>1 DEF Init, Typed
  <1>3. OnlyHeardIsSent /\ RepairedIsRequoted
    BY DEF Init, OnlyHeardIsSent, RepairedIsRequoted
  <1>4. BooksConverge
    <2> SUFFICES ASSUME NEW t \in Tokens
                 PROVE  \E s : Foresees(s, book[t], channel, t)
      BY DEF Init, BooksConverge
    <2> DEFINE s == [n \in 0..0 |-> book[t]]
    <2>1. s \in [0..0 -> BookStates] /\ s[0] = book[t] /\ Len(channel) = 0
      BY <1>1 DEF Init
    <2> HIDE DEF s
    <2> QED
      BY <2>1 DEF Foresees
  <1> QED
    BY <1>2, <1>3, <1>4 DEF Inductive

\* A change of the venue's book and the delta about it agree; whatever else
\* is sent of it, the book is out of sync or no longer anchored.
LEMMA ChangePreserves ==
  ASSUME Inductive, NEW t \in Tokens, NEW side \in Sides, NEW price \in PricesOf[t],
         Change(t, side, price)
  PROVE  Inductive'
  <1> DEFINE gone == price \in venue[t][side]
             levels == [venue[t] EXCEPT ![side] = IF gone THEN @ \ {price} ELSE @ \cup {price}]
             delta == [token |-> t, kind |-> "price_change", side |-> side,
                       price |-> price, gone |-> gone]
             garble == [token |-> t, kind |-> "malformed_change"]
  <1>1. /\ ~ Crossed(levels) /\ venue' = [venue EXCEPT ![t] = levels]
        /\ UNCHANGED <<book, cycleVars>>
        /\ \/ Heard(t) /\ channel' = Append(channel, delta) /\ anchored' = anchored
           \/ Heard(t) /\ channel' = Append(channel, garble) /\ anchored' = anchored
           \/ /\ Heard(t) /\ channel' = Append(channel, Unaddressed)
              /\ anchored' = anchored \ {t}
           \/ ~ Heard(t) /\ channel' = channel /\ anchored' = anchored
    BY DEF Change, Send
  <1>2. price \in Prices /\ venue[t] \in Levels /\ levels \in Levels
    BY DEF Inductive, Typed, Prices, Levels
  <1>3. delta \in Messages /\ garble \in Messages /\ Unaddressed \in Messages
    BY <1>2 DEF Messages
  <1>4. venue'[t] = levels /\ \A u \in Tokens : u # t => venue'[u] = venue[u]
    BY <1>1 DEF Inductive, Typed
  <1>5. Typed'
    <2>1. venue' \in [Tokens -> Levels] /\ \A u \in Tokens : ~ Crossed(venue'[u])
      BY <1>1, <1>2, <1>4 DEF Inductive, Typed
    <2>2. channel' \in Seq(Messages)
      <3> HIDE DEF delta, garble
      <3>1. \A msg \in Messages : Append(channel, msg) \in Seq(Messages)
        BY DEF Inductive, Typed
      <3>2. channel \in Seq(Messages)
        BY DEF Inductive, Typed
      <3> QED
        BY <1>1, <1>3, <3>1, <3>2
    <2> QED
      BY <2>1, <2>2, <1>1 DEF Inductive, Typed, cycleVars, Crossed
  <1>6. OnlyHeardIsSent'
    BY <1>1 DEF Inductive, OnlyHeardIsSent, Heard, cycleVars
  <1>7. RepairedIsRequoted'
    BY <1>1 DEF Inductive, RepairedIsRequoted, cycleVars
  <1>8. BooksConverge'
    <2>1. CASE Heard(t) /\ channel' = Append(channel, delta) /\ anchored' = anchored
      <3>1. ASSUME NEW b \in BookStates, Exact(b, venue[t])
            PROVE  Exact(Effect(b, delta, t), levels)
        <4>1. CASE ~ b.synced
          BY <4>1 DEF About, Exact, Effect, AfterQuote, ApplyMessage, ApplyChange
        <4>2. CASE b.synced
          <5>1. b.levels = venue[t]
            BY <3>1, <4>2 DEF Exact
          <5>2. ApplyChange(b, delta).levels = levels
            <6>1. CASE gone
              BY <4>2, <5>1, <6>1 DEF ApplyChange, BookStates
            <6>2. CASE ~ gone
              BY <4>2, <5>1, <6>2 DEF ApplyChange, BookStates
            <6> QED
              BY <6>1, <6>2
          <5>3. ApplyMessage(b, delta) = ApplyChange(b, delta)
            BY DEF ApplyMessage
          <5> HIDE DEF levels, delta
          <5>4. About(delta, t)
            BY DEF delta, About, Unaddressed
          <5> QED
            BY <5>2, <5>3, <5>4, <1>1 DEF Exact, Effect, AfterQuote
        <4> QED
          BY <4>1, <4>2
      <3>2. About(delta, t) /\ \A u : u # t => ~ About(delta, u)
        BY DEF About, Unaddressed
      <3>3. anchored \subseteq Tokens
        BY DEF Inductive, Typed
      <3> HIDE DEF levels, delta
      <3> QED
        BY <2>1, <3>1, <3>2, <3>3, <1>1, <1>3, <1>4, AppendConverges
    <2>2. CASE Heard(t) /\ channel' = Append(channel, garble) /\ anchored' = anchored
      <3>1. About(garble, t) /\ \A u : u # t => ~ About(garble, u)
        BY DEF About, Unaddressed
      <3>2. \A b \in BookStates : Exact(Effect(b, garble, t), levels)
        BY <3>1 DEF Exact, Effect, AfterQuote, ApplyMessage, Desync, Unsynced
      <3>3. anchored \subseteq Tokens
        BY DEF Inductive, Typed
      <3> HIDE DEF levels, garble
      <3> QED
        BY <2>2, <3>1, <3>2, <3>3, <1>1, <1>3, <1>4, AppendConverges
    <2>3. CASE Heard(t) /\ channel' = Append(channel, Unaddressed) /\ anchored' = anchored \ {t}
      <3>1. \A u : ~ About(Unaddressed, u)
        BY DEF About
      <3>2. \A u \in anchored' : u \in anchored /\ venue'[u] = venue[u]
        BY <2>3, <1>4 DEF Inductive, Typed
      <3> QED
        BY <3>1, <3>2, <2>3, <1>1, <1>3, AppendConverges
    <2>4. CASE ~ Heard(t) /\ channel' = channel /\ anchored' = anchored
      <3>1. t \notin anchored
        BY <2>4 DEF Inductive, Typed, OnlyHeardIsSent, Heard
      <3> QED
        BY <2>4, <3>1, <1>1, <1>4, QuietConverges DEF Inductive, Typed
    <2> QED
      BY <1>1, <2>1, <2>2, <2>3, <2>4
  <1> QED
    BY <1>5, <1>6, <1>7, <1>8 DEF Inductive

\* A whole book anchors its token, whatever was thought of it before.
LEMMA SendBookPreserves ==
  ASSUME Inductive, NEW t \in Tokens, SendBook(t)
  PROVE  Inductive'
  <1> DEFINE whole == [token |-> t, kind |-> "book", levels |-> venue[t]]
  <1>1. Heard(t) /\ UNCHANGED <<venue, book, cycleVars>>
    BY DEF SendBook
  <1>2. PICK msg : /\ msg \in Messages /\ (\A u : About(msg, u) <=> u = t) /\ channel' = Append(channel, msg)
                   /\ \/ msg = whole /\ anchored' = anchored \cup {t}
                      \/ anchored' = anchored \ {t}
    <2>1. CASE channel' = Append(channel, whole) /\ anchored' = anchored \cup {t}
      <3>1. whole \in Messages /\ \A u : About(whole, u) <=> u = t
        BY DEF Messages, Inductive, Typed, About, Unaddressed
      <3> QED
        BY <2>1, <3>1
    <2>2. CASE /\ \E side \in Sides : \E price \in venue[t][side] :
                    Send([token |-> t, kind |-> "book",
                          levels |-> [venue[t] EXCEPT ![side] = @ \ {price}]])
               /\ anchored' = anchored \ {t}
      <3>0. PICK side \in Sides : \E price \in venue[t][side] :
               Send([token |-> t, kind |-> "book",
                     levels |-> [venue[t] EXCEPT ![side] = @ \ {price}]])
        BY <2>2
      <3>1. PICK price \in venue[t][side] :
               Send([token |-> t, kind |-> "book",
                     levels |-> [venue[t] EXCEPT ![side] = @ \ {price}]])
        BY <3>0
      <3> DEFINE part == [token |-> t, kind |-> "book",
                          levels |-> [venue[t] EXCEPT ![side] = @ \ {price}]]
      <3>2. part \in Messages /\ \A u : About(part, u) <=> u = t
        BY DEF Messages, Levels, Inductive, Typed, About, Unaddressed
      <3> QED
        BY <2>2, <3>1, <3>2 DEF Send
    <2> QED
      BY <2>1, <2>2 DEF SendBook, Send
  <1>3. Typed'
    BY <1>1, <1>2 DEF Inductive, Typed, cycleVars, Crossed, Heard
  <1>4. OnlyHeardIsSent'
    BY <1>1 DEF OnlyHeardIsSent, Heard, cycleVars
  <1>5. RepairedIsRequoted'
    BY <1>1 DEF Inductive, RepairedIsRequoted, cycleVars
  <1>6. BooksConverge'
    <2>1. \A b \in BookStates : t \in anchored' => Exact(Effect(b, msg, t), venue'[t])
      <3> SUFFICES ASSUME NEW b \in BookStates, t \in anchored'
                   PROVE  Exact(Effect(b, msg, t), venue[t])
        BY <1>1
      <3>1. msg = whole
        BY <1>2
      <3>2. Effect(b, msg, t) = AfterQuote(Snapshot(venue[t]))
        BY <1>2, <3>1 DEF Effect, ApplyMessage
      <3> QED
        BY <3>2 DEF AfterQuote, Snapshot, Exact, Inductive, Typed
    <2>2. \A u \in anchored' : u # t => u \in anchored
      BY <1>2
    <2> QED
      BY <1>1, <1>2, <2>1, <2>2, AppendConverges
  <1> QED
    BY <1>3, <1>4, <1>5, <1>6 DEF Inductive

\* A print says nothing of a book, and nor does a frame nobody can address.
LEMMA SendTradePreserves ==
  ASSUME Inductive, (\E t \in Tokens : SendTrade(t)) \/ SendNotice
  PROVE  Inductive'
  <1>1. phase = "consuming" /\ UNCHANGED <<venue, anchored, book, cycleVars>>
    BY DEF SendTrade, SendNotice, Heard
  <1>2. PICK msg \in Messages : /\ channel' = Append(channel, msg)
                                /\ msg.kind \in {"last_trade_price", "unaddressed"}
    <2>1. CASE \E t \in Tokens : SendTrade(t)
      BY <2>1 DEF SendTrade, Send, Messages
    <2>2. CASE SendNotice
      BY <2>2 DEF SendNotice, Send, Messages, Unaddressed
    <2> QED
      BY <2>1, <2>2
  <1>3. Typed'
    BY <1>1, <1>2 DEF Inductive, Typed, cycleVars, Crossed
  <1>4. OnlyHeardIsSent'
    BY <1>1 DEF OnlyHeardIsSent, cycleVars
  <1>5. RepairedIsRequoted'
    BY <1>1 DEF Inductive, RepairedIsRequoted, cycleVars
  <1>6. BooksConverge'
    <2>1. \A t \in anchored, b \in BookStates :
             Exact(b, venue[t]) => Exact(Effect(b, msg, t), venue'[t])
      BY <1>1, <1>2 DEF Exact, Effect, ApplyMessage, AfterQuote, Unsynced
    <2> QED
      BY <1>1, <1>2, <2>1, AppendConverges
  <1> QED
    BY <1>3, <1>4, <1>5, <1>6 DEF Inductive

\* A cycle is begun and subscribes.
LEMMA OpenPreserves ==
  ASSUME Inductive,
         (\E tokens \in SUBSET Tokens : StartCycle(tokens)) \/ Subscribe \/ EndRepair
  PROVE  Inductive'
  <1>1. /\ UNCHANGED <<venueVars, book>>
        /\ subscribed' = {} \/ subscribed' = subscribed \/ phase = "idle"
        /\ subscribed' \subseteq Tokens /\ phase # "consuming"
    BY DEF StartCycle, Subscribe, EndRepair, LeaveCycle, Inductive, Typed
  <1>2. Typed'
    BY <1>1 DEF Inductive, Typed, OnlyHeardIsSent, venueVars, Crossed
  <1>3. OnlyHeardIsSent'
    BY <1>1 DEF Inductive, OnlyHeardIsSent, venueVars
  <1>4. RepairedIsRequoted'
    BY DEF StartCycle, Subscribe, EndRepair, LeaveCycle, Inductive, RepairedIsRequoted
  <1>5. BooksConverge'
    BY <1>1, QuietConverges DEF venueVars
  <1> QED
    BY <1>2, <1>3, <1>4, <1>5 DEF Inductive

\* What is fetched anew is synced, and quoted with it.
LEMMA ResyncPreserves ==
  ASSUME Inductive, NEW t \in Tokens, Resync(t)
  PROVE  Inductive'
  <1>1. /\ phase # "consuming" /\ UNCHANGED <<venueVars, phase, subscribed, repaired>>
        /\ \/ book' = book /\ requoted' = requoted
           \/ book' = [book EXCEPT ![t] = Snapshot(venue[t])] /\ requoted' = requoted \cup {t}
    BY DEF Resync
  <1>2. Snapshot(venue[t]) \in BookStates
    BY DEF Snapshot, BookStates, Inductive, Typed
  <1>3. book' \in [Tokens -> BookStates]
    BY <1>1, <1>2 DEF Inductive, Typed
  <1>4. Typed'
    BY <1>1, <1>3 DEF Inductive, Typed, venueVars, Crossed
  <1>5. OnlyHeardIsSent'
    BY <1>1 DEF Inductive, OnlyHeardIsSent, venueVars
  <1>6. RepairedIsRequoted'
    BY <1>1 DEF Inductive, Typed, RepairedIsRequoted
  <1>7. BooksConverge'
    BY <1>1, <1>3, EmptyChannelConverges DEF Inductive, OnlyHeardIsSent, venueVars
  <1> QED
    BY <1>4, <1>5, <1>6, <1>7 DEF Inductive

\* A frame about no token is passed over.
LEMMA SkipPreserves == Inductive /\ Skip => Inductive'
  <1> SUFFICES ASSUME Inductive, Skip PROVE Inductive'
    OBVIOUS
  <1>1. /\ phase = "consuming" /\ channel # <<>> /\ Head(channel) = Unaddressed
        /\ channel' = Tail(channel) /\ UNCHANGED <<venue, anchored, book, cycleVars>>
    BY DEF Skip, Addressed
  <1>2. Typed'
    <2>1. Tail(channel) \in Seq(Messages)
      BY <1>1 DEF Inductive, Typed
    <2> QED
      BY <2>1, <1>1 DEF Inductive, Typed, cycleVars, Crossed
  <1>3. OnlyHeardIsSent' /\ RepairedIsRequoted'
    BY <1>1 DEF Inductive, OnlyHeardIsSent, RepairedIsRequoted, cycleVars
  <1>4. BooksConverge'
    <2>1. \A t \in Tokens : book'[t] = Effect(book[t], Head(channel), t)
      BY <1>1 DEF Effect, About
    <2> QED
      BY <2>1, <1>1, TailConverges
  <1> QED
    BY <1>2, <1>3, <1>4 DEF Inductive

\* A message is handled; the last one of a cycle ends the subscription.
LEMMA HandlePreserves == Inductive /\ Handle => Inductive'
  <1> SUFFICES ASSUME Inductive, Handle PROVE Inductive'
    OBVIOUS
  <1> DEFINE msg == Head(channel)
  <1>1. /\ phase = "consuming" /\ channel # <<>> /\ msg # Unaddressed
        /\ book' = [book EXCEPT ![msg.token] =
                       AfterQuote(ApplyMessage(book[msg.token], msg))]
        /\ venue' = venue /\ repaired' = repaired /\ requoted' = requoted
        /\ \/ channel' = <<>> /\ anchored' = {} /\ phase' = "idle" /\ subscribed' = {}
           \/ /\ channel' = Tail(channel)
              /\ UNCHANGED <<anchored, phase, subscribed>>
    BY DEF Handle, Addressed, Disconnect, LeaveCycle
  <1>2. msg \in Messages /\ msg.token \in Tokens
    BY <1>1 DEF Inductive, Typed, Messages
  <1> HIDE DEF msg
  <1>3. \A t \in Tokens : book'[t] = Effect(book[t], msg, t)
    BY <1>1, <1>2 DEF Effect, About, Inductive, Typed
  <1>4. book' \in [Tokens -> BookStates]
    <2>1. \A t \in Tokens : Effect(book[t], msg, t) \in BookStates
      BY <1>2, EffectIsBook DEF Inductive, Typed
    <2>2. book' = [t \in Tokens |-> Effect(book[t], msg, t)]
      BY <1>1, <1>3 DEF Inductive, Typed
    <2> QED
      BY <2>1, <2>2
  <1>5. Typed'
    <2>1. channel' \in Seq(Messages)
      <3>1. channel \in Seq(Messages)
        BY DEF Inductive, Typed
      <3>2. Tail(channel) \in Seq(Messages)
        BY <1>1, <3>1
      <3>3. <<>> \in Seq(Messages)
        OBVIOUS
      <3>4. channel' = <<>> \/ channel' = Tail(channel)
        BY <1>1
      <3> QED
        BY <3>2, <3>3, <3>4
    <2> QED
      BY <1>1, <1>4, <2>1 DEF Inductive, Typed, Crossed
  <1>6. OnlyHeardIsSent'
    BY <1>1 DEF OnlyHeardIsSent
  <1>7. BooksConverge'
    <2>1. CASE channel' = <<>> /\ anchored' = {}
      BY <2>1, <1>4, EmptyChannelConverges
    <2>2. CASE channel' = Tail(channel) /\ anchored' = anchored
      BY <2>2, <1>1, <1>3, TailConverges DEF msg
    <2> QED
      BY <1>1, <2>1, <2>2
  <1>8. RepairedIsRequoted'
    BY <1>1 DEF Inductive, RepairedIsRequoted
  <1> QED
    BY <1>5, <1>6, <1>7, <1>8 DEF Inductive

\* A stream that closes, or a process that dies, leaves no book in sync.
LEMMA TornPreserves ==
  ASSUME Inductive, (StreamClosed /\ phase # "idle") \/ Restart
  PROVE  Inductive'
  <1>1. Unsynced \in BookStates
    BY DEF Unsynced, EmptyLevels, BookStates, Levels
  <1>2. /\ book' = [t \in Tokens |-> Unsynced] /\ channel' = <<>> /\ anchored' = {}
        /\ venue' = venue /\ subscribed' \subseteq Tokens /\ phase' # "consuming"
    BY DEF StreamClosed, Restart, Torn, Disconnect, LeaveCycle, Inductive, Typed
  <1>3. Typed'
    BY <1>1, <1>2 DEF Inductive, Typed, Crossed
  <1>4. OnlyHeardIsSent'
    BY <1>2 DEF OnlyHeardIsSent
  <1>5. RepairedIsRequoted'
    <2>1. repaired' => phase' = "idle"
      BY DEF StreamClosed, Restart, Inductive, RepairedIsRequoted
    <2>2. \A t \in Tokens : ~ book'[t].synced
      BY <1>2 DEF Unsynced
    <2> QED
      BY <2>1, <2>2 DEF RepairedIsRequoted
  <1>6. BooksConverge'
    BY <1>1, <1>2, EmptyChannelConverges
  <1> QED
    BY <1>3, <1>4, <1>5, <1>6 DEF Inductive

\* Every step preserves the invariant.
LEMMA NextPreserves == Inductive /\ [Next]_vars => Inductive'
  <1> SUFFICES ASSUME Inductive, [Next]_vars PROVE Inductive'
    OBVIOUS
  <1>1. CASE \E t \in Tokens, side \in Sides : \E price \in PricesOf[t] : Change(t, side, price)
    BY <1>1, ChangePreserves
  <1>2. CASE (\E t \in Tokens : SendBook(t) \/ SendTrade(t)) \/ SendNotice
    BY <1>2, SendBookPreserves, SendTradePreserves
  <1>3. CASE \E tokens \in SUBSET Tokens : StartCycle(tokens)
    BY <1>3, OpenPreserves
  <1>4. CASE Collect
    BY <1>4, ResyncPreserves, OpenPreserves, SkipPreserves, HandlePreserves, TornPreserves
       DEF Collect, RecvTimeout, RecvTimesOut
  <1>5. CASE Drop \/ Restart
    BY <1>5, TornPreserves DEF Drop
  <1>6. CASE UNCHANGED vars
    BY <1>6 DEF vars, venueVars, cycleVars, Inductive, Typed, OnlyHeardIsSent, BooksConverge,
                RepairedIsRequoted, Crossed
  <1> QED
    BY <1>1, <1>2, <1>3, <1>4, <1>5, <1>6 DEF Next

\* The invariant holds throughout.
LEMMA CollectorInductive == Spec => []Inductive
  BY InitInductive, NextPreserves, PTL DEF Spec

\* A synced book that a whole `book` message anchored is the venue's, once
\* what was sent about it is handled: BookState under run_cycle.
THEOREM AnchoredBooksAreExact == Spec => []AnchoredBookIsExact
  <1>1. Inductive => AnchoredBookIsExact
    <2> SUFFICES ASSUME Inductive, NEW t \in anchored, Drained(t), book[t].synced
                 PROVE  book[t].levels = venue[t]
      BY DEF AnchoredBookIsExact
    <2>1. t \in Tokens
      BY DEF Inductive, Typed
    <2>2. PICK s : Foresees(s, book[t], channel, t) /\ ExactAtLast(s, venue[t], channel, t)
      BY <2>1 DEF Inductive, BooksConverge
    <2>3. DOMAIN channel = 1..Len(channel) /\ Len(channel) \in Nat
      BY DEF Inductive, Typed
    <2> QED
      BY <2>2, <2>3 DEF Foresees, ExactAtLast, Exact, Drained
  <1> QED
    BY <1>1, CollectorInductive, PTL

\* After the repair of a gap no token passes for live on what it was before:
\* the resync of run_cycle.
THEOREM GapsAreRepaired == Spec => []GapIsRepaired
  <1>1. Inductive => GapIsRepaired
    BY DEF Inductive, RepairedIsRequoted, GapIsRepaired
  <1> QED
    BY <1>1, CollectorInductive, PTL
=============================================================================
