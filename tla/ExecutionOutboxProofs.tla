------------------------ MODULE ExecutionOutboxProofs ------------------------
(***************************************************************************)
(* Proofs about ExecutionOutbox, for any rows, workers, lease, budget and  *)
(* batch size.  What rests on the lease has the hypothesis that it is      *)
(* longer than the budgets of a whole batch (BatchFitsLease).  From what   *)
(* the code asserts at startup that follows for a batch of one.            *)
(***************************************************************************)
EXTENDS ExecutionOutbox, FiniteSetTheorems, TLAPS

\* A worker's rows carry its own claim and lease, and were taken unexpired.
HeldRowsAreLeased ==
    \A w \in Workers :
        /\ sent[w] \subseteq holding[w]
        /\ \A i \in holding[w] :
              /\ status[i] = "claimed"
              /\ claimedBy[i] = w
              /\ lease[i] \in Nat
              /\ lease[i] < ExpiresAt[i] + LeaseSeconds

\* A live worker is within the budget of what it is at, and that of the rows
\* it has left was not spent on others since the claim.
WorkIsTimely ==
    \A w \in Workers :
        /\ holding[w] # {} => now <= since[w] + WorkBudget
        /\ \A i \in holding[w] :
              since[w] + Cardinality(holding[w]) * WorkBudget + LeaseSeconds
                  <= lease[i] + BatchBudget

\* Somebody still answers for every submit: the worker that sent it, the
\* outcome recorded for it, or the death of its worker.
SubmitsAreAccounted ==
    \A i \in Intents :
        /\ submits[i] <= 1 + orphaned[i]
        /\ \/ submits[i] <= orphaned[i]
           \/ status[i] \in NonRedispatchable
           \/ \E w \in Workers : i \in sent[w]

Inductive == TypeOK /\ HeldRowsAreLeased /\ WorkIsTimely /\ SubmitsAreAccounted

-----------------------------------------------------------------------------
\* The schedule of backoffSeconds is a number of seconds at every attempt.
LEMMA BackoffIsNatural == \A n \in Nat : backoffSeconds(n) \in Nat
  <1>1. \A k \in 1..9 : PowersOfTwo[k] \in Nat
    BY DEF PowersOfTwo
  <1> QED
    BY <1>1 DEF backoffSeconds

\* What the code asserts is enough for a worker that claims one row at a time.
LEMMA OneRowFitsLease == BatchLimit = 1 => BatchFitsLease
  BY LeaseExceedsWork DEF BatchFitsLease, BatchBudget

\* The budgets of a batch are a number of seconds.
LEMMA BudgetsAreNatural == BatchBudget \in Nat /\ WorkBudget \in Nat
  BY LeaseExceedsWork, OutboxAssumption DEF BatchBudget

\* The budgets of n rows are those of n - 1 and one more, and more rows have
\* more of them.
LEMMA BudgetsAddUp ==
  ASSUME NEW n \in Nat
  PROVE  /\ n * WorkBudget \in Nat
         /\ (n + 1) * WorkBudget = n * WorkBudget + WorkBudget
         /\ n <= BatchLimit => n * WorkBudget <= BatchBudget
  <1>1. PICK b \in Nat : b = WorkBudget
    BY BudgetsAreNatural
  <1>2. PICK m \in Nat : m = BatchLimit
    BY OutboxAssumption
  <1>3. n * b \in Nat /\ (n + 1) * b = n * b + b
    OBVIOUS
  <1>4. ASSUME n <= m PROVE n * b <= m * b
    <2>1. PICK d \in Nat : m = n + d
      <3>1. m - n \in Nat /\ m = n + (m - n)
        BY <1>4
      <3> QED
        BY <3>1
    <2>2. m * b = n * b + d * b /\ d * b \in Nat
      BY <2>1
    <2> QED
      BY <1>3, <2>2
  <1> QED
    BY <1>1, <1>2, <1>3, <1>4 DEF BatchBudget

\* What a worker holds is counted.
LEMMA HoldingsAreFinite ==
  ASSUME NEW S \in SUBSET Intents
  PROVE  /\ IsFiniteSet(S) /\ Cardinality(S) \in Nat
         /\ \A i \in S : Cardinality(S) = Cardinality(S \ {i}) + 1
  <1>1. IsFiniteSet(S) /\ Cardinality(S) \in Nat
    BY OutboxAssumption, FS_Subset, FS_CardinalityType
  <1>2. ASSUME NEW i \in S PROVE Cardinality(S) = Cardinality(S \ {i}) + 1
    <2>1. Cardinality(S \ {i}) = Cardinality(S) - 1
      BY <1>1, FS_RemoveElement
    <2> QED
      BY <1>1, <2>1
  <1> QED
    BY <1>1, <1>2

\* The lease of a held row is what a batch took or may still take ahead.
LEMMA HeldIsTimely ==
  ASSUME Inductive, NEW w \in Workers, NEW i \in holding[w]
  PROVE  /\ status[i] = "claimed" /\ lease[i] \in Nat
         /\ now + LeaseSeconds <= lease[i] + BatchBudget
  <1>1. /\ now <= since[w] + WorkBudget
        /\ since[w] + Cardinality(holding[w]) * WorkBudget + LeaseSeconds
               <= lease[i] + BatchBudget
    BY DEF Inductive, WorkIsTimely
  <1>2. /\ now \in Nat /\ since[w] \in Nat /\ lease[i] \in Nat /\ LeaseSeconds \in Nat
        /\ BatchBudget \in Nat /\ WorkBudget \in Nat /\ status[i] = "claimed"
    BY BudgetsAreNatural, LeaseExceedsWork, OutboxAssumption
    DEF Inductive, TypeOK, HeldRowsAreLeased
  <1>3. PICK n \in Nat : Cardinality(holding[w]) = n + 1
    <2>1. holding[w] \in SUBSET Intents
      BY DEF Inductive, TypeOK
    <2> QED
      BY <2>1, HoldingsAreFinite
  <1>4. /\ n * WorkBudget \in Nat
        /\ Cardinality(holding[w]) * WorkBudget = n * WorkBudget + WorkBudget
    BY <1>3, BudgetsAddUp
  <1> QED
    BY <1>1, <1>2, <1>4

\* No row a worker holds is up for reclaim: its lease outlives the batch.
LEMMA HeldIsNotStranded ==
  ASSUME BatchFitsLease, Inductive, NEW w \in Workers, NEW i \in holding[w]
  PROVE  ~ Stranded(i)
  <1>1. /\ status[i] = "claimed" /\ lease[i] \in Nat
        /\ now + LeaseSeconds <= lease[i] + BatchBudget
    BY HeldIsTimely
  <1>2. now \in Nat /\ LeaseSeconds \in Nat /\ BatchBudget \in Nat
    BY BudgetsAreNatural, LeaseExceedsWork, OutboxAssumption DEF Inductive, TypeOK
  <1>3. ~ (lease[i] < now)
    BY <1>1, <1>2 DEF BatchFitsLease
  <1> QED
    BY <1>1, <1>3 DEF Stranded, NoLease

\* Fresh rows, and rows left claimed from before the lease, are accounted for.
LEMMA InitInductive == Init => Inductive
  BY OutboxAssumption
  DEF Init, Inductive, TypeOK, HeldRowsAreLeased, WorkIsTimely, SubmitsAreAccounted

\* No step gives a column or a worker anything of another type.
LEMMA TypesStay ==
  ASSUME TypeOK, [Next]_outboxVars
  PROVE  TypeOK'
  <1>1. ASSUME NEW w \in Workers, NEW batch \in SUBSET Intents, Claim(w, batch)
        PROVE  TypeOK'
    BY <1>1, LeaseExceedsWork DEF TypeOK, Claim, Update, historyVars
  <1>2. ASSUME NEW backoff \in ReclaimBackoffs, Reclaim(backoff)
        PROVE  TypeOK'
    <2>1. now + backoff \in Nat
      BY OutboxAssumption DEF TypeOK
    <2> QED
      BY <1>2, <2>1 DEF TypeOK, Reclaim, Update, workerVars, historyVars
  <1>3. CASE ExpireOverdue
    BY <1>3 DEF TypeOK, ExpireOverdue, Update, workerVars, historyVars, NonRedispatchable
  <1>4. ASSUME NEW w \in Workers, NEW i \in Intents, Release(w, i)
        PROVE  TypeOK'
    <2>1. now + backoffSeconds(attempts[i]) \in Nat /\ now \in Nat
      BY BackoffIsNatural DEF TypeOK
    <2> QED
      BY <1>4, <2>1 DEF TypeOK, Release, Done, historyVars
  <1>5. ASSUME NEW w \in Workers, NEW i \in Intents, NEW outcome \in RecordedOutcomes,
               Record(w, i, outcome)
        PROVE  TypeOK'
    <2>1. now \in Nat
      BY DEF TypeOK
    <2> QED
      BY <1>5, <2>1 DEF TypeOK, Record, Done, historyVars, RecordedOutcomes, NonRedispatchable
  <1>6. ASSUME NEW w \in Workers, NEW i \in Intents, SubmitHeld(w, i)
        PROVE  TypeOK'
    BY <1>6 DEF TypeOK, SubmitHeld, rowVars
  <1>7. ASSUME NEW w \in Workers, Die(w)
        PROVE  TypeOK'
    BY <1>7 DEF TypeOK, Die, Update, rowVars
  <1>8. CASE Tick
    BY <1>8, OutboxAssumption DEF TypeOK, Tick, rowVars, workerVars, historyVars
  <1>9. CASE UNCHANGED outboxVars
    BY <1>9 DEF TypeOK, outboxVars, rowVars, workerVars, historyVars
  <1> QED
    BY <1>1, <1>2, <1>3, <1>4, <1>5, <1>6, <1>7, <1>8, <1>9 DEF Next

\* A claim takes only rows that were nobody's, and gives them a fresh lease.
LEMMA ClaimPreserves ==
  ASSUME Inductive, NEW w \in Workers, NEW batch \in SUBSET Intents, Claim(w, batch)
  PROVE  HeldRowsAreLeased' /\ WorkIsTimely' /\ SubmitsAreAccounted'
  <1> USE DEF Inductive
  <1>1. \A v \in Workers : \A i \in holding[v] : i \notin batch
    BY DEF HeldRowsAreLeased, Claim, Claimable
  <1>2. HeldRowsAreLeased'
    <2> SUFFICES ASSUME NEW v \in Workers
                 PROVE  /\ sent'[v] \subseteq holding'[v]
                        /\ \A i \in holding'[v] :
                              /\ status'[i] = "claimed"
                              /\ claimedBy'[i] = v
                              /\ lease'[i] \in Nat
                              /\ lease'[i] < ExpiresAt[i] + LeaseSeconds
      BY DEF HeldRowsAreLeased
    <2>1. CASE v = w
      BY <2>1, OutboxAssumption, LeaseExceedsWork
      DEF HeldRowsAreLeased, TypeOK, Claim, Claimable, Update, historyVars
    <2>2. CASE v # w
      BY <1>1, <2>2 DEF HeldRowsAreLeased, TypeOK, Claim, Update, historyVars
    <2> QED
      BY <2>1, <2>2
  <1>3. WorkIsTimely'
    <2> SUFFICES ASSUME NEW v \in Workers
                 PROVE  /\ holding'[v] # {} => now' <= since'[v] + WorkBudget
                        /\ \A i \in holding'[v] :
                              since'[v] + Cardinality(holding'[v]) * WorkBudget + LeaseSeconds
                                <= lease'[i] + BatchBudget
      BY DEF WorkIsTimely
    <2>1. /\ now' = now /\ since' = [since EXCEPT ![w] = now]
          /\ holding' = [holding EXCEPT ![w] = batch]
          /\ lease' = Update(lease, batch, LAMBDA i : now + LeaseSeconds)
      BY DEF Claim
    <2>2. /\ now \in Nat /\ WorkBudget \in Nat /\ BatchBudget \in Nat
          /\ since \in [Workers -> Nat] /\ holding \in [Workers -> SUBSET Intents]
          /\ LeaseSeconds \in Nat /\ DOMAIN lease = Intents
      BY BudgetsAreNatural, LeaseExceedsWork, OutboxAssumption DEF TypeOK
    <2>3. CASE v = w
      <3>1. PICK n \in Nat : n = Cardinality(batch) /\ n <= BatchLimit
        BY HoldingsAreFinite DEF Claim
      <3>2. PICK spent \in Nat : spent = n * WorkBudget /\ spent <= BatchBudget
        BY <3>1, BudgetsAddUp
      <3>3. \A i \in batch : lease'[i] = now + LeaseSeconds
        BY <2>1, <2>2 DEF Update
      <3>4. now' = now /\ since'[v] = now /\ holding'[v] = batch
        BY <2>1, <2>2, <2>3
      <3>5. Cardinality(holding'[v]) * WorkBudget = spent
        BY <3>1, <3>2, <3>4
      <3>6. now' <= since'[v] + WorkBudget
        BY <2>2, <3>4
      <3>7. \A i \in batch : now + spent + LeaseSeconds <= lease'[i] + BatchBudget
        BY <2>2, <3>2, <3>3
      <3> QED
        BY <3>4, <3>5, <3>6, <3>7
    <2>4. CASE v # w
      <3>1. since'[v] = since[v] /\ holding'[v] = holding[v]
        BY <2>1, <2>2, <2>4
      <3>2. \A i \in holding[v] : lease'[i] = lease[i]
        BY <1>1, <2>1, <2>2 DEF Update
      <3> QED
        BY <2>1, <3>1, <3>2 DEF WorkIsTimely
    <2> QED
      BY <2>3, <2>4
  <1>4. SubmitsAreAccounted'
    BY DEF SubmitsAreAccounted, TypeOK, Claim, Claimable, Update, historyVars, NonRedispatchable
  <1> QED
    BY <1>2, <1>3, <1>4

\* A reclaim only touches rows nobody holds, if a batch fits its lease.
LEMMA ReclaimPreserves ==
  ASSUME BatchFitsLease, Inductive, NEW backoff \in ReclaimBackoffs, Reclaim(backoff)
  PROVE  HeldRowsAreLeased' /\ WorkIsTimely' /\ SubmitsAreAccounted'
  <1> USE DEF Inductive
  <1> DEFINE rows == {i \in Intents : Stranded(i)}
  <1>1. \A w \in Workers : \A i \in holding[w] : i \notin rows
    BY HeldIsNotStranded
  <1>2. /\ status' = Update(status, rows, LAMBDA i : "ready")
        /\ claimedBy' = Update(claimedBy, rows, LAMBDA i : NoWorker)
        /\ lease' = Update(lease, rows, LAMBDA i : NoLease)
        /\ now' = now /\ UNCHANGED workerVars
    BY DEF Reclaim
  <1>3. SubmitsAreAccounted'
    BY DEF SubmitsAreAccounted, TypeOK, Reclaim, Stranded, Update, workerVars, historyVars,
           NonRedispatchable
  <1> HIDE DEF rows
  <1>4. HeldRowsAreLeased'
    BY <1>1, <1>2 DEF HeldRowsAreLeased, TypeOK, Update, workerVars
  <1>5. WorkIsTimely'
    BY <1>1, <1>2 DEF WorkIsTimely, TypeOK, Update, workerVars
  <1> QED
    BY <1>3, <1>4, <1>5

\* The runbook expires only rows that are ready, so nobody's.
LEMMA ExpirePreserves ==
  ASSUME Inductive, ExpireOverdue
  PROVE  HeldRowsAreLeased' /\ WorkIsTimely' /\ SubmitsAreAccounted'
  <1> USE DEF Inductive
  <1>1. HeldRowsAreLeased'
    BY DEF HeldRowsAreLeased, TypeOK, ExpireOverdue, Update, workerVars
  <1>2. WorkIsTimely'
    BY DEF WorkIsTimely, ExpireOverdue, workerVars
  <1>3. SubmitsAreAccounted'
    BY DEF SubmitsAreAccounted, TypeOK, ExpireOverdue, Update, workerVars, historyVars,
           NonRedispatchable
  <1> QED
    BY <1>1, <1>2, <1>3

\* Leaving a worker's hands disturbs no other row it or anyone else holds.
LEMMA DoneKeepsOthers ==
  ASSUME Inductive, NEW w \in Workers, NEW i \in holding[w], Done(w, i),
         NEW s, NEW o,
         status' = [status EXCEPT ![i] = s],
         claimedBy' = [claimedBy EXCEPT ![i] = o],
         UNCHANGED lease
  PROVE  HeldRowsAreLeased' /\ WorkIsTimely'
  <1>1. \A v \in Workers : i \notin holding'[v]
    BY DEF Inductive, HeldRowsAreLeased, TypeOK, Done
  <1>2. \A v \in Workers : holding'[v] \subseteq holding[v] /\ sent'[v] \subseteq holding'[v]
    BY DEF Inductive, HeldRowsAreLeased, TypeOK, Done
  <1>3. HeldRowsAreLeased'
    BY <1>1, <1>2 DEF Inductive, HeldRowsAreLeased, TypeOK, Done
  <1>4. WorkIsTimely'
    <2> SUFFICES ASSUME NEW v \in Workers
                 PROVE  /\ holding'[v] # {} => now' <= since'[v] + WorkBudget
                        /\ \A j \in holding'[v] :
                              since'[v] + Cardinality(holding'[v]) * WorkBudget + LeaseSeconds
                                <= lease'[j] + BatchBudget
      BY DEF WorkIsTimely
    <2>1. /\ now' = now /\ since' = [since EXCEPT ![w] = now]
          /\ holding' = [holding EXCEPT ![w] = @ \ {i}] /\ lease' = lease
      BY DEF Done
    <2>2. /\ now \in Nat /\ WorkBudget \in Nat /\ BatchBudget \in Nat
          /\ since \in [Workers -> Nat] /\ holding \in [Workers -> SUBSET Intents]
          /\ LeaseSeconds \in Nat /\ \A j \in holding[w] : lease[j] \in Nat
      BY BudgetsAreNatural, LeaseExceedsWork, OutboxAssumption
      DEF Inductive, TypeOK, HeldRowsAreLeased
    <2>3. CASE v = w
      <3>1. PICK n \in Nat : n = Cardinality(holding[w] \ {i})
                              /\ Cardinality(holding[w]) = n + 1
        BY <2>2, HoldingsAreFinite
      <3>2. PICK left \in Nat : /\ left = n * WorkBudget
                               /\ (n + 1) * WorkBudget = left + WorkBudget
        BY BudgetsAddUp
      <3>3. /\ now <= since[w] + WorkBudget
            /\ \A j \in holding[w] :
                  since[w] + (left + WorkBudget) + LeaseSeconds <= lease[j] + BatchBudget
        BY <3>1, <3>2 DEF Inductive, WorkIsTimely
      <3>4. since'[v] = now /\ holding'[v] = holding[w] \ {i}
        BY <2>1, <2>2, <2>3
      <3>5. Cardinality(holding'[v]) * WorkBudget = left
        BY <3>1, <3>2, <3>4
      <3>6. now' <= since'[v] + WorkBudget
        BY <2>1, <2>2, <3>4
      <3>7. \A j \in holding[w] : now + left + LeaseSeconds <= lease[j] + BatchBudget
        BY <2>2, <3>2, <3>3
      <3> QED
        BY <2>1, <3>4, <3>5, <3>6, <3>7
    <2>4. CASE v # w
      <3>1. since'[v] = since[v] /\ holding'[v] = holding[v]
        BY <2>1, <2>2, <2>4
      <3> QED
        BY <2>1, <3>1 DEF Inductive, WorkIsTimely
    <2> QED
      BY <2>3, <2>4
  <1> QED
    BY <1>3, <1>4

\* A release gives back a row that was not submitted.
LEMMA ReleasePreserves ==
  ASSUME Inductive, NEW w \in Workers, NEW i \in Intents, Release(w, i)
  PROVE  HeldRowsAreLeased' /\ WorkIsTimely' /\ SubmitsAreAccounted'
  <1>1. HeldRowsAreLeased' /\ WorkIsTimely'
    BY DoneKeepsOthers DEF Release
  <1>2. SubmitsAreAccounted'
    <2>1. /\ status[i] = "claimed"
          /\ \A v \in Workers : i \notin sent[v]
      BY DEF Inductive, HeldRowsAreLeased, Release
    <2>2. \A j \in Intents \ {i} : status'[j] = status[j]
      BY DEF Inductive, TypeOK, Release
    <2>3. \A j \in Intents \ {i}, v \in Workers : j \in sent[v] => j \in sent'[v]
      BY DEF Inductive, TypeOK, Release, Done
    <2> QED
      BY <2>1, <2>2, <2>3
      DEF Inductive, SubmitsAreAccounted, TypeOK, Release, historyVars, NonRedispatchable
  <1> QED
    BY <1>1, <1>2

\* A record takes the row out of the queue with an outcome.
LEMMA RecordPreserves ==
  ASSUME Inductive, NEW w \in Workers, NEW i \in Intents, NEW outcome \in RecordedOutcomes,
         Record(w, i, outcome)
  PROVE  HeldRowsAreLeased' /\ WorkIsTimely' /\ SubmitsAreAccounted'
  <1>1. i \in holding[w]
    BY DEF Inductive, HeldRowsAreLeased, Record
  <1>2. HeldRowsAreLeased' /\ WorkIsTimely'
    <2>1. claimedBy' = [claimedBy EXCEPT ![i] = claimedBy[i]]
      BY DEF Inductive, TypeOK, Record
    <2> QED
      BY <1>1, <2>1, DoneKeepsOthers DEF Record
  <1>3. SubmitsAreAccounted'
    <2>1. status'[i] \in NonRedispatchable
      BY DEF Inductive, TypeOK, Record, RecordedOutcomes, NonRedispatchable
    <2>2. \A j \in Intents \ {i} : status'[j] = status[j]
      BY DEF Inductive, TypeOK, Record
    <2>3. \A j \in Intents \ {i}, v \in Workers : j \in sent[v] => j \in sent'[v]
      BY DEF Inductive, TypeOK, Record, Done
    <2> QED
      BY <2>1, <2>2, <2>3 DEF Inductive, SubmitsAreAccounted, Record, historyVars
  <1> QED
    BY <1>2, <1>3

\* A submit is of a row its worker alone holds, for which no outcome is known.
LEMMA SubmitPreserves ==
  ASSUME Inductive, NEW w \in Workers, NEW i \in Intents, SubmitHeld(w, i)
  PROVE  HeldRowsAreLeased' /\ WorkIsTimely' /\ SubmitsAreAccounted'
  <1>1. HeldRowsAreLeased'
    BY DEF Inductive, HeldRowsAreLeased, TypeOK, SubmitHeld, rowVars
  <1>2. WorkIsTimely'
    BY DEF Inductive, WorkIsTimely, SubmitHeld, rowVars
  <1>3. SubmitsAreAccounted'
    \* Nobody else has it, and it has no outcome yet.
    <2>1. submits[i] <= orphaned[i]
      BY DEF Inductive, HeldRowsAreLeased, SubmitsAreAccounted, SubmitHeld, NonRedispatchable
    <2>2. i \in sent'[w] /\ \A v \in Workers : sent[v] \subseteq sent'[v]
      BY DEF Inductive, TypeOK, SubmitHeld
    <2>3. submits'[i] <= 1 + orphaned'[i]
      BY <2>1 DEF Inductive, TypeOK, SubmitHeld
    <2>4. \A j \in Intents \ {i} : submits'[j] = submits[j]
      BY DEF Inductive, TypeOK, SubmitHeld
    <2> QED
      BY <2>2, <2>3, <2>4 DEF Inductive, SubmitsAreAccounted, SubmitHeld, rowVars
  <1> QED
    BY <1>1, <1>2, <1>3

\* A death turns the worker's unrecorded submits into orphans.
LEMMA DiePreserves ==
  ASSUME Inductive, NEW w \in Workers, Die(w)
  PROVE  HeldRowsAreLeased' /\ WorkIsTimely' /\ SubmitsAreAccounted'
  <1>1. HeldRowsAreLeased'
    <2>1. /\ holding' = [holding EXCEPT ![w] = {}]
          /\ sent' = [sent EXCEPT ![w] = {}]
          /\ UNCHANGED <<status, claimedBy, lease, since>>
      BY DEF Die, rowVars
    <2> QED
      BY <2>1 DEF Inductive, HeldRowsAreLeased, TypeOK
  <1>2. WorkIsTimely'
    <2>1. /\ now' = now /\ since' = since /\ lease' = lease
          /\ holding' = [holding EXCEPT ![w] = {}]
      BY DEF Die, rowVars
    <2>2. \A v \in Workers : holding'[v] # {} => holding'[v] = holding[v]
      BY <2>1 DEF Inductive, TypeOK
    <2> QED
      BY <2>1, <2>2 DEF Inductive, WorkIsTimely
  <1>3. SubmitsAreAccounted'
    <2> SUFFICES ASSUME NEW i \in Intents
                 PROVE  /\ submits'[i] <= 1 + orphaned'[i]
                        /\ \/ submits'[i] <= orphaned'[i]
                           \/ status'[i] \in NonRedispatchable
                           \/ \E v \in Workers : i \in sent'[v]
      BY DEF SubmitsAreAccounted
    <2>1. /\ submits[i] \in Nat /\ orphaned[i] \in Nat
          /\ submits'[i] = submits[i] /\ status'[i] = status[i]
          /\ orphaned'[i] = IF i \in sent[w] THEN orphaned[i] + 1 ELSE orphaned[i]
      BY DEF Inductive, TypeOK, Die, Update, rowVars
    <2>2. i \notin sent[w] => \A v \in Workers : i \in sent[v] => i \in sent'[v]
      BY DEF Inductive, TypeOK, Die
    <2> QED
      BY <2>1, <2>2 DEF Inductive, SubmitsAreAccounted
  <1> QED
    BY <1>1, <1>2, <1>3

\* The clock waits for the live workers.
LEMMA TickPreserves ==
  ASSUME Inductive, Tick
  PROVE  HeldRowsAreLeased' /\ WorkIsTimely' /\ SubmitsAreAccounted'
  <1>1. HeldRowsAreLeased'
    BY DEF Inductive, HeldRowsAreLeased, Tick, rowVars, workerVars
  <1>2. WorkIsTimely'
    <2>1. now' = now + 1 /\ UNCHANGED <<holding, since, lease>>
      BY DEF Tick, rowVars, workerVars
    <2>2. ASSUME NEW w \in Workers, holding[w] # {}
          PROVE  now + 1 <= since[w] + WorkBudget
      <3>1. now < since[w] + WorkBudget
        BY <2>2 DEF Tick
      <3>2. now \in Nat /\ since[w] \in Nat /\ WorkBudget \in Nat
        BY LeaseExceedsWork, OutboxAssumption DEF Inductive, TypeOK
      <3> QED
        BY <3>1, <3>2
    <2> QED
      BY <2>1, <2>2 DEF Inductive, WorkIsTimely
  <1>3. SubmitsAreAccounted'
    BY DEF Inductive, SubmitsAreAccounted, Tick, rowVars, workerVars, historyVars
  <1> QED
    BY <1>1, <1>2, <1>3

\* If a batch fits its lease, every step and every stutter preserves the
\* invariant.
LEMMA StepPreserves ==
  ASSUME BatchFitsLease, Inductive, [Next]_outboxVars
  PROVE  Inductive'
  <1>1. CASE UNCHANGED outboxVars
    BY <1>1 DEF outboxVars, rowVars, workerVars, historyVars, Inductive, TypeOK,
                HeldRowsAreLeased, WorkIsTimely, SubmitsAreAccounted
  <1>2. CASE Next
    <2>1. TypeOK'
      BY TypesStay DEF Inductive
    <2>2. HeldRowsAreLeased' /\ WorkIsTimely' /\ SubmitsAreAccounted'
      BY <1>2, ClaimPreserves, SubmitPreserves, ReleasePreserves, RecordPreserves, DiePreserves,
         ReclaimPreserves, ExpirePreserves, TickPreserves DEF Next
    <2> QED
      BY <2>1, <2>2 DEF Inductive
  <1> QED
    BY <1>1, <1>2

\* If a batch fits its lease, every reachable state of the outbox satisfies
\* the inductive invariant.
THEOREM AlwaysInductive ==
  ASSUME BatchFitsLease
  PROVE  Spec => []Inductive
  <1>1. Init => Inductive
    BY InitInductive
  <1>2. Inductive /\ [Next]_outboxVars => Inductive'
    BY StepPreserves
  <1> QED
    BY <1>1, <1>2, PTL DEF Spec

-----------------------------------------------------------------------------
\* The columns and the workers keep their types, whatever the lease.
THEOREM OutboxTypeOK == Spec => []TypeOK
  <1>1. Init => TypeOK
    BY InitInductive DEF Inductive
  <1>2. TypeOK /\ [Next]_outboxVars => TypeOK'
    BY TypesStay
  <1> QED
    BY <1>1, <1>2, PTL DEF Spec

\* With a lease longer than the budgets of a whole batch, reclaiming by the
\* lease predicate alone never takes a row from a live worker, for any number
\* of workers and rows.
THEOREM ClaimsAreExclusive ==
  ASSUME BatchFitsLease
  PROVE  Spec => []ExclusiveClaim
  <1>1. Inductive => ExclusiveClaim
    BY DEF Inductive, HeldRowsAreLeased, ExclusiveClaim
  <1> QED
    BY <1>1, AlwaysInductive, PTL

\* What the code asserts at startup, a lease longer than the budget of one
\* intent, makes the claims of workers exclusive that take one row at a time.
THEOREM SingleClaimsAreExclusive ==
  ASSUME BatchLimit = 1
  PROVE  Spec => []ExclusiveClaim
  <1>1. BatchFitsLease
    BY OneRowFitsLease
  <1> QED
    BY <1>1, ClaimsAreExclusive

\* With such a lease, every submit beyond the first is paid for by the death
\* of a worker that had sent one and not recorded it.
THEOREM ResubmitsNeedOrphans ==
  ASSUME BatchFitsLease
  PROVE  Spec => []ResubmitNeedsOrphan
  <1>1. Inductive => ResubmitNeedsOrphan
    BY DEF Inductive, SubmitsAreAccounted, ResubmitNeedsOrphan
  <1> QED
    BY <1>1, AlwaysInductive, PTL

\* With such a lease, no status of NON_REDISPATCHABLE is ever overwritten.
THEOREM FinishedIsFinal ==
  ASSUME BatchFitsLease
  PROVE  Spec => FinishedStaysFinished
  <1>1. ASSUME Inductive, [Next]_outboxVars, NEW i \in Intents, status[i] \in NonRedispatchable
        PROVE  status'[i] = status[i]
    <2>1. \A w \in Workers : i \notin holding[w] /\ i \notin sent[w]
      BY <1>1 DEF Inductive, HeldRowsAreLeased, NonRedispatchable
    <2>2. status[i] # "ready" /\ status[i] # "claimed"
      BY <1>1 DEF NonRedispatchable
    <2>3. ASSUME NEW w \in Workers, NEW batch \in SUBSET Intents, Claim(w, batch)
          PROVE  status'[i] = status[i]
      <3>1. i \notin batch /\ status' = Update(status, batch, LAMBDA j : "claimed")
        BY <2>2, <2>3 DEF Claim, Claimable
      <3> QED
        BY <1>1, <3>1 DEF Inductive, TypeOK, Update
    <2>4. ASSUME NEW w \in Workers, NEW j \in Intents, Release(w, j)
          PROVE  status'[i] = status[i]
      BY <2>1, <2>4 DEF Inductive, TypeOK, Release
    <2>5. ASSUME NEW w \in Workers, NEW j \in Intents, NEW o \in RecordedOutcomes, Record(w, j, o)
          PROVE  status'[i] = status[i]
      BY <2>1, <2>5 DEF Inductive, TypeOK, Record
    <2>6. ASSUME NEW b \in ReclaimBackoffs, Reclaim(b)
          PROVE  status'[i] = status[i]
      BY <1>1, <2>2, <2>6 DEF Inductive, TypeOK, Reclaim, Stranded, Update
    <2>7. CASE ExpireOverdue
      BY <1>1, <2>2, <2>7 DEF Inductive, TypeOK, ExpireOverdue, Update
    <2>8. CASE \/ \E w \in Workers, j \in Intents : SubmitHeld(w, j)
               \/ \E w \in Workers : Die(w)
               \/ Tick
               \/ UNCHANGED outboxVars
      BY <2>8 DEF SubmitHeld, Die, Tick, outboxVars, rowVars
    <2>9. CASE Next
      BY <2>3, <2>4, <2>5, <2>6, <2>7, <2>8, <2>9 DEF Next
    <2> QED
      BY <1>1, <2>8, <2>9
  <1>2. Inductive /\ [Next]_outboxVars =>
          [\A i \in Intents : status[i] \in NonRedispatchable => status'[i] = status[i]]_outboxVars
    BY <1>1
  <1> QED
    BY <1>2, AlwaysInductive, PTL DEF Spec, FinishedStaysFinished

\* With such a lease, an intent past its expiry is only traded by work on a
\* batch that was claimed before it.
THEOREM ExpiredIsNotTraded ==
  ASSUME BatchFitsLease
  PROVE  Spec => NoTradeAfterExpiry
  <1>1. ASSUME Inductive, [Next]_outboxVars, NEW i \in Intents, submits'[i] # submits[i]
        PROVE  now < ExpiresAt[i] + BatchBudget
    <2>1. PICK w \in Workers : i \in holding[w]
      <3>1. ~ UNCHANGED submits
        BY <1>1
      <3>2. PICK w \in Workers, j \in Intents : SubmitHeld(w, j)
        BY <1>1, <3>1 DEF Next, Claim, Release, Record, Die, Reclaim, ExpireOverdue, Tick,
                          historyVars, outboxVars
      <3>3. i = j
        BY <1>1, <3>2 DEF Inductive, TypeOK, SubmitHeld
      <3> QED
        BY <3>2, <3>3 DEF SubmitHeld
    <2>2. now + LeaseSeconds <= lease[i] + BatchBudget
      BY <1>1, <2>1, HeldIsTimely
    <2>3. lease[i] \in Nat /\ lease[i] < ExpiresAt[i] + LeaseSeconds
      BY <1>1, <2>1 DEF Inductive, HeldRowsAreLeased
    <2>4. /\ now \in Nat /\ LeaseSeconds \in Nat
          /\ ExpiresAt[i] \in Nat /\ BatchBudget \in Nat
      BY <1>1, BudgetsAreNatural, LeaseExceedsWork, OutboxAssumption DEF Inductive, TypeOK
    <2> QED
      BY <2>2, <2>3, <2>4
  <1>2. Inductive /\ [Next]_outboxVars =>
          [\A i \in Intents :
              submits'[i] # submits[i] => now < ExpiresAt[i] + BatchBudget]_outboxVars
    BY <1>1
  <1> QED
    BY <1>2, AlwaysInductive, PTL DEF Spec, NoTradeAfterExpiry
=============================================================================
