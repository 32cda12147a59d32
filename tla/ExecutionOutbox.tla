--------------------------- MODULE ExecutionOutbox ---------------------------
(***************************************************************************)
(* The execution_intents outbox: the queries of apps/executor/src/outbox.ts*)
(* (CLAIM_SQL, RECLAIM_SQL, RELEASE_SQL, TERMINAL_SQL), each one atomic    *)
(* committed statement, the manual steps of the recovery runbook, a clock, *)
(* and the workers that use them.                                          *)
(*                                                                         *)
(* The repository has no worker loop yet.  A worker here is the most       *)
(* liberal one that keeps the contract the module's comments state: it     *)
(* submits only what it holds, releases only what it has not submitted,    *)
(* records the outcome of what it has, and takes no more than WorkBudget   *)
(* for each intent of its batch or is dead.  It may die between any two of *)
(* its steps.                                                              *)
(*                                                                         *)
(* assertLeaseExceedsWork compares the lease with the budget of one intent *)
(* while CLAIM_SQL leases the whole batch at once: what is promised below  *)
(* holds if the budgets of a batch fit the lease (BatchFitsLease), which   *)
(* the code asserts for a batch of one only.                               *)
(***************************************************************************)
EXTENDS Integers, Sequences, FiniteSets

CONSTANTS
    Intents,          \* rows of the outbox
    Workers,          \* executor processes
    NoWorker,         \* claimed_by is null
    ExpiresAt,        \* [Intents -> Nat]: after this an intent is a new trade nobody decided on
    LeaseSeconds,     \* LEASE_SECONDS
    WorkBudget,       \* the longest a live worker takes for one intent
    BatchLimit,       \* CLAIM_SQL's $2
    ReclaimBackoffs,  \* values an operator gives RECLAIM_SQL's $1
    Horizon           \* bound: the clock stops here

\* assertLeaseExceedsWork, which throws at startup otherwise.
ASSUME LeaseExceedsWork ==
    /\ LeaseSeconds \in Nat
    /\ WorkBudget \in Nat
    /\ WorkBudget < LeaseSeconds

ASSUME OutboxAssumption ==
    /\ IsFiniteSet(Intents)
    /\ NoWorker \notin Workers
    /\ ExpiresAt \in [Intents -> Nat]
    /\ BatchLimit \in Nat
    /\ ReclaimBackoffs \subseteq Nat
    /\ Horizon \in Nat

\* The budgets of a batch that is worked through one by one.
BatchBudget == BatchLimit * WorkBudget

BatchFitsLease == BatchBudget < LeaseSeconds

VARIABLES
    now,
    status, claimedBy, lease, available, attempts,  \* the row's columns
    holding,          \* the intents each worker claimed and is not done with
    since,            \* when it claimed them, or was done with the last of the others
    sent,             \* those whose submit has reached the venue
    submits,          \* how often the venue was sent each intent
    orphaned          \* how often a worker died between its submit and its record

rowVars == <<status, claimedBy, lease, available, attempts>>
workerVars == <<holding, since, sent>>
historyVars == <<submits, orphaned>>
outboxVars == <<now, rowVars, workerVars, historyVars>>

\* NULL: no claim yet, or one made before migration 020.
NoLease == -1

NonRedispatchable ==
    {"filled", "canceled", "rejected", "expired", "settled", "reconciliation_break"}

\* What a worker records for the outcomes of dispatch(): done, refused, or
\* ambiguous and not recovered.
RecordedOutcomes == {"filled", "rejected", "reconciliation_break"}

TypeOK ==
    /\ now \in 0..Horizon
    /\ status \in [Intents -> {"ready", "claimed"} \cup NonRedispatchable]
    /\ claimedBy \in [Intents -> Workers \cup {NoWorker}]
    /\ lease \in [Intents -> Nat \cup {NoLease}]
    /\ available \in [Intents -> Nat]
    /\ attempts \in [Intents -> Nat]
    /\ holding \in [Workers -> SUBSET Intents]
    /\ since \in [Workers -> Nat]
    /\ sent \in [Workers -> SUBSET Intents]
    /\ submits \in [Intents -> Nat]
    /\ orphaned \in [Intents -> Nat]

\* Some rows may be left over from claims that carried no lease.
Init ==
    /\ now = 0
    /\ status \in [Intents -> {"ready", "claimed"}]
    /\ claimedBy = [i \in Intents |-> NoWorker]
    /\ lease = [i \in Intents |-> NoLease]
    /\ available = [i \in Intents |-> 0]
    /\ attempts = [i \in Intents |-> 0]
    /\ holding = [w \in Workers |-> {}]
    /\ since = [w \in Workers |-> 0]
    /\ sent = [w \in Workers |-> {}]
    /\ submits = [i \in Intents |-> 0]
    /\ orphaned = [i \in Intents |-> 0]

\* f with the value v(i) at every i in S.
Update(f, S, v(_)) == [i \in DOMAIN f |-> IF i \in S THEN v(i) ELSE f[i]]

-----------------------------------------------------------------------------
(* The queries.                                                            *)

\* Faulty variant: the claim does not look at expires_at.
ClaimableStale(i) ==
    /\ status[i] = "ready"
    /\ available[i] <= now

Claimable(i) ==
    /\ status[i] = "ready"
    /\ available[i] <= now
    /\ ExpiresAt[i] > now

\* CLAIM_SQL.  SKIP LOCKED may pass over any row another statement holds, so
\* the batch is any set of claimable rows within the limit.
Claim(w, batch) ==
    /\ holding[w] = {}
    /\ batch # {}
    /\ Cardinality(batch) <= BatchLimit
    /\ \A i \in batch : Claimable(i)
    /\ status' = Update(status, batch, LAMBDA i : "claimed")
    /\ claimedBy' = Update(claimedBy, batch, LAMBDA i : w)
    /\ lease' = Update(lease, batch, LAMBDA i : now + LeaseSeconds)
    /\ attempts' = Update(attempts, batch, LAMBDA i : attempts[i] + 1)
    /\ holding' = [holding EXCEPT ![w] = batch]
    /\ since' = [since EXCEPT ![w] = now]
    /\ UNCHANGED <<now, available, sent, historyVars>>

\* Faulty variant: every claim is taken for expired.
StrandedAlways(i) == status[i] = "claimed"

\* Faulty variant: an unknown outcome is put back as well.
StrandedOrBroken(i) ==
    /\ status[i] \in {"claimed", "reconciliation_break"}
    /\ lease[i] = NoLease \/ lease[i] < now

Stranded(i) ==
    /\ status[i] = "claimed"
    /\ lease[i] = NoLease \/ lease[i] < now

\* RECLAIM_SQL, run by an operator at any time.
Reclaim(backoff) ==
    LET rows == {i \in Intents : Stranded(i)}
    IN  /\ rows # {}
        /\ status' = Update(status, rows, LAMBDA i : "ready")
        /\ claimedBy' = Update(claimedBy, rows, LAMBDA i : NoWorker)
        /\ lease' = Update(lease, rows, LAMBDA i : NoLease)
        /\ available' = Update(available, rows, LAMBDA i : now + backoff)
        /\ UNCHANGED <<now, attempts, workerVars, historyVars>>

\* The runbook's third step.
ExpireOverdue ==
    LET rows == {i \in Intents : status[i] = "ready" /\ ExpiresAt[i] <= now}
    IN  /\ rows # {}
        /\ status' = Update(status, rows, LAMBDA i : "expired")
        /\ UNCHANGED <<now, claimedBy, lease, available, attempts, workerVars, historyVars>>

PowersOfTwo == <<1, 2, 4, 8, 16, 32, 64, 128, 256>>

\* min(300, 2 ** n): the ninth power is the first above the ceiling.
backoffSeconds(n) == IF n > 8 THEN 300 ELSE PowersOfTwo[n + 1]

\* The worker is done with one intent, and the budget of another begins.
Done(w, i) ==
    /\ holding' = [holding EXCEPT ![w] = @ \ {i}]
    /\ sent' = [sent EXCEPT ![w] = @ \ {i}]
    /\ since' = [since EXCEPT ![w] = now]
    /\ UNCHANGED now

\* RELEASE_SQL: selected by id alone, and the lease column stays as it was.
Release(w, i) ==
    /\ i \in holding[w] \ sent[w]
    /\ status' = [status EXCEPT ![i] = "ready"]
    /\ claimedBy' = [claimedBy EXCEPT ![i] = NoWorker]
    /\ available' = [available EXCEPT ![i] = now + backoffSeconds(attempts[i])]
    /\ Done(w, i)
    /\ UNCHANGED <<lease, attempts, historyVars>>

\* TERMINAL_SQL: selected by id alone.
Record(w, i, outcome) ==
    /\ i \in sent[w]
    /\ status' = [status EXCEPT ![i] = outcome]
    /\ Done(w, i)
    /\ UNCHANGED <<claimedBy, lease, available, attempts, historyVars>>

-----------------------------------------------------------------------------
(* The workers and the clock.                                              *)

\* The worker dispatches an intent it holds and the venue receives it.
SubmitHeld(w, i) ==
    /\ i \in holding[w] \ sent[w]
    /\ sent' = [sent EXCEPT ![w] = @ \cup {i}]
    /\ submits' = [submits EXCEPT ![i] = @ + 1]
    /\ UNCHANGED <<now, rowVars, holding, since, orphaned>>

\* Only the committed columns survive.
Die(w) ==
    /\ holding[w] # {}
    /\ orphaned' = Update(orphaned, sent[w], LAMBDA i : orphaned[i] + 1)
    /\ holding' = [holding EXCEPT ![w] = {}]
    /\ sent' = [sent EXCEPT ![w] = {}]
    /\ UNCHANGED <<now, rowVars, since, submits>>

\* Time passes, but not past the budget of what a live worker is at.
Tick ==
    /\ now < Horizon
    /\ \A w \in Workers : holding[w] # {} => now < since[w] + WorkBudget
    /\ now' = now + 1
    /\ UNCHANGED <<rowVars, workerVars, historyVars>>

Next ==
    \/ \E w \in Workers : \E batch \in SUBSET Intents : Claim(w, batch)
    \/ \E w \in Workers, i \in Intents : SubmitHeld(w, i)
    \/ \E w \in Workers, i \in Intents : Release(w, i)
    \/ \E w \in Workers, i \in Intents : \E outcome \in RecordedOutcomes : Record(w, i, outcome)
    \/ \E w \in Workers : Die(w)
    \/ \E backoff \in ReclaimBackoffs : Reclaim(backoff)
    \/ ExpireOverdue
    \/ Tick

Spec == Init /\ [][Next]_outboxVars

-----------------------------------------------------------------------------
(* Properties, under BatchFitsLease.                                       *)

\* Each row is with at most one live worker, and the row says so: no reclaim,
\* release or record ever touches a claim somebody is still working on.
ExclusiveClaim ==
    \A w \in Workers : \A i \in holding[w] :
        /\ status[i] = "claimed"
        /\ claimedBy[i] = w
        /\ \A v \in Workers : i \in holding[v] => v = w

\* An intent is sent again only if the worker that sent it died before it
\* could record the outcome: no reclaim, release or ambiguous outcome alone
\* ever leads to a second submit.
ResubmitNeedsOrphan == \A i \in Intents : submits[i] <= 1 + orphaned[i]

\* What left the queue stays out: no status of NON_REDISPATCHABLE is ever
\* overwritten, although RELEASE_SQL and TERMINAL_SQL select by id alone.
FinishedStaysFinished ==
    [][ \A i \in Intents : status[i] \in NonRedispatchable => status'[i] = status[i] ]_outboxVars

\* However long an intent was stranded, it is not traded once it has expired,
\* but for the batches already begun.
NoTradeAfterExpiry ==
    [][ \A i \in Intents : submits'[i] # submits[i] => now < ExpiresAt[i] + BatchBudget ]_outboxVars
=============================================================================
