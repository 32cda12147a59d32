--------------------------- MODULE SignalProducer ---------------------------
(***************************************************************************)
(* From a followed wallet's fills to execution intents: the grouping of    *)
(* fills into actions (python/nbe_theta/signals/actions.py), the decision  *)
(* on each (pipeline.py, gates.py), and the rows PostgresSignalStore       *)
(* (store.py, intents.py) writes of it within the caller's transaction.    *)
(*                                                                         *)
(* The caller is not in the repository.  What it may do is taken from the  *)
(* comments and the tests: it polls windows that overlap, it commits after *)
(* record_action or only at the end, on an action that is already known it *)
(* stops or passes the missing id on, and it retries what it got no answer *)
(* to.  It never commits inside record_evaluation.  More than one may be   *)
(* at work, as when one is restarted while the database still holds the    *)
(* transaction of its predecessor.                                         *)
(*                                                                         *)
(* An action is the set of its fills, which is what its dedupe key hashes. *)
(* Fills that are not tradable are dropped before all else and left out.   *)
(***************************************************************************)
EXTENDS Naturals, FiniteSets

CONSTANTS
    Producers,
    Fills,
    BucketOf,        \* [Fills -> Buckets]: wallet, token and side
    EntryBuckets,    \* those whose side is BUY
    At,              \* [Fills -> Nat]: when it occurred
    Window,          \* the grouping window
    Versions,        \* policy versions
    MaxEvaluations   \* bound: rows of signal_evaluations

ASSUME SignalProducerAssumption ==
    /\ At \in [Fills -> Nat]
    /\ Window \in Nat
    /\ MaxEvaluations \in Nat

VARIABLES
    published,    \* the fills the venue lists
    mode,         \* the mode callers evaluate in
    version,      \* the version of the signal policy they evaluate with
    actions,      \* source_actions
    evaluations,  \* signal_evaluations
    intents,      \* execution_intents
    issued,       \* ids given to evaluations so far
    batch,        \* actions each producer has still to handle
    work          \* each producer's action in hand, and its open transaction

rows == <<actions, evaluations, intents>>
vars == <<published, mode, version, rows, issued, batch, work>>

Modes == {"shadow", "live"}

Actions == (SUBSET Fills) \ {{}}

\* An evaluation, and with an id its row; `linked` if it has a source_action_id.
Evaluation ==
    [id : 0..MaxEvaluations, action : Actions, linked : BOOLEAN, version : Versions,
     accepted : BOOLEAN, mode : Modes]

\* A row of execution_intents: what its dedupe key hashes, and its signal_id.
Intent == [decision : Actions \X Versions, signal : 0..MaxEvaluations]

\* The action in hand, whether its id is, and what the open transaction adds.
Work ==
    [step : {"idle", "recorded", "evaluated", "decided"}, action : SUBSET Fills,
     linked : BOOLEAN, newActions : SUBSET Actions,
     newEvaluations : SUBSET Evaluation, newIntents : SUBSET Intent]

Idle ==
    [step |-> "idle", action |-> {}, linked |-> FALSE,
     newActions |-> {}, newEvaluations |-> {}, newIntents |-> {}]

TypeOK ==
    /\ published \subseteq Fills
    /\ mode \in Modes
    /\ version \in Versions
    /\ actions \subseteq Actions
    /\ evaluations \subseteq Evaluation
    /\ intents \subseteq Intent
    /\ issued \in 0..MaxEvaluations
    /\ batch \in [Producers -> SUBSET Actions]
    /\ work \in [Producers -> Work]
    /\ \A p \in Producers : work[p].step # "idle" => work[p].action # {}

Init ==
    /\ published = {}
    /\ mode = "shadow"
    /\ version \in Versions
    /\ actions = {}
    /\ evaluations = {}
    /\ intents = {}
    /\ issued = 0
    /\ batch = [p \in Producers |-> {}]
    /\ work = [p \in Producers |-> Idle]

-----------------------------------------------------------------------------
(* group_fills.                                                            *)

\* Fills of one bucket, of which some may be missing from what was polled.
InBucketOf(fills, f) == {g \in fills : BucketOf[g] = BucketOf[f]}

\* After f the bucket is quiet for longer than the window.
LastOfRun(bucket, f) == \A g \in bucket : At[g] > At[f] => At[g] > At[f] + Window

SameRun(bucket, f, g) ==
    \A h \in bucket :
        (At[f] <= At[h] /\ At[h] < At[g]) \/ (At[g] <= At[h] /\ At[h] < At[f])
            => ~ LastOfRun(bucket, h)

Group(fills) ==
    {{g \in InBucketOf(fills, f) : SameRun(InBucketOf(fills, f), f, g)} : f \in fills}

LastFillAt(a) == CHOOSE t \in {At[f] : f \in a} : \A f \in a : At[f] <= t

\* Actions are handled in the order of their last fills.
Foremost(p) == {a \in batch[p] : \A b \in batch[p] : LastFillAt(a) <= LastFillAt(b)}

Publish(f) ==
    /\ f \notin published
    /\ published' = published \cup {f}
    /\ UNCHANGED <<mode, version, rows, issued, batch, work>>

\* The window polled reaches back to some time in the past.
Poll(p) ==
    /\ work[p].step = "idle"
    /\ batch[p] = {}
    /\ \E f \in published :
          batch' = [batch EXCEPT ![p] = Group({g \in published : At[g] >= At[f]})]
    /\ UNCHANGED <<published, mode, version, rows, issued, work>>

-----------------------------------------------------------------------------
(* record_action.                                                          *)

\* An insert waits for an open transaction that holds the same unique key.
HeldAction(p, a) == \E q \in Producers \ {p} : a \in work[q].newActions

\* The insert returns the new row's id.
RecordAction(p) ==
    /\ work[p].step = "idle"
    /\ \E a \in Foremost(p) :
          /\ ~ HeldAction(p, a)
          /\ a \notin actions
          /\ work' = [work EXCEPT ![p] = [Idle EXCEPT !.step = "recorded", !.action = a,
                                            !.linked = TRUE, !.newActions = {a}]]
    /\ UNCHANGED <<published, mode, version, rows, issued, batch>>

\* On a conflict it returns nothing, and the caller leaves the action or
\* goes on without its id.
KnownAction(p) ==
    /\ work[p].step = "idle"
    /\ \E a \in Foremost(p) :
          /\ ~ HeldAction(p, a)
          /\ a \in actions
          /\ \/ /\ batch' = [batch EXCEPT ![p] = @ \ {a}]
                /\ UNCHANGED work
             \/ /\ work' = [work EXCEPT ![p] = [Idle EXCEPT !.step = "recorded", !.action = a]]
                /\ UNCHANGED batch
    /\ UNCHANGED <<published, mode, version, rows, issued>>

CommitAction(p) ==
    /\ work[p].step = "recorded"
    /\ work[p].newActions # {}
    /\ actions' = actions \cup work[p].newActions
    /\ work' = [work EXCEPT ![p] = [@ EXCEPT !.newActions = {}]]
    /\ UNCHANGED <<published, mode, version, evaluations, intents, issued, batch>>

-----------------------------------------------------------------------------
(* evaluate_action and record_evaluation.                                  *)

\* The gate is_entry: a sale is never copied as a short.
IsEntry(a) == \A f \in a : BucketOf[f] \in EntryBuckets

\* Only entries qualify.  The other gates and the sizing depend on the
\* market and the portfolio, and may go either way.
Verdicts(a) == IF IsEntry(a) THEN BOOLEAN ELSE {FALSE}

\* unique (source_action_id, policy_version); nulls are distinct.
Recorded(a, linked) ==
    linked /\ \E e \in evaluations : e.linked /\ e.action = a /\ e.version = version

\* The row of the decision, unless it is there already: then there is no id.
RecordEvaluation(p) ==
    LET a      == work[p].action
        linked == work[p].linked
    IN  /\ work[p].step = "recorded"
        /\ Recorded(a, linked) \/ issued < MaxEvaluations
        /\ issued' = IF Recorded(a, linked) THEN issued ELSE issued + 1
        /\ \E verdict \in Verdicts(a) :
              work' = [work EXCEPT ![p] = [@ EXCEPT !.step = "evaluated", !.newEvaluations =
                  {[id |-> IF Recorded(a, linked) THEN 0 ELSE issued + 1, action |-> a,
                    linked |-> linked, version |-> version, accepted |-> verdict, mode |-> mode]}]]
        /\ UNCHANGED <<published, mode, version, rows, batch>>

\* Faulty variant: an evaluation that was recorded before is enqueued again.
EmitsIntentAgain(ev) == ev.mode = "live" /\ ev.accepted

\* Faulty variant: only a new action is worth an intent.
EmitsIntentIfLinked(ev) == ev.mode = "live" /\ ev.accepted /\ ev.id # 0 /\ ev.linked

\* emit_intent is set for the live mode.
EmitsIntent(ev) == ev.mode = "live" /\ ev.accepted /\ ev.id # 0

\* intent_dedupe_key: the decision, not the attempt.
DecisionOf(ev) == <<ev.action, ev.version>>

\* Faulty variant: the queue is unique by signal.
EnqueuedForSignal(ev) == \E i \in intents : i.signal = ev.id

Enqueued(ev) == \E i \in intents : i.decision = DecisionOf(ev)

HeldDecision(p, ev) ==
    \E q \in Producers \ {p} : \E i \in work[q].newIntents : i.decision = DecisionOf(ev)

\* The rest of record_evaluation: enqueue, on conflict do nothing.
Enqueue(p) ==
    /\ work[p].step = "evaluated"
    /\ \E ev \in work[p].newEvaluations :
          /\ EmitsIntent(ev) => ~ HeldDecision(p, ev)
          /\ work' = [work EXCEPT ![p] = [@ EXCEPT !.step = "decided", !.newIntents =
                 IF EmitsIntent(ev) /\ ~ Enqueued(ev)
                 THEN {[decision |-> DecisionOf(ev), signal |-> ev.id]} ELSE {}]]
    /\ UNCHANGED <<published, mode, version, rows, issued, batch>>

-----------------------------------------------------------------------------
(* The caller's transaction.                                               *)

\* It commits.  A caller that hears nothing of it may evaluate the action
\* again with the id it holds, if by then under another policy or mode.
Commit(p) ==
    LET w == work[p]
    IN  /\ w.step = "decided"
        /\ actions' = actions \cup w.newActions
        /\ evaluations' = evaluations \cup {ev \in w.newEvaluations : ev.id # 0}
        /\ intents' = intents \cup w.newIntents
        /\ \/ /\ work' = [work EXCEPT ![p] = Idle]
              /\ batch' = [batch EXCEPT ![p] = @ \ {w.action}]
           \/ /\ work' = [work EXCEPT ![p] =
                    [Idle EXCEPT !.step = "recorded", !.action = w.action, !.linked = w.linked]]
              /\ UNCHANGED batch
        /\ UNCHANGED <<published, mode, version, issued>>

\* A statement fails or the caller dies: the transaction is rolled back.
Abort(p) ==
    /\ work[p] # Idle \/ batch[p] # {}
    /\ work' = [work EXCEPT ![p] = Idle]
    /\ batch' = [batch EXCEPT ![p] = {}]
    /\ UNCHANGED <<published, mode, version, rows, issued>>

\* An operator changes the mode, or deploys another policy.
Configure ==
    /\ mode' \in Modes
    /\ version' \in Versions
    /\ UNCHANGED <<published, rows, issued, batch, work>>

-----------------------------------------------------------------------------
Produce(p) ==
    \/ Poll(p)
    \/ RecordAction(p) \/ KnownAction(p) \/ CommitAction(p)
    \/ RecordEvaluation(p) \/ Enqueue(p)
    \/ Commit(p) \/ Abort(p)

Next ==
    \/ \E f \in Fills : Publish(f)
    \/ \E p \in Producers : Produce(p)
    \/ Configure

Spec == Init /\ [][Next]_vars

-----------------------------------------------------------------------------
(* Properties.                                                             *)

\* However many producers see an action, crash over it and retry it, there
\* is at most one intent of one decision.
OneIntentPerDecision ==
    \A i, j \in intents : i.decision = j.decision => i = j

\* "An execution intent must be enqueued in the same transaction that records
\* why it exists": each has the accepted evaluation that it names.
IntentHasItsReason ==
    \A i \in intents : \E ev \in evaluations :
        ev.id = i.signal /\ ev.accepted /\ ev.mode = "live" /\ DecisionOf(ev) = i.decision

\* No order is lost: whoever recorded it, and whatever was recorded before,
\* an accepted live evaluation has an intent of its decision.
NoDecisionIsLost ==
    \A ev \in evaluations : ev.accepted /\ ev.mode = "live" =>
        \E i \in intents : i.decision = DecisionOf(ev)

=============================================================================
