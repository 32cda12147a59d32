------------------------ MODULE SignalProducerProofs ------------------------
(***************************************************************************)
(* Proofs about SignalProducer, for any producers, fills, policies and     *)
(* callers.  Nothing is assumed of the grouping: that intents are unique   *)
(* by decision and atomic with their reasons rests on the unique keys and  *)
(* the one transaction alone.                                              *)
(***************************************************************************)
EXTENDS SignalProducer, TLAPS

\* An intent that a transaction has not committed is of a decision that no
\* committed intent has, and no other transaction either.
PendingIntentsAreNew ==
    \A p \in Producers :
        /\ \A i, j \in work[p].newIntents : i = j
        /\ \A i \in work[p].newIntents, j \in intents : i.decision # j.decision
        /\ \A q \in Producers \ {p} : \A i \in work[p].newIntents, j \in work[q].newIntents :
              i.decision # j.decision

\* It shares its transaction with its reason.
Justified(w) ==
    \A i \in w.newIntents : \E ev \in w.newEvaluations :
        ev.id # 0 /\ ev.id = i.signal /\ ev.accepted /\ ev.mode = "live" /\ DecisionOf(ev) = i.decision

PendingIntentsHaveReasons == \A p \in Producers : Justified(work[p])

\* A transaction that may commit has enqueued what it decided, or found it
\* in the queue.
Queued(w, queue) ==
    w.step = "decided" =>
        \A ev \in w.newEvaluations : ev.id # 0 /\ ev.accepted /\ ev.mode = "live" =>
            \E i \in queue \cup w.newIntents : i.decision = DecisionOf(ev)

PendingDecisionsAreQueued == \A p \in Producers : Queued(work[p], intents)

\* A transaction holds one evaluation, and enqueues last.
TransactionsAreOrdered ==
    \A p \in Producers :
        /\ \A d, e \in work[p].newEvaluations : d = e
        /\ work[p].step # "decided" => work[p].newIntents = {}

RowsInv ==
    /\ TransactionsAreOrdered
    /\ PendingIntentsAreNew
    /\ PendingIntentsHaveReasons
    /\ PendingDecisionsAreQueued
    /\ OneIntentPerDecision
    /\ IntentHasItsReason
    /\ NoDecisionIsLost

-----------------------------------------------------------------------------
(* Types.                                                                  *)

\* Every action that grouping yields has a fill.
LEMMA GroupsAreActions ==
    ASSUME NEW fills \in SUBSET Fills
    PROVE  Group(fills) \subseteq Actions
<1>1. SUFFICES ASSUME NEW f \in fills
               PROVE  {g \in InBucketOf(fills, f) : SameRun(InBucketOf(fills, f), f, g)} \in Actions
    BY DEF Group
<1>2. f \in InBucketOf(fills, f) /\ InBucketOf(fills, f) \subseteq Fills
    BY DEF InBucketOf
<1>3. SameRun(InBucketOf(fills, f), f, f)
  <2>1. \A h \in Fills : At[h] \in Nat
    BY SignalProducerAssumption
  <2>2. QED
    BY <1>2, <2>1 DEF SameRun
<1>4. QED
    BY <1>2, <1>3 DEF Actions

\* A worker may be idle.
LEMMA IdleIsWork == Idle \in Work
BY DEF Idle, Work

\* The variables have their types at first.
LEMMA TypeOKInit == Init => TypeOK
BY SignalProducerAssumption, IdleIsWork DEF Init, TypeOK, Idle, Modes

\* A producer's record changes to one of its type, with an action if it works.
LEMMA WorkStaysWork ==
    ASSUME TypeOK, NEW p \in Producers, NEW w \in Work,
           w.step # "idle" => w.action # {},
           work' = [work EXCEPT ![p] = w]
    PROVE  /\ work' \in [Producers -> Work]
           /\ \A q \in Producers : work'[q].step # "idle" => work'[q].action # {}
BY DEF TypeOK

\* Every step keeps the types.
LEMMA TypeOKNext == TypeOK /\ [Next]_vars => TypeOK'
<1> SUFFICES ASSUME TypeOK, [Next]_vars
             PROVE  TypeOK'
    OBVIOUS
<1> USE SignalProducerAssumption
<1>1. ASSUME NEW f \in Fills, Publish(f)
      PROVE  TypeOK'
    BY <1>1 DEF TypeOK, Publish, rows
<1>2. ASSUME NEW p \in Producers, Poll(p)
      PROVE  TypeOK'
  <2>1. PICK f \in published :
            batch' = [batch EXCEPT ![p] = Group({g \in published : At[g] >= At[f]})]
    BY <1>2 DEF Poll
  <2>2. Group({g \in published : At[g] >= At[f]}) \subseteq Actions
    BY GroupsAreActions DEF TypeOK
  <2>3. QED
    BY <1>2, <2>1, <2>2 DEF TypeOK, Poll, rows
<1>3. ASSUME NEW p \in Producers, RecordAction(p)
      PROVE  TypeOK'
  <2>1. PICK a \in batch[p] :
            work' = [work EXCEPT ![p] = [Idle EXCEPT !.step = "recorded", !.action = a,
                                            !.linked = TRUE, !.newActions = {a}]]
    BY <1>3 DEF RecordAction, Foremost
  <2>2. a \in Actions
    BY DEF TypeOK
  <2> DEFINE w == [Idle EXCEPT !.step = "recorded", !.action = a, !.linked = TRUE, !.newActions = {a}]
  <2>3. w \in Work /\ w.action # {}
    BY <2>2 DEF Idle, Work, Actions
  <2>4. QED
    BY <1>3, <2>1, <2>3, WorkStaysWork DEF TypeOK, RecordAction, rows
<1>4. ASSUME NEW p \in Producers, KnownAction(p)
      PROVE  TypeOK'
  <2>1. PICK a \in batch[p] :
            \/ batch' = [batch EXCEPT ![p] = @ \ {a}] /\ work' = work
            \/ /\ work' = [work EXCEPT ![p] = [Idle EXCEPT !.step = "recorded", !.action = a]]
               /\ batch' = batch
    BY <1>4 DEF KnownAction, Foremost
  <2>2. a \in Actions
    BY DEF TypeOK
  <2> DEFINE w == [Idle EXCEPT !.step = "recorded", !.action = a]
  <2>3. w \in Work /\ w.action # {}
    BY <2>2 DEF Idle, Work, Actions
  <2>4. QED
    BY <1>4, <2>1, <2>3, WorkStaysWork DEF TypeOK, KnownAction, rows
<1>5. ASSUME NEW p \in Producers, CommitAction(p)
      PROVE  TypeOK'
  <2> DEFINE w == [work[p] EXCEPT !.newActions = {}]
  <2>1. w \in Work /\ (w.step # "idle" => w.action # {}) /\ work[p].newActions \subseteq Actions
    BY DEF TypeOK, Work
  <2>2. work' = [work EXCEPT ![p] = w]
    BY <1>5 DEF TypeOK, CommitAction
  <2>3. QED
    BY <1>5, <2>1, <2>2, WorkStaysWork DEF TypeOK, CommitAction
<1>6. ASSUME NEW p \in Producers, RecordEvaluation(p)
      PROVE  TypeOK'
  <2> DEFINE a == work[p].action
             linked == work[p].linked
             id == IF Recorded(a, linked) THEN 0 ELSE issued + 1
             ev(verdict) == [id |-> id, action |-> a, linked |-> linked, version |-> version,
                             accepted |-> verdict, mode |-> mode]
             w(verdict) == [work[p] EXCEPT !.step = "evaluated", !.newEvaluations = {ev(verdict)}]
  <2>1. work[p] \in Work /\ a \in Actions /\ linked \in BOOLEAN
    BY <1>6 DEF TypeOK, RecordEvaluation, Work, Actions
  <2>2. id \in 0..MaxEvaluations /\ issued' \in 0..MaxEvaluations
    BY <1>6 DEF TypeOK, RecordEvaluation
  <2>3. PICK verdict \in BOOLEAN : work' = [work EXCEPT ![p] = w(verdict)]
    BY <1>6 DEF RecordEvaluation, Verdicts, TypeOK
  <2>4. ev(verdict) \in Evaluation
    BY <2>1, <2>2 DEF Evaluation, TypeOK
  <2>5. w(verdict) \in Work /\ w(verdict).action # {}
    BY <2>1, <2>4 DEF Work, Actions
  <2>6. QED
    BY <1>6, <2>2, <2>3, <2>5, WorkStaysWork DEF TypeOK, RecordEvaluation, rows
<1>7. ASSUME NEW p \in Producers, Enqueue(p)
      PROVE  TypeOK'
  <2> DEFINE new(ev) == IF EmitsIntent(ev) /\ ~ Enqueued(ev)
                        THEN {[decision |-> DecisionOf(ev), signal |-> ev.id]} ELSE {}
             w(ev) == [work[p] EXCEPT !.step = "decided", !.newIntents = new(ev)]
  <2>1. PICK ev \in work[p].newEvaluations : work' = [work EXCEPT ![p] = w(ev)]
    BY <1>7 DEF Enqueue, TypeOK
  <2>2. work[p] \in Work /\ work[p].action # {} /\ ev \in Evaluation
    BY <1>7 DEF TypeOK, Work, Enqueue
  <2>3. new(ev) \subseteq Intent
    BY <2>2 DEF Evaluation, Intent, DecisionOf
  <2>4. w(ev) \in Work /\ w(ev).action # {}
    BY <2>2, <2>3 DEF Work
  <2>5. QED
    BY <1>7, <2>1, <2>4, WorkStaysWork DEF TypeOK, Enqueue, rows
<1>8. ASSUME NEW p \in Producers, Commit(p)
      PROVE  TypeOK'
  <2> DEFINE w == [Idle EXCEPT !.step = "recorded", !.action = work[p].action, !.linked = work[p].linked]
  <2>1. work[p] \in Work /\ work[p].action # {}
    BY <1>8 DEF TypeOK, Commit
  <2>2. w \in Work /\ w.action # {}
    BY <2>1 DEF Idle, Work
  <2>3. work' = [work EXCEPT ![p] = Idle] \/ work' = [work EXCEPT ![p] = w]
    BY <1>8 DEF Commit
  <2>4. /\ work' \in [Producers -> Work]
        /\ \A q \in Producers : work'[q].step # "idle" => work'[q].action # {}
    BY <2>2, <2>3, IdleIsWork, WorkStaysWork DEF Idle
  <2>5. actions' \subseteq Actions /\ evaluations' \subseteq Evaluation /\ intents' \subseteq Intent
    BY <1>8, <2>1 DEF TypeOK, Commit, Work
  <2>6. batch' \in [Producers -> SUBSET Actions]
    BY <1>8 DEF TypeOK, Commit
  <2>7. QED
    BY <1>8, <2>4, <2>5, <2>6 DEF TypeOK, Commit
<1>9. ASSUME NEW p \in Producers, Abort(p)
      PROVE  TypeOK'
  <2>1. /\ work' \in [Producers -> Work]
        /\ \A q \in Producers : work'[q].step # "idle" => work'[q].action # {}
    BY <1>9, IdleIsWork, WorkStaysWork DEF Abort, Idle
  <2>2. QED
    BY <1>9, <2>1 DEF TypeOK, Abort, rows
<1>10. CASE Configure
    BY <1>10 DEF TypeOK, Configure, rows
<1>11. CASE UNCHANGED vars
    BY <1>11 DEF TypeOK, vars, rows
<1>12. QED
    BY <1>1, <1>2, <1>3, <1>4, <1>5, <1>6, <1>7, <1>8, <1>9, <1>10, <1>11 DEF Next, Produce

-----------------------------------------------------------------------------
(* What the rows say of one another.                                       *)

\* Nothing is recorded or open at first.
LEMMA RowsInvInit == Init => RowsInv
BY DEF Init, RowsInv, TransactionsAreOrdered, PendingIntentsAreNew, PendingIntentsHaveReasons,
       PendingDecisionsAreQueued, Justified, Queued, OneIntentPerDecision, IntentHasItsReason,
       NoDecisionIsLost, Idle

\* A step that writes no evaluation and no intent, and has none pending but
\* where it changed nothing.
LEMMA QuietStepKeepsRowsInv ==
    ASSUME RowsInv,
           evaluations' = evaluations, intents' = intents,
           \A q \in Producers :
              \/ work'[q] = work[q]
              \/ /\ work'[q].step # "decided"
                 /\ work'[q].newIntents = {}
                 /\ \A d, e \in work'[q].newEvaluations : d = e
    PROVE  RowsInv'
<1>1. TransactionsAreOrdered'
    BY DEF RowsInv, TransactionsAreOrdered
<1>2. \A q \in Producers : work'[q] = work[q] \/ work'[q].newIntents = {}
    OBVIOUS
<1>3. PendingIntentsAreNew'
  <2>1. \A q \in Producers : \A i \in work'[q].newIntents : i \in work[q].newIntents
    BY <1>2
  <2>2. QED
    BY <2>1 DEF RowsInv, PendingIntentsAreNew
<1>4. PendingIntentsHaveReasons' /\ PendingDecisionsAreQueued'
  <2> SUFFICES ASSUME NEW q \in Producers
               PROVE  Justified(work'[q]) /\ Queued(work'[q], intents)
    BY DEF PendingIntentsHaveReasons, PendingDecisionsAreQueued
  <2>1. CASE work'[q] = work[q]
    BY <2>1 DEF RowsInv, PendingIntentsHaveReasons, PendingDecisionsAreQueued
  <2>2. CASE work'[q].step # "decided" /\ work'[q].newIntents = {}
    BY <2>2 DEF Justified, Queued
  <2>3. QED
    BY <2>1, <2>2
<1>5. OneIntentPerDecision' /\ IntentHasItsReason' /\ NoDecisionIsLost'
    BY DEF RowsInv, OneIntentPerDecision, IntentHasItsReason, NoDecisionIsLost, DecisionOf
<1>6. QED
    BY <1>1, <1>3, <1>4, <1>5 DEF RowsInv

\* The unique key is checked against the committed rows, and waits for the
\* uncommitted ones.
LEMMA EnqueueKeepsRowsInv ==
    ASSUME TypeOK, RowsInv, NEW p \in Producers, Enqueue(p)
    PROVE  RowsInv'
<1> DEFINE new(ev) == IF EmitsIntent(ev) /\ ~ Enqueued(ev)
                      THEN {[decision |-> DecisionOf(ev), signal |-> ev.id]} ELSE {}
<1>1. PICK ev \in work[p].newEvaluations :
          /\ EmitsIntent(ev) => ~ HeldDecision(p, ev)
          /\ work' = [work EXCEPT ![p] = [@ EXCEPT !.step = "decided", !.newIntents = new(ev)]]
    BY DEF Enqueue
<1>2. /\ work'[p] = [work[p] EXCEPT !.step = "decided", !.newIntents = new(ev)]
      /\ \A q \in Producers \ {p} : work'[q] = work[q]
    BY <1>1 DEF TypeOK
<1>3. /\ work'[p].newEvaluations = work[p].newEvaluations
      /\ work'[p].newIntents = new(ev)
    BY <1>2 DEF TypeOK, Work
<1>4. evaluations' = evaluations /\ intents' = intents
    BY DEF Enqueue, rows
<1>5. TransactionsAreOrdered'
  <2>1. work'[p].step = "decided"
    BY <1>2 DEF TypeOK, Work
  <2>2. QED
    BY <1>2, <1>3, <2>1 DEF RowsInv, TransactionsAreOrdered
<1>6. \A i \in new(ev) :
          /\ i = [decision |-> DecisionOf(ev), signal |-> ev.id]
          /\ EmitsIntent(ev) /\ ~ Enqueued(ev)
    OBVIOUS
<1>7. PendingIntentsAreNew'
  <2>1. \A i, j \in work'[p].newIntents : i = j
    BY <1>3
  <2>2. \A i \in work'[p].newIntents, j \in intents : i.decision # j.decision
    BY <1>3, <1>6 DEF Enqueued
  <2>3. \A q \in Producers \ {p} : \A i \in work'[p].newIntents, j \in work'[q].newIntents :
            i.decision # j.decision
    BY <1>1, <1>2, <1>3, <1>6 DEF HeldDecision
  <2>4. \A q \in Producers \ {p} : \A r \in Producers \ {q} :
            \A i \in work'[q].newIntents, j \in work'[r].newIntents : i.decision # j.decision
    <3> SUFFICES ASSUME NEW q \in Producers \ {p}, NEW r \in Producers \ {q},
                        NEW i \in work'[q].newIntents, NEW j \in work'[r].newIntents
                 PROVE  i.decision # j.decision
        OBVIOUS
    <3>1. CASE r = p
        BY <2>3, <3>1
    <3>2. CASE r # p
        BY <1>2, <3>2 DEF RowsInv, PendingIntentsAreNew
    <3>3. QED
        BY <3>1, <3>2
  <2>5. \A q \in Producers \ {p} :
            /\ \A i, j \in work'[q].newIntents : i = j
            /\ \A i \in work'[q].newIntents, j \in intents : i.decision # j.decision
    BY <1>2 DEF RowsInv, PendingIntentsAreNew
  <2>6. QED
    BY <1>4, <2>1, <2>2, <2>3, <2>4, <2>5 DEF PendingIntentsAreNew
<1>8. PendingIntentsHaveReasons'
  <2>1. Justified(work'[p])
    BY <1>3, <1>6 DEF Justified, EmitsIntent
  <2>2. QED
    BY <1>2, <2>1 DEF RowsInv, PendingIntentsHaveReasons
<1>9. PendingDecisionsAreQueued'
  <2>1. ASSUME ev.id # 0, ev.accepted, ev.mode = "live"
        PROVE  \E i \in intents \cup new(ev) : i.decision = DecisionOf(ev)
    <3>1. CASE Enqueued(ev)
        BY <3>1 DEF Enqueued
    <3>2. CASE ~ Enqueued(ev)
      <4> DEFINE i == [decision |-> DecisionOf(ev), signal |-> ev.id]
      <4>1. EmitsIntent(ev)
        BY <2>1 DEF EmitsIntent
      <4>2. new(ev) = {i}
        BY <3>2, <4>1
      <4>3. i.decision = DecisionOf(ev)
        OBVIOUS
      <4> HIDE DEF i, new
      <4>4. QED
        BY <4>2, <4>3
    <3>3. QED
        BY <3>1, <3>2
  <2>2. \A e \in work'[p].newEvaluations : e = ev
    BY <1>3 DEF RowsInv, TransactionsAreOrdered
  <2>3. Queued(work'[p], intents)
    BY <1>3, <2>1, <2>2 DEF Queued
  <2>4. QED
    BY <1>2, <1>4, <2>3 DEF RowsInv, PendingDecisionsAreQueued
<1>10. OneIntentPerDecision' /\ IntentHasItsReason' /\ NoDecisionIsLost'
    BY <1>4 DEF RowsInv, OneIntentPerDecision, IntentHasItsReason, NoDecisionIsLost, DecisionOf
<1>11. QED
    BY <1>5, <1>7, <1>8, <1>9, <1>10 DEF RowsInv

\* What commits is the evaluation and its intent together.
LEMMA CommitKeepsRowsInv ==
    ASSUME TypeOK, RowsInv, NEW p \in Producers, Commit(p)
    PROVE  RowsInv'
<1>1. /\ work[p].step = "decided"
      /\ evaluations' = evaluations \cup {ev \in work[p].newEvaluations : ev.id # 0}
      /\ intents' = intents \cup work[p].newIntents
    BY DEF Commit
<1>2. /\ work'[p].step # "decided" /\ work'[p].newIntents = {} /\ work'[p].newEvaluations = {}
      /\ \A q \in Producers \ {p} : work'[q] = work[q]
  <2> DEFINE w == [Idle EXCEPT !.step = "recorded", !.action = work[p].action, !.linked = work[p].linked]
  <2>1. work' = [work EXCEPT ![p] = Idle] \/ work' = [work EXCEPT ![p] = w]
    BY DEF Commit
  <2>2. /\ Idle.step # "decided" /\ Idle.newIntents = {} /\ Idle.newEvaluations = {}
        /\ w.step # "decided" /\ w.newIntents = {} /\ w.newEvaluations = {}
    BY DEF Idle
  <2> HIDE DEF w
  <2>3. (work'[p] = Idle \/ work'[p] = w) /\ \A q \in Producers \ {p} : work'[q] = work[q]
    BY <2>1 DEF TypeOK
  <2>4. QED
    BY <2>2, <2>3
<1>3. TransactionsAreOrdered'
    BY <1>2 DEF RowsInv, TransactionsAreOrdered
<1>4. PendingIntentsAreNew'
    BY <1>1, <1>2 DEF RowsInv, PendingIntentsAreNew
<1>5. PendingIntentsHaveReasons'
    BY <1>2 DEF RowsInv, PendingIntentsHaveReasons, Justified
<1>6. PendingDecisionsAreQueued'
    BY <1>1, <1>2 DEF RowsInv, PendingDecisionsAreQueued, Queued
<1>7. OneIntentPerDecision'
    BY <1>1 DEF RowsInv, OneIntentPerDecision, PendingIntentsAreNew
<1>8. IntentHasItsReason'
    BY <1>1 DEF RowsInv, IntentHasItsReason, PendingIntentsHaveReasons, Justified, DecisionOf
<1>9. NoDecisionIsLost'
    BY <1>1 DEF RowsInv, NoDecisionIsLost, PendingDecisionsAreQueued, Queued, DecisionOf
<1>10. QED
    BY <1>3, <1>4, <1>5, <1>6, <1>7, <1>8, <1>9 DEF RowsInv

\* Every step preserves the invariant of the rows.
LEMMA RowsInvNext == TypeOK /\ RowsInv /\ [Next]_vars => RowsInv'
<1> SUFFICES ASSUME TypeOK, RowsInv, [Next]_vars
             PROVE  RowsInv'
    OBVIOUS
<1> USE QuietStepKeepsRowsInv
<1>1. ASSUME NEW f \in Fills, Publish(f)
      PROVE  RowsInv'
    BY <1>1 DEF Publish, rows
<1>2. ASSUME NEW p \in Producers, Poll(p)
      PROVE  RowsInv'
    BY <1>2 DEF Poll, rows
<1>3. ASSUME NEW p \in Producers, RecordAction(p)
      PROVE  RowsInv'
    BY <1>3 DEF RecordAction, rows, Idle, TypeOK
<1>4. ASSUME NEW p \in Producers, KnownAction(p)
      PROVE  RowsInv'
  <2>1. PICK a : work' = work \/ work' = [work EXCEPT ![p] = [Idle EXCEPT !.step = "recorded", !.action = a]]
    BY <1>4 DEF KnownAction
  <2> DEFINE w == [Idle EXCEPT !.step = "recorded", !.action = a]
  <2>2. w.step # "decided" /\ w.newIntents = {} /\ w.newEvaluations = {}
    BY DEF Idle
  <2> HIDE DEF w
  <2>3. \A q \in Producers : work'[q] = work[q] \/ work'[q] = w
    BY <2>1 DEF TypeOK, w
  <2>4. evaluations' = evaluations /\ intents' = intents
    BY <1>4 DEF KnownAction, rows
  <2>5. QED
    BY <2>2, <2>3, <2>4
<1>5. ASSUME NEW p \in Producers, CommitAction(p)
      PROVE  RowsInv'
  <2>1. /\ work'[p] = [work[p] EXCEPT !.newActions = {}]
        /\ \A q \in Producers \ {p} : work'[q] = work[q]
    BY <1>5 DEF CommitAction, TypeOK
  <2>2. /\ work'[p].step # "decided" /\ work'[p].newIntents = {}
        /\ \A d, e \in work'[p].newEvaluations : d = e
    BY <1>5, <2>1 DEF CommitAction, TypeOK, Work, RowsInv, TransactionsAreOrdered
  <2>3. QED
    BY <1>5, <2>1, <2>2 DEF CommitAction
<1>6. ASSUME NEW p \in Producers, RecordEvaluation(p)
      PROVE  RowsInv'
  <2>1. PICK ev : work' = [work EXCEPT ![p] = [@ EXCEPT !.step = "evaluated", !.newEvaluations = {ev}]]
    BY <1>6 DEF RecordEvaluation
  <2> DEFINE w == [work[p] EXCEPT !.step = "evaluated", !.newEvaluations = {ev}]
  <2>2. /\ work'[p].step # "decided" /\ work'[p].newIntents = {} /\ work'[p].newEvaluations = {ev}
        /\ \A q \in Producers \ {p} : work'[q] = work[q]
    <3>1. work'[p] = w /\ \A q \in Producers \ {p} : work'[q] = work[q]
      BY <2>1 DEF TypeOK
    <3>2. work[p] \in Work
      BY DEF TypeOK
    <3>3. work[p].newIntents = {}
      BY <1>6 DEF RecordEvaluation, RowsInv, TransactionsAreOrdered
    <3>4. w.step = "evaluated" /\ w.newEvaluations = {ev} /\ w.newIntents = work[p].newIntents
      BY <3>2 DEF Work
    <3> HIDE DEF w
    <3>5. QED
      BY <3>1, <3>3, <3>4
  <2>3. evaluations' = evaluations /\ intents' = intents
    BY <1>6 DEF RecordEvaluation, rows
  <2>4. QED
    BY <2>2, <2>3
<1>7. ASSUME NEW p \in Producers, Enqueue(p)
      PROVE  RowsInv'
    BY <1>7, EnqueueKeepsRowsInv
<1>8. ASSUME NEW p \in Producers, Commit(p)
      PROVE  RowsInv'
    BY <1>8, CommitKeepsRowsInv
<1>9. ASSUME NEW p \in Producers, Abort(p)
      PROVE  RowsInv'
    BY <1>9 DEF Abort, rows, Idle, TypeOK
<1>10. CASE Configure
    BY <1>10 DEF Configure, rows
<1>11. CASE UNCHANGED vars
    BY <1>11 DEF vars, rows
<1>12. QED
    BY <1>1, <1>2, <1>3, <1>4, <1>5, <1>6, <1>7, <1>8, <1>9, <1>10, <1>11 DEF Next, Produce

-----------------------------------------------------------------------------
(* Theorems.                                                               *)

\* The rows, and what every open transaction adds to them, keep their types
\* for any wallet, window and number of producers.
THEOREM ProducerTypeOK == Spec => []TypeOK
<1>1. QED
    BY TypeOKInit, TypeOKNext, PTL DEF Spec

\* The invariant behind the three theorems below, of the rows and of the
\* transactions that are open.
THEOREM RowsAgree == Spec => []RowsInv
<1>1. QED
    BY ProducerTypeOK, RowsInvInit, RowsInvNext, PTL DEF Spec

\* Neither a replay, nor a retry, nor a second producer enqueues an intent
\* of a decision that has one.
THEOREM IntentsAreUnique == Spec => []OneIntentPerDecision
<1>1. RowsInv => OneIntentPerDecision
    BY DEF RowsInv
<1>2. QED
    BY <1>1, RowsAgree, PTL

\* An intent and the evaluation that justifies it stand and fall together.
THEOREM IntentsHaveReasons == Spec => []IntentHasItsReason
<1>1. RowsInv => IntentHasItsReason
    BY DEF RowsInv
<1>2. QED
    BY <1>1, RowsAgree, PTL

\* No crash and no conflict loses the intent of an accepted live evaluation.
THEOREM DecisionsAreKept == Spec => []NoDecisionIsLost
<1>1. RowsInv => NoDecisionIsLost
    BY DEF RowsInv
<1>2. QED
    BY <1>1, RowsAgree, PTL
=============================================================================
