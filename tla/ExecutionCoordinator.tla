------------------------ MODULE ExecutionCoordinator ------------------------
(***************************************************************************)
(* apps/executor/src/coordinator.ts, with the instrument locks of          *)
(* packages/execution-domain/src/locks.ts, against ANY venue.              *)
(*                                                                         *)
(* A call is one invocation of dispatch().  JavaScript runs to completion  *)
(* between awaits, so everything from the run-state check to the venue     *)
(* receiving the submit is a single step (Submit), and each continuation   *)
(* after an await is a step of its own.  In between, any other call, the   *)
(* operator, or a restart of the process may run.                          *)
(*                                                                         *)
(* The venue is left open: it may answer anything in Reports, answer       *)
(* ambiguously, or throw.  ClobSimulator composes this module with a venue *)
(* that keeps cash, inventory and depth.                                   *)
(***************************************************************************)
EXTENDS Naturals

CONSTANTS
    Calls,            \* invocations of dispatch()
    Intents,          \* client intent ids
    Instruments,      \* instrument keys: venue, account, condition, token
    InstrumentOf,     \* [Intents -> Instruments]
    Entries,          \* the intents whose side is BUY
    Reports,          \* the execution reports a venue can return, each with its status
    NoIntent, NoReport,
    MaxRestarts       \* bound: restarts that lose the ids already seen

ASSUME InstrumentAssumption == InstrumentOf \in [Intents -> Instruments]
ASSUME EntryAssumption == Entries \subseteq Intents
ASSUME ReportAssumption == NoReport \notin Reports
ASSUME IntentAssumption == NoIntent \notin Intents
ASSUME RestartAssumption == MaxRestarts \in Nat

VARIABLES
    runState,   \* the coordinator's RunState
    locks,      \* instrument keys held in InstrumentLocks
    seen,       \* client intent ids already dispatched
    phase,      \* where each call stands, or its outcome
    arg,        \* the intent each call was given
    report,     \* the report each call holds
    generation, \* how often the process came back without the seen ids
    submitLog   \* every submit the venue was sent, with its generation

coordVars == <<runState, locks, seen, phase, arg, report, generation, submitLog>>

RunStates ==
    {"running", "pause_new_entries", "cancel_open_orders", "reduce_only", "halted"}

InFlightPhases == {"submitting", "answered", "reconciling", "failing"}
SkipReasons == {"instrument_busy", "halted", "entries_paused", "duplicate_intent"}
Outcomes == SkipReasons \cup {"executed", "recovered", "unrecovered", "threw", "lost"}

InFlight(c) == phase[c] \in InFlightPhases
InFlightCalls == {c \in Calls : InFlight(c)}
Submits == [gen : Nat, call : Calls, intent : Intents]

TypeOK ==
    /\ runState \in RunStates
    /\ locks \subseteq Instruments
    /\ seen \subseteq Intents
    /\ phase \in [Calls -> {"idle"} \cup InFlightPhases \cup Outcomes]
    /\ arg \in [Calls -> Intents \cup {NoIntent}]
    /\ report \in [Calls -> Reports \cup {NoReport}]
    /\ generation \in 0..MaxRestarts
    /\ submitLog \subseteq Submits

\* Faulty variant: the default of the state field is forgotten.
InitialRunStateMissing == "undefined"

InitialRunState == "running"

Init ==
    /\ runState = InitialRunState
    /\ locks = {}
    /\ seen = {}
    /\ phase = [c \in Calls |-> "idle"]
    /\ arg = [c \in Calls |-> NoIntent]
    /\ report = [c \in Calls |-> NoReport]
    /\ generation = 0
    /\ submitLog = {}

-----------------------------------------------------------------------------
(* The synchronous prefix of dispatch().                                   *)

HoldsEntries == {"pause_new_entries", "cancel_open_orders", "reduce_only"}

\* Faulty variant: reduce_only forgotten in the list of states that pause.
AdmitsForgetsReduceOnly(i) ==
    /\ runState # "halted"
    /\ ~ (runState \in HoldsEntries \ {"reduce_only"} /\ i \in Entries)

\* Faulty variant: the check for "halted" is lost.
AdmitsWhenHalted(i) == ~ (runState \in HoldsEntries /\ i \in Entries)

\* The two run-state checks at the top of dispatchInner.
Admits(i) ==
    /\ runState # "halted"
    /\ ~ (runState \in HoldsEntries /\ i \in Entries)

Skip(c, i, reason) ==
    /\ phase[c] = "idle"
    /\ phase' = [phase EXCEPT ![c] = reason]
    /\ arg' = [arg EXCEPT ![c] = i]
    /\ UNCHANGED <<runState, locks, seen, report, generation, submitLog>>

SkipHalted(c, i) == runState = "halted" /\ Skip(c, i, "halted")

SkipPaused(c, i) ==
    /\ runState # "halted"
    /\ ~ Admits(i)
    /\ Skip(c, i, "entries_paused")

SkipDuplicate(c, i) ==
    /\ Admits(i)
    /\ i \in seen
    /\ Skip(c, i, "duplicate_intent")

\* Faulty variant: the check sees the lock free even when it is held, as it
\* would if an await stood between the `has` and the `set`.
AcquirableRacy(k) == TRUE

\* tryAcquire: the check and the set happen in the same synchronous block.
Acquirable(k) == k \notin locks

\* A loser is dropped, not queued, and its id is not marked as seen.
SkipBusy(c, i) ==
    /\ Admits(i)
    /\ i \notin seen
    /\ ~ Acquirable(InstrumentOf[i])
    /\ Skip(c, i, "instrument_busy")

\* Faulty variant: the id is marked only when the outcome is known.
MarkSeenLate(i) == UNCHANGED seen

\* seen.add before the await.
MarkSeen(i) == seen' = seen \cup {i}

\* Both checks pass, the lock is taken, the id is marked and the venue gets
\* the submit.  The re-check of `seen` under the lock cannot differ from the
\* first one, as no await separates them.
Submit(c, i) ==
    /\ phase[c] = "idle"
    /\ Admits(i)
    /\ i \notin seen
    /\ Acquirable(InstrumentOf[i])
    /\ locks' = locks \cup {InstrumentOf[i]}
    /\ MarkSeen(i)
    /\ phase' = [phase EXCEPT ![c] = "submitting"]
    /\ arg' = [arg EXCEPT ![c] = i]
    /\ submitLog' = submitLog \cup {[gen |-> generation, call |-> c, intent |-> i]}
    /\ UNCHANGED <<runState, report, generation>>

-----------------------------------------------------------------------------
(* The venue's answer and the continuations after the awaits.              *)

Advance(c, next) ==
    /\ phase' = [phase EXCEPT ![c] = next]
    /\ UNCHANGED <<runState, locks, seen, arg, generation, submitLog>>

VenueAnswers(c, rep) ==
    /\ phase[c] = "submitting"
    /\ report' = [report EXCEPT ![c] = rep]
    /\ Advance(c, "answered")

\* The interface forbids it, but the coordinator must survive a venue that
\* throws from submitIntent.
VenueThrows(c) ==
    /\ phase[c] = "submitting"
    /\ Advance(c, "failing")
    /\ UNCHANGED report

\* Faulty variant: no `finally`, so a call that throws keeps its lock.
SettleLeaky(c, outcome) ==
    /\ phase' = [phase EXCEPT ![c] = outcome]
    /\ locks' = IF outcome = "threw" THEN locks ELSE locks \ {InstrumentOf[arg[c]]}
    /\ UNCHANGED <<runState, seen, arg, generation, submitLog>>

\* Leaving withInstrumentLock, by a return or by a throw: the `finally`
\* releases the key.
Settle(c, outcome) ==
    /\ phase' = [phase EXCEPT ![c] = outcome]
    /\ locks' = locks \ {InstrumentOf[arg[c]]}
    /\ UNCHANGED <<runState, seen, arg, generation, submitLog>>

Ambiguous(rep) == rep.status = "unknown"

Return(c) ==
    /\ phase[c] = "answered"
    /\ ~ Ambiguous(report[c])
    /\ Settle(c, "executed")
    /\ UNCHANGED report

\* An ambiguous answer is never retried: the venue is asked instead.
BeginReconcile(c) ==
    /\ phase[c] = "answered"
    /\ Ambiguous(report[c])
    /\ Advance(c, "reconciling")
    /\ UNCHANGED report

\* `rec` is what reconcile() made of the venue's open orders and fills.
FinishReconcile(c, rec) ==
    /\ phase[c] = "reconciling"
    /\ IF rec = NoReport
       THEN Settle(c, "unrecovered") /\ UNCHANGED report
       ELSE Settle(c, "recovered") /\ report' = [report EXCEPT ![c] = rec]

\* Either query of the Promise.all rejects.
ReconcileThrows(c) ==
    /\ phase[c] = "reconciling"
    /\ Advance(c, "failing")
    /\ UNCHANGED report

\* dispatch() rejects: no outcome is returned and no audit event is sent.
Rethrow(c) ==
    /\ phase[c] = "failing"
    /\ Settle(c, "threw")
    /\ UNCHANGED report

-----------------------------------------------------------------------------
(* The operator and the process.                                           *)

SetRunState(next) ==
    /\ runState' = next
    /\ UNCHANGED <<locks, seen, phase, arg, report, generation, submitLog>>

\* The process dies and a new coordinator is constructed: its locks are
\* empty, its state is "running" whatever it was, and its seen ids are the
\* set the caller supplies, or by default none.
Restart(prior) ==
    /\ prior \in {seen, {}}
    /\ runState' = InitialRunState
    /\ locks' = {}
    /\ seen' = prior
    /\ generation' = IF prior = seen THEN generation ELSE generation + 1
    /\ generation' <= MaxRestarts
    /\ phase' = [c \in Calls |-> IF InFlight(c) THEN "lost" ELSE phase[c]]
    /\ UNCHANGED <<arg, report, submitLog>>

-----------------------------------------------------------------------------
Dispatch(c, i) ==
    \/ SkipHalted(c, i)
    \/ SkipPaused(c, i)
    \/ SkipDuplicate(c, i)
    \/ SkipBusy(c, i)
    \/ Submit(c, i)

\* What the event loop and the venue owe a call that is in flight.
Continue(c) ==
    \/ \E rep \in Reports : VenueAnswers(c, rep)
    \/ VenueThrows(c)
    \/ Return(c)
    \/ BeginReconcile(c)
    \/ \E rec \in Reports \cup {NoReport} : FinishReconcile(c, rec)
    \/ ReconcileThrows(c)
    \/ Rethrow(c)

Next ==
    \/ \E c \in Calls, i \in Intents : Dispatch(c, i)
    \/ \E c \in Calls : Continue(c)
    \/ \E s \in RunStates : SetRunState(s)
    \/ \E prior \in {seen, {}} : Restart(prior)

Spec == Init /\ [][Next]_coordVars

\* The runtime resumes every settled await, and a venue call always ends.
Fairness == \A c \in Calls : WF_coordVars(Continue(c))

FairSpec == Spec /\ Fairness

-----------------------------------------------------------------------------
(* Properties.                                                             *)

\* The v2 race: two concurrent triggers never both have an order in flight
\* on one instrument (within one process; a restart cannot recall a request).
OneFlightPerInstrument ==
    \A c, d \in InFlightCalls :
        InstrumentOf[arg[c]] = InstrumentOf[arg[d]] => c = d

\* No instrument is stranded: a key is held exactly as long as some call is
\* between its acquire and its `finally`, whichever way that call ends.
LocksMatchFlights == locks = {InstrumentOf[arg[c]] : c \in InFlightCalls}

\* An intent reaches the venue at most once between two restarts that lost
\* the seen ids: not after an ambiguous answer, a throw, a busy instrument
\* or a replay.
SubmittedOncePerGeneration ==
    \A x, y \in submitLog : x.gen = y.gen /\ x.intent = y.intent => x = y

\* While the operator leaves the process halted, the set of calls in flight
\* only shrinks; while entries are paused, no BUY joins it.
EmergencyOnlyDrains ==
    [][ LET joined == InFlightCalls' \ InFlightCalls
        IN  /\ runState = "halted" => joined = {}
            /\ runState # "running" => \A c \in joined : arg'[c] \notin Entries
      ]_coordVars

\* Every instrument that is taken becomes tradable again.
InstrumentReopens ==
    \A k \in Instruments : k \in locks ~> k \notin locks

\* What the coordinator implements of DispatchPromise: the slot of an
\* instrument is the intent of the call that holds its lock.
SlotOf(k) ==
    IF k \in locks
    THEN arg[CHOOSE c \in InFlightCalls : InstrumentOf[arg[c]] = k]
    ELSE NoIntent

Gate ==
    IF runState = "running" THEN "all"
    ELSE IF runState = "halted" THEN "none" ELSE "exits"

Promise == INSTANCE DispatchPromise WITH
    slot <- [k \in Instruments |-> SlotOf(k)],
    sent <- seen,
    gate <- Gate,
    Free <- NoIntent

ImplementsPromise == Promise!Spec
=============================================================================
