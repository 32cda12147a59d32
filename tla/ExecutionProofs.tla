--------------------------- MODULE ExecutionProofs ---------------------------
(***************************************************************************)
(* Theorems about the execution path: ExecutionCoordinator, for any number *)
(* of calls, intents, instruments and restarts and for any venue; and the  *)
(* two venues composed with it, ClobSimulator for any books, terms, cash   *)
(* and fee, and PolymarketVenue for any order size and any answers of the  *)
(* exchange.                                                               *)
(*                                                                         *)
(* No safety invariant is inductive alone.  That two calls never share an  *)
(* instrument rests on every in-flight call holding its lock, and that an  *)
(* intent is submitted once on the ids of this generation being in `seen`  *)
(* (Inductive).  What the venues guarantee rests on their orders and fills *)
(* being consistent and on what a reconciling call was told having been    *)
(* true when it was told (VenueTyped, FillsAddUp, AnswersArePast), to      *)
(* which each adds its own: SimInductive, LiveInductive and LiveTruth.     *)
(***************************************************************************)
EXTENDS ClobSimulator, PolymarketVenue, SumTheorems

-----------------------------------------------------------------------------
(* The coordinator.                                                        *)

\* Every in-flight call was given an intent.
FlightsHaveIntents == \A c \in InFlightCalls : arg[c] \in Intents

\* No submit is of a later generation, and the ids submitted in this one
\* are remembered.
SubmitsAreSeen ==
    \A x \in submitLog :
        /\ x.gen <= generation
        /\ x.gen = generation => x.intent \in seen

Inductive ==
    /\ TypeOK
    /\ FlightsHaveIntents
    /\ OneFlightPerInstrument
    /\ LocksMatchFlights
    /\ SubmitsAreSeen
    /\ SubmittedOncePerGeneration

USE DEF InFlight, InFlightCalls, InFlightPhases

\* The initial state satisfies the inductive invariant.
LEMMA InitInductive == Init => Inductive
BY RestartAssumption
DEF Init, InitialRunState, Inductive, TypeOK, FlightsHaveIntents, OneFlightPerInstrument, LocksMatchFlights,
    SubmitsAreSeen, SubmittedOncePerGeneration, RunStates

\* What every step that leaves the in-flight calls as they are preserves: a
\* skip, a change of run state, or a move between in-flight phases.
LEMMA SameFlightsPreserve ==
    ASSUME Inductive, TypeOK',
           UNCHANGED <<locks, seen, generation, submitLog>>,
           InFlightCalls' = InFlightCalls,
           \A c \in InFlightCalls : arg'[c] = arg[c]
    PROVE  Inductive'
BY DEF Inductive, TypeOK, FlightsHaveIntents, OneFlightPerInstrument, LocksMatchFlights,
       SubmitsAreSeen, SubmittedOncePerGeneration

\* A submit adds one in-flight call, on an instrument that had none, and one
\* intent that was not yet seen.
LEMMA SubmitPreserves ==
    ASSUME Inductive, NEW c \in Calls, NEW i \in Intents, Submit(c, i)
    PROVE  Inductive'
<1>1. TypeOK'
  BY InstrumentAssumption DEF Submit, Inductive, TypeOK, MarkSeen, Submits
<1>2. InFlightCalls' = InFlightCalls \cup {c} /\ c \notin InFlightCalls
  BY DEF Submit, Inductive, TypeOK
<1>3. arg'[c] = i /\ \A d \in InFlightCalls : arg'[d] = arg[d]
  BY <1>2 DEF Submit, Inductive, TypeOK
<1>4. InstrumentOf[i] \notin locks /\ locks' = locks \cup {InstrumentOf[i]}
  BY DEF Submit, Acquirable
<1>5. FlightsHaveIntents' /\ OneFlightPerInstrument' /\ LocksMatchFlights'
  BY <1>2, <1>3, <1>4 DEF Inductive, FlightsHaveIntents, OneFlightPerInstrument, LocksMatchFlights
<1>6. SubmitsAreSeen' /\ SubmittedOncePerGeneration'
  BY DEF Submit, MarkSeen, Inductive, TypeOK, SubmitsAreSeen, SubmittedOncePerGeneration, Submits
<1> QED  BY <1>1, <1>5, <1>6 DEF Inductive

\* Settling removes one in-flight call and exactly its lock.
LEMMA SettlePreserves ==
    ASSUME Inductive, TypeOK', NEW c \in InFlightCalls, NEW outcome \in Outcomes,
           Settle(c, outcome)
    PROVE  Inductive'
<1>1. InFlightCalls' = InFlightCalls \ {c}
  BY DEF Settle, Inductive, TypeOK, Outcomes, SkipReasons
<1>2. FlightsHaveIntents' /\ OneFlightPerInstrument'
  BY <1>1 DEF Settle, Inductive, FlightsHaveIntents, OneFlightPerInstrument
<1>3. \A d \in InFlightCalls \ {c} : InstrumentOf[arg[d]] # InstrumentOf[arg[c]]
  BY DEF Inductive, OneFlightPerInstrument
<1>4. LocksMatchFlights'
  BY <1>1, <1>3 DEF Settle, Inductive, LocksMatchFlights
<1>5. SubmitsAreSeen' /\ SubmittedOncePerGeneration'
  BY DEF Settle, Inductive, SubmitsAreSeen, SubmittedOncePerGeneration
<1> QED  BY <1>2, <1>4, <1>5 DEF Inductive

\* A restart leaves no call in flight, and either keeps the seen ids or
\* opens a generation in which nothing has been submitted.
LEMMA RestartPreserves ==
    ASSUME Inductive, NEW prior \in {seen, {}}, Restart(prior)
    PROVE  Inductive'
<1>1. TypeOK'
  BY RestartAssumption DEF Restart, InitialRunState, Inductive, TypeOK, RunStates, Outcomes
<1>2. InFlightCalls' = {}
  BY DEF Restart
<1>3. FlightsHaveIntents' /\ OneFlightPerInstrument' /\ LocksMatchFlights'
  BY <1>2 DEF Restart, FlightsHaveIntents, OneFlightPerInstrument, LocksMatchFlights
<1>4. SubmitsAreSeen' /\ SubmittedOncePerGeneration'
  BY RestartAssumption
  DEF Restart, Inductive, TypeOK, SubmitsAreSeen, SubmittedOncePerGeneration, Submits
<1> QED  BY <1>1, <1>3, <1>4 DEF Inductive

\* A skipped call was not in flight and does not become so.
LEMMA SkipPreserves ==
    ASSUME Inductive, NEW c \in Calls, NEW i \in Intents, NEW reason \in SkipReasons,
           Skip(c, i, reason)
    PROVE  Inductive'
<1>1. TypeOK'
  BY DEF Skip, Inductive, TypeOK, Outcomes
<1>2. InFlightCalls' = InFlightCalls /\ c \notin InFlightCalls
  BY DEF Skip, Inductive, TypeOK, SkipReasons
<1>3. \A d \in InFlightCalls : arg'[d] = arg[d]
  BY <1>2 DEF Skip, Inductive, TypeOK
<1> QED  BY <1>1, <1>2, <1>3, SameFlightsPreserve DEF Skip

\* Moving between in-flight phases keeps the set of in-flight calls.
LEMMA AdvancePreserves ==
    ASSUME Inductive, NEW c \in InFlightCalls, NEW next \in InFlightPhases,
           Advance(c, next), report' \in [Calls -> Reports \cup {NoReport}]
    PROVE  Inductive'
<1>1. TypeOK'
  BY DEF Advance, Inductive, TypeOK
<1>2. InFlightCalls' = InFlightCalls
  BY DEF Advance, Inductive, TypeOK
<1> QED  BY <1>1, <1>2, SameFlightsPreserve DEF Advance

\* Every continuation of a call preserves the invariant.
LEMMA ContinuePreserves ==
    ASSUME Inductive, NEW c \in Calls, Continue(c)
    PROVE  Inductive'
<1> USE DEF Outcomes, SkipReasons
<1>1. CASE \E rep \in Reports : VenueAnswers(c, rep)
  <2>1. report' \in [Calls -> Reports \cup {NoReport}]
    BY <1>1 DEF VenueAnswers, Inductive, TypeOK
  <2> QED  BY <1>1, <2>1, AdvancePreserves DEF VenueAnswers
<1>2. CASE VenueThrows(c) \/ BeginReconcile(c) \/ ReconcileThrows(c)
  <2>1. report' \in [Calls -> Reports \cup {NoReport}]
    BY <1>2 DEF VenueThrows, BeginReconcile, ReconcileThrows, Inductive, TypeOK
  <2> QED  BY <1>2, <2>1, AdvancePreserves DEF VenueThrows, BeginReconcile, ReconcileThrows
<1>3. CASE Return(c) \/ Rethrow(c)
  <2>1. TypeOK'
    BY <1>3 DEF Return, Rethrow, Settle, Inductive, TypeOK
  <2> QED  BY <1>3, <2>1, SettlePreserves DEF Return, Rethrow
<1>4. CASE \E rec \in Reports \cup {NoReport} : FinishReconcile(c, rec)
  <2>1. PICK rec \in Reports \cup {NoReport} : FinishReconcile(c, rec)
    BY <1>4
  <2>2. TypeOK'
    BY <2>1 DEF FinishReconcile, Settle, Inductive, TypeOK
  <2> QED  BY <2>1, <2>2, SettlePreserves DEF FinishReconcile
<1> QED  BY <1>1, <1>2, <1>3, <1>4 DEF Continue

\* Every step of the coordinator, and every stutter, preserves the invariant.
LEMMA StepPreserves ==
    ASSUME Inductive, [Next]_coordVars
    PROVE  Inductive'
<1>1. ASSUME NEW c \in Calls, NEW i \in Intents, Dispatch(c, i)
      PROVE  Inductive'
  BY <1>1, SkipPreserves, SubmitPreserves
  DEF Dispatch, SkipHalted, SkipPaused, SkipDuplicate, SkipBusy, SkipReasons
<1>2. ASSUME NEW c \in Calls, Continue(c)
      PROVE  Inductive'
  BY <1>2, ContinuePreserves
<1>3. ASSUME NEW s \in RunStates, SetRunState(s)
      PROVE  Inductive'
  <2>1. TypeOK'
    BY <1>3 DEF SetRunState, Inductive, TypeOK
  <2> QED  BY <1>3, <2>1, SameFlightsPreserve DEF SetRunState
<1>4. ASSUME NEW prior \in {seen, {}}, Restart(prior)
      PROVE  Inductive'
  BY <1>4, RestartPreserves
<1>5. CASE UNCHANGED coordVars
  <2>1. TypeOK'
    BY <1>5 DEF coordVars, Inductive, TypeOK
  <2> QED  BY <1>5, <2>1, SameFlightsPreserve DEF coordVars
<1> QED  BY <1>1, <1>2, <1>3, <1>4, <1>5 DEF Next

\* Every reachable state of the coordinator satisfies the inductive invariant.
THEOREM AlwaysInductive == Spec => []Inductive
<1>1. Init => Inductive
  BY InitInductive
<1>2. Inductive /\ [Next]_coordVars => Inductive'
  BY StepPreserves
<1> QED  BY <1>1, <1>2, PTL DEF Spec

\* The variables of the coordinator keep their types.
THEOREM CoordinatorTypeOK == Spec => []TypeOK
<1>1. Inductive => TypeOK
  BY DEF Inductive
<1> QED  BY <1>1, AlwaysInductive, PTL

\* The v2 race cannot happen: with any number of concurrent triggers, at
\* most one order is in flight on an instrument.
THEOREM NeverTwoFlights == Spec => []OneFlightPerInstrument
<1>1. Inductive => OneFlightPerInstrument
  BY DEF Inductive
<1> QED  BY <1>1, AlwaysInductive, PTL

\* No path out of dispatch strands an instrument.
THEOREM NeverStrandsALock == Spec => []LocksMatchFlights
<1>1. Inductive => LocksMatchFlights
  BY DEF Inductive
<1> QED  BY <1>1, AlwaysInductive, PTL

\* An ambiguous answer, a throw or a replay never resubmits an intent.
THEOREM NeverResubmits == Spec => []SubmittedOncePerGeneration
<1>1. Inductive => SubmittedOncePerGeneration
  BY DEF Inductive
<1> QED  BY <1>1, AlwaysInductive, PTL

-----------------------------------------------------------------------------
(* The emergency states.                                                   *)

\* Only a submit puts a call in flight, and it does so only when the run
\* state admits the intent.
LEMMA OnlySubmitsJoin ==
    ASSUME Inductive, [Next]_coordVars, NEW c \in InFlightCalls' \ InFlightCalls
    PROVE  Admits(arg'[c])
<1> USE DEF Outcomes, SkipReasons
<1>1. ASSUME NEW d \in Calls, NEW i \in Intents, Dispatch(d, i)
      PROVE  Admits(arg'[c])
  <2>1. CASE Submit(d, i)
    <3>1. c = d
      BY <2>1 DEF Submit, Inductive, TypeOK
    <3> QED  BY <2>1, <3>1 DEF Submit, Inductive, TypeOK
  <2>2. ASSUME NEW reason \in SkipReasons, Skip(d, i, reason)
        PROVE  FALSE
    BY <2>2 DEF Skip, Inductive, TypeOK
  <2> QED
    BY <1>1, <2>1, <2>2 DEF Dispatch, SkipHalted, SkipPaused, SkipDuplicate, SkipBusy
<1>2. ASSUME NEW d \in Calls, Continue(d)
      PROVE  FALSE
  <2>1. d \in InFlightCalls
    BY <1>2 DEF Continue, VenueAnswers, VenueThrows, Return, BeginReconcile,
                FinishReconcile, ReconcileThrows, Rethrow
  <2>2. \A e \in Calls \ {d} : phase'[e] = phase[e]
    BY <1>2 DEF Continue, VenueAnswers, VenueThrows, Return, BeginReconcile, FinishReconcile,
                ReconcileThrows, Rethrow, Settle, Advance, Inductive, TypeOK
  <2> QED  BY <2>1, <2>2
<1>3. CASE UNCHANGED coordVars \/ \E s \in RunStates : SetRunState(s)
  BY <1>3 DEF coordVars, SetRunState
<1>4. CASE \E prior \in {seen, {}} : Restart(prior)
  BY <1>4 DEF Restart
<1> QED  BY <1>1, <1>2, <1>3, <1>4 DEF Next

\* The kill switch holds: nothing joins the calls in flight while the
\* process is halted, and no entry does in any state but "running".
THEOREM EmergencyHolds == Spec => EmergencyOnlyDrains
<1> DEFINE Drains ==
        LET joined == InFlightCalls' \ InFlightCalls
        IN  /\ runState = "halted" => joined = {}
            /\ runState # "running" => \A c \in joined : arg'[c] \notin Entries
<1>1. Inductive /\ [Next]_coordVars => Drains
  <2>1. SUFFICES ASSUME Inductive, [Next]_coordVars  PROVE Drains
    OBVIOUS
  <2>2. \A c \in InFlightCalls' \ InFlightCalls : Admits(arg'[c])
    BY <2>1, OnlySubmitsJoin
  <2> QED  BY <2>1, <2>2 DEF Admits, HoldsEntries, Inductive, TypeOK, RunStates
<1>2. Inductive /\ [Next]_coordVars => [Drains]_coordVars
  BY <1>1
<1>3. Spec => [][Inductive /\ [Next]_coordVars]_coordVars
  BY AlwaysInductive, PTL DEF Spec
<1> QED  BY <1>2, <1>3, PTL DEF EmergencyOnlyDrains

-----------------------------------------------------------------------------
(* The coordinator implements DispatchPromise.                             *)

Slot == [k \in Instruments |-> SlotOf(k)]

\* The slot of an instrument is the intent of the one call in flight on it,
\* and a slot is free exactly when its lock is.
SlotsAreFlights ==
    /\ \A c \in InFlightCalls : Slot[InstrumentOf[arg[c]]] = arg[c]
    /\ \A k \in Instruments \ locks : Slot[k] = NoIntent
    /\ \A k \in locks : \E c \in InFlightCalls : InstrumentOf[arg[c]] = k

\* The inductive invariant makes the refinement mapping well defined.
LEMMA MappingIsDefined == Inductive => SlotsAreFlights
<1> SUFFICES ASSUME Inductive  PROVE SlotsAreFlights
  OBVIOUS
<1>1. ASSUME NEW c \in InFlightCalls
      PROVE  Slot[InstrumentOf[arg[c]]] = arg[c]
  <2> DEFINE k == InstrumentOf[arg[c]]
             d == CHOOSE e \in InFlightCalls : InstrumentOf[arg[e]] = k
  <2>1. k \in Instruments /\ k \in locks
    BY InstrumentAssumption DEF Inductive, FlightsHaveIntents, LocksMatchFlights
  <2>2. d \in InFlightCalls /\ InstrumentOf[arg[d]] = k
    OBVIOUS
  <2>3. d = c
    BY <2>2 DEF Inductive, OneFlightPerInstrument
  <2> QED  BY <2>1, <2>3 DEF Slot, SlotOf
<1>2. \A k \in Instruments \ locks : Slot[k] = NoIntent
  BY DEF Slot, SlotOf
<1>3. \A k \in locks : \E c \in InFlightCalls : InstrumentOf[arg[c]] = k
  BY DEF Inductive, LocksMatchFlights
<1> QED  BY <1>1, <1>2, <1>3 DEF SlotsAreFlights

\* A step that keeps the locks, the in-flight calls and their intents keeps
\* every slot.
LEMMA SameFlightsSameSlots ==
    ASSUME SlotsAreFlights, SlotsAreFlights', locks' = locks,
           InFlightCalls' = InFlightCalls,
           \A c \in InFlightCalls : arg'[c] = arg[c]
    PROVE  Slot' = Slot
<1>1. \A k \in Instruments : Slot'[k] = Slot[k]
  BY DEF SlotsAreFlights
<1> QED  BY <1>1 DEF Slot

\* A submit fills the slot of its instrument.
LEMMA SubmitSends ==
    ASSUME Inductive, SlotsAreFlights, SlotsAreFlights',
           NEW c \in Calls, NEW i \in Intents, Submit(c, i)
    PROVE  Promise!Send(i)
<1>1. InFlightCalls' = InFlightCalls \cup {c} /\ c \notin InFlightCalls
  BY DEF Submit, Inductive, TypeOK
<1>2. arg'[c] = i /\ \A d \in InFlightCalls : arg'[d] = arg[d]
  BY <1>1 DEF Submit, Inductive, TypeOK
<1>3. InstrumentOf[i] \in Instruments \ locks
  BY InstrumentAssumption DEF Submit, Acquirable
<1>4. Slot'[InstrumentOf[i]] = i
  BY <1>1, <1>2 DEF SlotsAreFlights
<1>5. ASSUME NEW k \in Instruments \ {InstrumentOf[i]}
      PROVE  Slot'[k] = Slot[k]
  <2>1. CASE k \in locks
    BY <1>1, <1>2, <2>1 DEF SlotsAreFlights
  <2>2. CASE k \notin locks
    BY <2>2 DEF SlotsAreFlights, Submit
  <2> QED  BY <2>1, <2>2
<1>6. Slot' = [Slot EXCEPT ![InstrumentOf[i]] = i]
  BY <1>3, <1>4, <1>5 DEF Slot
<1>7. Slot[InstrumentOf[i]] = NoIntent
  BY <1>3 DEF SlotsAreFlights
<1>8. Gate = "all" \/ (Gate = "exits" /\ i \notin Entries)
  BY DEF Submit, Admits, HoldsEntries, Gate, Inductive, TypeOK, RunStates
<1>9. Gate' = Gate /\ seen' = seen \cup {i} /\ i \notin seen
  BY DEF Submit, MarkSeen, Gate
<1> QED
  BY <1>6, <1>7, <1>8, <1>9 DEF Promise!Send, Promise!Allowed, Slot

\* Settling a call empties the slot of its instrument.
LEMMA SettleEmpties ==
    ASSUME Inductive, SlotsAreFlights, SlotsAreFlights',
           NEW c \in InFlightCalls, NEW outcome \in Outcomes, Settle(c, outcome)
    PROVE  Promise!Settle(InstrumentOf[arg[c]]) /\ InstrumentOf[arg[c]] \in Instruments
<1> DEFINE k == InstrumentOf[arg[c]]
<1>1. InFlightCalls' = InFlightCalls \ {c} /\ arg' = arg /\ locks' = locks \ {k}
  BY DEF Settle, Inductive, TypeOK, Outcomes, SkipReasons
<1>2. arg[c] \in Intents /\ k \in Instruments /\ k \in locks
  BY InstrumentAssumption DEF Inductive, FlightsHaveIntents, LocksMatchFlights
<1>3. ASSUME NEW j \in Instruments \ {k}
      PROVE  Slot'[j] = Slot[j]
  <2>1. CASE j \in locks
    BY <1>1, <2>1 DEF SlotsAreFlights
  <2>2. CASE j \notin locks
    BY <1>1, <2>2 DEF SlotsAreFlights
  <2> QED  BY <2>1, <2>2
<1>4. Slot'[k] = NoIntent
  BY <1>1, <1>2 DEF SlotsAreFlights
<1>5. Slot' = [Slot EXCEPT ![k] = NoIntent]
  BY <1>2, <1>3, <1>4 DEF Slot
<1>6. Slot[k] # NoIntent
  BY <1>2, IntentAssumption DEF SlotsAreFlights
<1>7. Gate' = Gate /\ seen' = seen
  BY DEF Settle, Gate
<1> QED  BY <1>2, <1>5, <1>6, <1>7 DEF Promise!Settle, Slot

\* Every step of the coordinator is a step or a stutter of the promise.
LEMMA StepKeepsPromise ==
    ASSUME Inductive, Inductive', SlotsAreFlights, SlotsAreFlights', [Next]_coordVars
    PROVE  [Promise!Next]_(Promise!vars)
<1> USE DEF Outcomes, SkipReasons
<1>0. ASSUME InFlightCalls' = InFlightCalls, \A c \in InFlightCalls : arg'[c] = arg[c],
             UNCHANGED <<locks, seen, runState>>
      PROVE  UNCHANGED Promise!vars
  BY <1>0, SameFlightsSameSlots DEF Promise!vars, Slot, Gate
<1>1. ASSUME NEW c \in Calls, NEW i \in Intents, Dispatch(c, i)
      PROVE  [Promise!Next]_(Promise!vars)
  <2>1. CASE Submit(c, i)
    BY <2>1, SubmitSends DEF Promise!Next
  <2>2. ASSUME NEW reason \in SkipReasons, Skip(c, i, reason)
        PROVE  UNCHANGED Promise!vars
    <3>1. InFlightCalls' = InFlightCalls /\ \A d \in InFlightCalls : arg'[d] = arg[d]
      BY <2>2 DEF Skip, Inductive, TypeOK
    <3> QED  BY <1>0, <2>2, <3>1 DEF Skip
  <2> QED
    BY <1>1, <2>1, <2>2 DEF Dispatch, SkipHalted, SkipPaused, SkipDuplicate, SkipBusy
<1>2. ASSUME NEW c \in Calls, Continue(c)
      PROVE  [Promise!Next]_(Promise!vars)
  <2>1. ASSUME NEW outcome \in Outcomes, InFlight(c), Settle(c, outcome)
        PROVE  Promise!Next
    BY <2>1, SettleEmpties DEF Promise!Next
  <2>2. ASSUME NEW next \in InFlightPhases, InFlight(c), Advance(c, next)
        PROVE  UNCHANGED Promise!vars
    <3>1. InFlightCalls' = InFlightCalls
      BY <2>2 DEF Advance, Inductive, TypeOK
    <3> QED  BY <1>0, <2>2, <3>1 DEF Advance
  <2>3. \/ \E outcome \in Outcomes : InFlight(c) /\ Settle(c, outcome)
        \/ \E next \in InFlightPhases : InFlight(c) /\ Advance(c, next)
    BY <1>2 DEF Continue, VenueAnswers, VenueThrows, Return, BeginReconcile, FinishReconcile,
                ReconcileThrows, Rethrow
  <2> QED  BY <2>1, <2>2, <2>3
<1>3. ASSUME NEW s \in RunStates, SetRunState(s)
      PROVE  Promise!SetGate
  <2>1. Slot' = Slot
    BY <1>3, SameFlightsSameSlots DEF SetRunState
  <2> QED  BY <1>3, <2>1 DEF SetRunState, Promise!SetGate, Slot, Gate
<1>4. ASSUME NEW prior \in {seen, {}}, Restart(prior)
      PROVE  Promise!Restart
  <2>1. \A k \in Instruments : Slot'[k] = NoIntent
    BY <1>4 DEF Restart, SlotsAreFlights
  <2>2. Slot' = [k \in Instruments |-> NoIntent]
    BY <2>1 DEF Slot
  <2> QED  BY <1>4, <2>2 DEF Restart, InitialRunState, Promise!Restart, Promise!NoFlight, Slot, Gate
<1>5. CASE UNCHANGED coordVars
  BY <1>0, <1>5 DEF coordVars
<1> QED  BY <1>1, <1>2, <1>3, <1>4, <1>5 DEF Next, Promise!Next

\* The coordinator implements its promise, whatever the venue answers.
THEOREM CoordinatorImplementsPromise == Spec => ImplementsPromise
<1>1. Init => Promise!Init
  BY DEF Init, InitialRunState, Promise!Init, Promise!NoFlight, SlotOf, Gate
<1>2. Inductive /\ Inductive' /\ SlotsAreFlights /\ SlotsAreFlights' /\ [Next]_coordVars
        => [Promise!Next]_(Promise!vars)
  BY StepKeepsPromise
<1> QED
  BY <1>1, <1>2, MappingIsDefined, AlwaysInductive, PTL
  DEF Spec, ImplementsPromise, Promise!Spec

HIDE DEF InFlight, InFlightCalls, InFlightPhases

-----------------------------------------------------------------------------
(* What the two venues have in common.                                     *)

\* Fill n is one on side s of instrument k.
On(n, k, s) == fills[n].instrument = k /\ fills[n].side = s

\* An order is one of an intent for some nonnegative quantity, and a fill is
\* on the instrument and side of its order's intent.
VenueTyped ==
    /\ Len(orders) \in Nat /\ DOMAIN orders = 1..Len(orders)
    /\ Len(fills) \in Nat /\ DOMAIN fills = 1..Len(fills)
    /\ \A o \in DOMAIN orders :
          orders[o].intent \in Intents /\ orders[o].status \in Statuses /\ orders[o].filled \in Nat
    /\ \A n \in DOMAIN fills :
          /\ fills[n].order \in DOMAIN orders
          /\ fills[n].instrument = InstrumentOf[orders[fills[n].order].intent]
          /\ fills[n].side = Side(orders[fills[n].order].intent)
          /\ fills[n].qty \in Nat

\* Order o is one of intent i, filled at least as far as n.
Names(o, i, n) == o \in DOMAIN orders /\ orders[o].intent = i /\ n <= orders[o].filled

\* What a reconciling call has been told was true when it was told.
AnswersArePast ==
    /\ DOMAIN openSeen = Calls /\ DOMAIN fillsSeen = Calls
    /\ \A c \in Calls : ~ Untouched(openSeen, c) =>
          \A o \in openSeen[c] :
             o.report \in VenueReports /\ Names(o.report.order, o.intent, o.report.filled)
    /\ \A c \in Calls : ~ Untouched(fillsSeen, c) =>
          /\ Len(fillsSeen[c]) \in Nat /\ DOMAIN fillsSeen[c] = 1..Len(fillsSeen[c])
          /\ Len(fillsSeen[c]) <= Len(fills)
          /\ \A n \in DOMAIN fillsSeen[c] : fillsSeen[c][n] = fills[n]

\* Orders keep their intent and are filled further, and fills are final.
VenueGrows ==
    /\ DOMAIN orders \subseteq DOMAIN orders'
    /\ \A o \in DOMAIN orders :
          orders'[o].intent = orders[o].intent /\ orders[o].filled <= orders'[o].filled
    /\ Len(fills) <= Len(fills')
    /\ \A n \in DOMAIN fills : fills'[n] = fills[n]

\* What has been filled of the orders on side s of instrument k, and what
\* the fills there add up to.
FilledOn(k, s) ==
    SumFunctionOnSet([o \in DOMAIN orders |-> orders[o].filled],
        {o \in DOMAIN orders : InstrumentOf[orders[o].intent] = k /\ Side(orders[o].intent) = s})
TradedOn(k, s) ==
    SumFunctionOnSet([n \in DOMAIN fills |-> fills[n].qty], {n \in DOMAIN fills : On(n, k, s)})

\* What no step of the venue, the process or the operator touches.
LEMMA AnswersStayPast ==
  ASSUME AnswersArePast, VenueTyped, VenueTyped', VenueGrows,
         \/ UNCHANGED reconcileVars
         \/ \E calls : ForgetAnswers(calls)
         \/ \E c \in Calls : QueryOpenOrders(c) \/ QueryFills(c)
  PROVE  AnswersArePast'
  <1>1. \A o, i, n : n \in Nat /\ Names(o, i, n) => Names(o, i, n)'
    BY DEF Names, VenueGrows, VenueTyped
  <1>2. ASSUME NEW c \in Calls, openSeen'[c] = openSeen[c], ~ Untouched(openSeen, c)
        PROVE  \A o \in openSeen'[c] :
                 o.report \in VenueReports /\ Names(o.report.order, o.intent, o.report.filled)'
    <2> TAKE o \in openSeen'[c]
    <2>1. o \in openSeen[c] /\ o.report \in VenueReports /\ o.report.filled \in Nat
      BY <1>2 DEF AnswersArePast, VenueReports
    <2> QED
      BY <1>1, <1>2, <2>1 DEF AnswersArePast
  <1>3. ASSUME NEW c \in Calls, fillsSeen'[c] = fillsSeen[c], ~ Untouched(fillsSeen, c)
        PROVE  /\ Len(fillsSeen[c])' \in Nat /\ DOMAIN fillsSeen'[c] = 1..Len(fillsSeen[c])'
               /\ Len(fillsSeen[c])' <= Len(fills)'
               /\ \A n \in DOMAIN fillsSeen'[c] : fillsSeen'[c][n] = fills'[n]
    BY <1>3 DEF AnswersArePast, VenueGrows, VenueTyped
  <1>4. CASE UNCHANGED reconcileVars
    BY <1>2, <1>3, <1>4 DEF AnswersArePast, reconcileVars, Untouched
  <1>5. CASE \E calls : ForgetAnswers(calls)
    BY <1>2, <1>3, <1>5 DEF AnswersArePast, ForgetAnswers, Untouched
  <1>6. ASSUME NEW c \in Calls, QueryOpenOrders(c)
        PROVE  AnswersArePast'
    <2>1. /\ openSeen' = [openSeen EXCEPT ![c] =
                {[intent |-> orders[o].intent,
                  report |-> ReportOf(orders[o].status, o, orders[o].filled)] :
                     o \in {n \in DOMAIN orders : Open(orders[n])}}]
          /\ fillsSeen' = fillsSeen /\ orders' = orders
      BY <1>6 DEF QueryOpenOrders, venueVars
    <2>2. \A o \in openSeen'[c] :
            o.report \in VenueReports /\ Names(o.report.order, o.intent, o.report.filled)'
      <3> TAKE r \in openSeen'[c]
      <3>1. PICK o \in DOMAIN orders :
              r = [intent |-> orders[o].intent,
                   report |-> ReportOf(orders[o].status, o, orders[o].filled)]
        BY <2>1 DEF AnswersArePast
      <3>2. o \in Nat
        BY DEF VenueTyped
      <3>3. r.report = [status |-> orders[o].status, order |-> o, filled |-> orders[o].filled]
            /\ r.intent = orders[o].intent
        BY <3>1 DEF ReportOf
      <3> QED
        BY <2>1, <3>2, <3>3 DEF VenueTyped, Names, VenueReports
    <2>3. \A d \in Calls \ {c} : openSeen'[d] = openSeen[d]
      BY <2>1 DEF AnswersArePast
    <2> QED
      BY <1>2, <1>3, <2>1, <2>2, <2>3 DEF AnswersArePast, Untouched
  <1>7. ASSUME NEW c \in Calls, QueryFills(c)
        PROVE  AnswersArePast'
    <2>1. fillsSeen' = [fillsSeen EXCEPT ![c] = fills] /\ openSeen' = openSeen /\ fills' = fills
      BY <1>7 DEF QueryFills, venueVars
    <2>2. \A d \in Calls \ {c} : fillsSeen'[d] = fillsSeen[d]
      BY <2>1 DEF AnswersArePast
    <2>3. fillsSeen'[c] = fills
      BY <2>1 DEF AnswersArePast
    <2> QED
      BY <1>2, <1>3, <2>1, <2>2, <2>3 DEF AnswersArePast, Untouched, VenueTyped
  <1> QED
    BY <1>4, <1>5, <1>6, <1>7

\* An order more adds what it is filled to its instrument and side.
LEMMA FilledGains ==
  ASSUME VenueTyped, NEW new, new.filled \in Nat, orders' = Append(orders, new), NEW k, NEW s
  PROVE  FilledOn(k, s)' = FilledOn(k, s) +
            IF InstrumentOf[new.intent] = k /\ Side(new.intent) = s THEN new.filled ELSE 0
  <1> DEFINE f == [o \in DOMAIN orders |-> orders[o].filled]
             g == [o \in DOMAIN orders' |-> orders'[o].filled]
             S == {o \in DOMAIN orders :
                     InstrumentOf[orders[o].intent] = k /\ Side(orders[o].intent) = s}
             T == {o \in DOMAIN orders' :
                     InstrumentOf[orders'[o].intent] = k /\ Side(orders'[o].intent) = s}
             n == Len(orders) + 1
  <1>1. n \notin DOMAIN orders /\ DOMAIN orders' = DOMAIN orders \cup {n}
        /\ orders'[n] = new /\ \A o \in DOMAIN orders : orders'[o] = orders[o]
    BY DEF VenueTyped
  <1>2. IsFiniteSet(S)
    <2>1. IsFiniteSet(DOMAIN orders)
      BY FS_Interval DEF VenueTyped
    <2> QED
      BY <2>1, FS_Subset
  <1>3. n \notin S /\ g[n] = new.filled /\ g[n] \in Int
        /\ \A o \in S : f[o] \in Int /\ g[o] = f[o]
    BY <1>1 DEF VenueTyped
  <1>4. T = IF InstrumentOf[new.intent] = k /\ Side(new.intent) = s THEN S \cup {n} ELSE S
    BY <1>1 DEF Side
  <1>5. FilledOn(k, s) = SumFunctionOnSet(f, S) /\ FilledOn(k, s)' = SumFunctionOnSet(g, T)
    BY DEF FilledOn, Side
  <1> HIDE DEF f, g, S, T, n
  <1>6. SumFunctionOnSet(g, S \cup {n}) = SumFunctionOnSet(f, S) + g[n]
    <2>1. \A y \in S : f[y] \in Int /\ g[y] = f[y]
      BY <1>3
    <2>2. n \notin S /\ g[n] \in Int
      BY <1>3
    <2> QED
      BY <1>2, <2>1, <2>2, SumGainsOne
  <1>7. SumFunctionOnSet(g, S) = SumFunctionOnSet(f, S) /\ SumFunctionOnSet(f, S) \in Int
    BY <1>2, <1>3, SumsAgree, SumIsInteger
  <1> QED
    BY <1>3, <1>4, <1>5, <1>6, <1>7

\* A fill more adds its quantity to its instrument and side.
LEMMA TradedGains ==
  ASSUME VenueTyped, NEW new, new.qty \in Nat, fills' = Append(fills, new), NEW k, NEW s
  PROVE  TradedOn(k, s)' = TradedOn(k, s) +
            IF new.instrument = k /\ new.side = s THEN new.qty ELSE 0
  <1> DEFINE f == [m \in DOMAIN fills |-> fills[m].qty]
             g == [m \in DOMAIN fills' |-> fills'[m].qty]
             S == {m \in DOMAIN fills : fills[m].instrument = k /\ fills[m].side = s}
             T == {m \in DOMAIN fills' : fills'[m].instrument = k /\ fills'[m].side = s}
             n == Len(fills) + 1
  <1>1. n \notin DOMAIN fills /\ DOMAIN fills' = DOMAIN fills \cup {n}
        /\ fills'[n] = new /\ \A m \in DOMAIN fills : fills'[m] = fills[m]
    BY DEF VenueTyped
  <1>2. IsFiniteSet(S)
    <2>1. IsFiniteSet(DOMAIN fills)
      BY FS_Interval DEF VenueTyped
    <2> QED
      BY <2>1, FS_Subset
  <1>3. n \notin S /\ g[n] = new.qty /\ g[n] \in Int
        /\ \A m \in S : f[m] \in Int /\ g[m] = f[m]
    BY <1>1 DEF VenueTyped
  <1>4. T = IF new.instrument = k /\ new.side = s THEN S \cup {n} ELSE S
    BY <1>1
  <1>5. TradedOn(k, s) = SumFunctionOnSet(f, S) /\ TradedOn(k, s)' = SumFunctionOnSet(g, T)
    BY DEF TradedOn, On
  <1> HIDE DEF f, g, S, T, n
  <1>6. SumFunctionOnSet(g, S \cup {n}) = SumFunctionOnSet(f, S) + g[n]
    <2>1. \A y \in S : f[y] \in Int /\ g[y] = f[y]
      BY <1>3
    <2>2. n \notin S /\ g[n] \in Int
      BY <1>3
    <2> QED
      BY <1>2, <2>1, <2>2, SumGainsOne
  <1>7. SumFunctionOnSet(g, S) = SumFunctionOnSet(f, S) /\ SumFunctionOnSet(f, S) \in Int
    BY <1>2, <1>3, SumsAgree, SumIsInteger
  <1> QED
    BY <1>3, <1>4, <1>5, <1>6, <1>7

\* The fills of each instrument and side are what its orders are filled.
FillsAddUp ==
    \A i \in Intents : TradedOn(InstrumentOf[i], Side(i)) = FilledOn(InstrumentOf[i], Side(i))

\* A step that places no order and trades nothing.
LEMMA NothingTraded ==
  ASSUME VenueTyped, FillsAddUp, fills' = fills,
         Len(orders') = Len(orders), DOMAIN orders' = DOMAIN orders,
         \A o \in DOMAIN orders : /\ orders'[o].intent = orders[o].intent
                                  /\ orders'[o].filled = orders[o].filled
                                  /\ orders'[o].status \in Statuses
  PROVE  VenueTyped' /\ VenueGrows /\ FillsAddUp'
  <1>1. VenueTyped'
    BY DEF VenueTyped, Side
  <1>2. VenueGrows
    BY DEF VenueTyped, VenueGrows
  <1>3. ASSUME NEW k, NEW s
        PROVE  FilledOn(k, s)' = FilledOn(k, s) /\ TradedOn(k, s)' = TradedOn(k, s)
    <2> DEFINE f == [o \in DOMAIN orders |-> orders[o].filled]
               g == [o \in DOMAIN orders' |-> orders'[o].filled]
    <2>1. f = g
      OBVIOUS
    <2>2. {o \in DOMAIN orders' : InstrumentOf[orders'[o].intent] = k /\ Side(orders'[o].intent) = s}
           = {o \in DOMAIN orders : InstrumentOf[orders[o].intent] = k /\ Side(orders[o].intent) = s}
      BY DEF Side
    <2> QED
      BY <2>1, <2>2 DEF FilledOn, TradedOn, On, Side
  <1>4. FillsAddUp'
    BY <1>3 DEF FillsAddUp, Side
  <1> QED
    BY <1>1, <1>2, <1>4

\* A step that places an order of which nothing has traded.
LEMMA OrderPlaced ==
  ASSUME VenueTyped, FillsAddUp, fills' = fills,
         NEW new, new.intent \in Intents, new.status \in Statuses, new.filled = 0,
         orders' = Append(orders, new)
  PROVE  VenueTyped' /\ VenueGrows /\ FillsAddUp'
  <1>1. /\ Len(orders') = Len(orders) + 1 /\ DOMAIN orders' = 1..(Len(orders) + 1)
        /\ orders'[Len(orders) + 1] = new /\ \A o \in DOMAIN orders : orders'[o] = orders[o]
    BY DEF VenueTyped
  <1>2. VenueTyped' /\ VenueGrows
    BY <1>1 DEF VenueTyped, VenueGrows, Side
  <1>3. \A k, s : TradedOn(k, s)' = TradedOn(k, s)
    BY DEF TradedOn, On
  <1>4. \A k, s : FilledOn(k, s)' = FilledOn(k, s) + 0
    BY FilledGains
  <1>5. \A k, s : TradedOn(k, s) \in Int
    <2> TAKE k, s
    <2>1. IsFiniteSet(DOMAIN fills)
      BY FS_Interval DEF VenueTyped
    <2>2. IsFiniteSet({n \in DOMAIN fills : On(n, k, s)})
      BY <2>1, FS_Subset
    <2>3. \A n \in DOMAIN fills : [m \in DOMAIN fills |-> fills[m].qty][n] \in Int
      BY DEF VenueTyped
    <2> QED
      BY <2>2, <2>3, SumIsInteger DEF TradedOn
  <1> QED
    BY <1>2, <1>3, <1>4, <1>5 DEF FillsAddUp, Side

\* A step that places an order, filled as far as the fill it comes with.
LEMMA OrderPlacedAndFilled ==
  ASSUME VenueTyped, FillsAddUp,
         NEW new, new.intent \in Intents, new.status \in Statuses, new.filled \in Nat,
         orders' = Append(orders, new),
         NEW fill, fill.order = Len(orders) + 1, fill.instrument = InstrumentOf[new.intent],
         fill.side = Side(new.intent), fill.qty = new.filled,
         fills' = Append(fills, fill)
  PROVE  VenueTyped' /\ VenueGrows /\ FillsAddUp'
  <1>1. /\ Len(orders') = Len(orders) + 1 /\ DOMAIN orders' = 1..(Len(orders) + 1)
        /\ orders'[Len(orders) + 1] = new /\ \A o \in DOMAIN orders : orders'[o] = orders[o]
    BY DEF VenueTyped
  <1>2. /\ Len(fills') = Len(fills) + 1 /\ DOMAIN fills' = 1..(Len(fills) + 1)
        /\ fills'[Len(fills) + 1] = fill /\ \A n \in DOMAIN fills : fills'[n] = fills[n]
    BY DEF VenueTyped
  <1>3. VenueTyped'
    BY <1>1, <1>2 DEF VenueTyped, Side
  <1>4. VenueGrows
    BY <1>1, <1>2 DEF VenueTyped, VenueGrows
  <1>5. \A k, s : FilledOn(k, s)' = FilledOn(k, s) +
          IF InstrumentOf[new.intent] = k /\ Side(new.intent) = s THEN new.filled ELSE 0
    BY FilledGains
  <1>6. \A k, s : TradedOn(k, s)' = TradedOn(k, s) +
          IF InstrumentOf[new.intent] = k /\ Side(new.intent) = s THEN new.filled ELSE 0
    BY TradedGains
  <1> QED
    BY <1>3, <1>4, <1>5, <1>6 DEF FillsAddUp, Side

\* A step in which n more lots of an order trade.
LEMMA OrderMatched ==
  ASSUME VenueTyped, FillsAddUp, NEW o \in DOMAIN orders, NEW n \in Nat,
         NEW fill, fill.order = o, fill.instrument = InstrumentOf[orders[o].intent],
         fill.side = Side(orders[o].intent), fill.qty = n, fills' = Append(fills, fill),
         NEW status \in Statuses,
         orders' = [orders EXCEPT ![o].filled = @ + n, ![o].status = status]
  PROVE  VenueTyped' /\ VenueGrows /\ FillsAddUp'
  <1>0. DOMAIN orders' = 1..Len(orders)
    BY DEF VenueTyped
  <1>1. /\ Len(orders') = Len(orders) /\ DOMAIN orders' = DOMAIN orders
        /\ \A p \in DOMAIN orders : orders'[p].intent = orders[p].intent
        /\ \A p \in DOMAIN orders : p # o => orders'[p] = orders[p]
        /\ orders'[o].filled = orders[o].filled + n /\ orders'[o].status = status
    BY <1>0 DEF VenueTyped
  <1>2. /\ Len(fills') = Len(fills) + 1 /\ DOMAIN fills' = 1..(Len(fills) + 1)
        /\ fills'[Len(fills) + 1] = fill /\ \A m \in DOMAIN fills : fills'[m] = fills[m]
    BY DEF VenueTyped
  <1>3. VenueTyped'
    BY <1>1, <1>2 DEF VenueTyped, Side
  <1>4. VenueGrows
    BY <1>1, <1>2 DEF VenueTyped, VenueGrows
  <1>5. ASSUME NEW k, NEW s
        PROVE  FilledOn(k, s)' = FilledOn(k, s) +
                 IF InstrumentOf[orders[o].intent] = k /\ Side(orders[o].intent) = s THEN n ELSE 0
    <2> DEFINE f == [p \in DOMAIN orders |-> orders[p].filled]
               g == [p \in DOMAIN orders' |-> orders'[p].filled]
               S == {p \in DOMAIN orders :
                       InstrumentOf[orders[p].intent] = k /\ Side(orders[p].intent) = s}
               T == {p \in DOMAIN orders' :
                       InstrumentOf[orders'[p].intent] = k /\ Side(orders'[p].intent) = s}
    <2>1. S = T
      BY <1>1 DEF Side
    <2>2. FilledOn(k, s) = SumFunctionOnSet(f, S) /\ FilledOn(k, s)' = SumFunctionOnSet(g, T)
      BY DEF FilledOn, Side
    <2>3. IsFiniteSet(S)
      <3>1. IsFiniteSet(DOMAIN orders)
        <4>1. 0 \in Int /\ 1 \in Int /\ Len(orders) \in Int /\ DOMAIN orders = 1..Len(orders)
          BY DEF VenueTyped
        <4> HIDE DEF f, g, S, T
        <4> QED
          BY <4>1, FS_Interval
      <3> QED
        BY <3>1, FS_Subset
    <2>4. /\ \A p \in S : f[p] \in Int /\ g[p] \in Int
          /\ \A p \in S \ {o} : f[p] = g[p]
          /\ f[o] \in Int /\ g[o] = f[o] + n
      BY <1>1 DEF VenueTyped
    <2>5. o \in S <=> InstrumentOf[orders[o].intent] = k /\ Side(orders[o].intent) = s
      OBVIOUS
    <2> HIDE DEF f, g, S, T
    <2>6. SumFunctionOnSet(f, S) \in Int
      BY <2>3, <2>4, SumIsInteger
    <2>7. CASE o \in S
      <3>1. SumFunctionOnSet(g, S) = SumFunctionOnSet(f, S) - f[o] + g[o]
        BY <2>3, <2>4, <2>7, SumChangesOne
      <3> QED
        BY <2>1, <2>2, <2>4, <2>5, <2>6, <2>7, <3>1
    <2>8. CASE o \notin S
      <3>1. SumFunctionOnSet(g, S) = SumFunctionOnSet(f, S)
        <4>1. \A p \in S : g[p] = f[p]
          BY <2>4, <2>8
        <4> QED
          BY <2>3, <4>1, SumsAgree
      <3> QED
        BY <2>1, <2>2, <2>5, <2>6, <2>8, <3>1
    <2> QED
      BY <2>7, <2>8
  <1>6. \A k, s : TradedOn(k, s)' = TradedOn(k, s) +
          IF InstrumentOf[orders[o].intent] = k /\ Side(orders[o].intent) = s THEN n ELSE 0
    BY TradedGains
  <1> QED
    BY <1>1, <1>3, <1>4, <1>5, <1>6 DEF FillsAddUp, Side

\* What is filled on one side of an instrument only grows.
LEMMA FilledOnlyGrows ==
  ASSUME VenueTyped, VenueTyped', VenueGrows, NEW k, NEW s
  PROVE  FilledOn(k, s) <= FilledOn(k, s)' /\ FilledOn(k, s) \in Nat /\ FilledOn(k, s)' \in Nat
  <1> DEFINE f == [p \in DOMAIN orders |-> orders[p].filled]
             g == [p \in DOMAIN orders' |-> orders'[p].filled]
             S == {p \in DOMAIN orders :
                     InstrumentOf[orders[p].intent] = k /\ Side(orders[p].intent) = s}
             T == {p \in DOMAIN orders' :
                     InstrumentOf[orders'[p].intent] = k /\ Side(orders'[p].intent) = s}
  <1>1. S \subseteq T
    BY DEF VenueGrows, Side
  <1>2. FilledOn(k, s) = SumFunctionOnSet(f, S) /\ FilledOn(k, s)' = SumFunctionOnSet(g, T)
    BY DEF FilledOn, Side
  <1>3. IsFiniteSet(T) /\ IsFiniteSet(S) /\ IsFiniteSet(T \ S)
    <2>1. IsFiniteSet(DOMAIN orders')
      BY FS_Interval DEF VenueTyped
    <2> QED
      BY <1>1, <2>1, FS_Subset
  <1>4. /\ \A p \in T : g[p] \in Nat
        /\ \A p \in S : f[p] \in Nat /\ f[p] <= g[p]
    BY DEF VenueTyped, VenueGrows
  <1>5. T = S \cup (T \ S) /\ S \cap (T \ S) = {}
    BY <1>1
  <1> HIDE DEF f, g, S, T
  <1>6. SumFunctionOnSet(f, S) <= SumFunctionOnSet(g, S)
    <2>1. \A p \in S : f[p] \in Int /\ g[p] \in Int /\ f[p] <= g[p]
      BY <1>1, <1>4
    <2> QED
      BY <1>3, <2>1, SumIsMonotone
  <1>7. SumFunctionOnSet(g, T) = SumFunctionOnSet(g, S) + SumFunctionOnSet(g, T \ S)
    <2>1. \A p \in S \cup (T \ S) : g[p] \in Int
      BY <1>4, <1>5
    <2>2. SumFunctionOnSet(g, S \cup (T \ S)) = SumFunctionOnSet(g, S) + SumFunctionOnSet(g, T \ S)
      BY <1>3, <1>5, <2>1, SumIsSplit
    <2> QED
      BY <1>5, <2>2
  <1>8. /\ SumFunctionOnSet(f, S) \in Nat /\ SumFunctionOnSet(g, S) \in Nat
        /\ SumFunctionOnSet(g, T \ S) \in Nat /\ SumFunctionOnSet(g, T) \in Nat
    BY <1>1, <1>3, <1>4, SumIsNatural
  <1> QED
    BY <1>2, <1>6, <1>7, <1>8

\* Report `rep` names an order on the instrument and side of intent i, and
\* at most what has been filled or traded there.
NamesAlike(rep, i) ==
    /\ rep \in VenueReports
    /\ rep.order \in DOMAIN orders
    /\ InstrumentOf[orders[rep.order].intent] = InstrumentOf[i]
    /\ Side(orders[rep.order].intent) = Side(i)
    /\ \/ rep.filled <= FilledOn(InstrumentOf[i], Side(i))
       \/ rep.filled <= TradedOn(InstrumentOf[i], Side(i))

\* What reconcile() makes of the two answers, if anything, is real.
LEMMA RecoveredIsReal ==
  ASSUME VenueTyped, AnswersArePast, NEW c \in Calls, arg[c] \in Intents,
         ~ Untouched(openSeen, c), ~ Untouched(fillsSeen, c)
  PROVE  Recovered(c) = NoReport \/ NamesAlike(Recovered(c), arg[c])
  <1> DEFINE resting == {o \in openSeen[c] : o.intent = arg[c]}
             traded == fillsSeen[c]
             match == {n \in DOMAIN traded : LooksLike(traded[n], arg[c])}
             k == InstrumentOf[arg[c]]
             s == Side(arg[c])
  <1>1. CASE resting # {}
    <2>1. PICK o \in resting : Recovered(c) = o.report
      BY <1>1 DEF Recovered
    <2>2. /\ o.report \in VenueReports
          /\ o.report.order \in DOMAIN orders /\ orders[o.report.order].intent = arg[c]
          /\ o.report.filled <= orders[o.report.order].filled
      BY <2>1 DEF AnswersArePast, Names
    <2>3. o.report.filled <= FilledOn(k, s)
      <3> DEFINE S == {p \in DOMAIN orders :
                         InstrumentOf[orders[p].intent] = k /\ Side(orders[p].intent) = s}
                 f == [p \in DOMAIN orders |-> orders[p].filled]
                 p == o.report.order
      <3>1. IsFiniteSet(S)
        <4>1. IsFiniteSet(DOMAIN orders)
          <5>1. 1 \in Int /\ Len(orders) \in Int /\ DOMAIN orders = 1..Len(orders)
            BY DEF VenueTyped
          <5> HIDE DEF f, S
          <5> QED
            BY <5>1, FS_Interval
        <4> QED
          BY <4>1, FS_Subset
      <3>2. p \in S /\ f[p] = orders[p].filled /\ \A q \in S : f[q] \in Nat
        BY <2>2 DEF VenueTyped
      <3>3. FilledOn(k, s) = SumFunctionOnSet(f, S)
        BY DEF FilledOn
      <3>4. o.report.filled \in Nat
        BY <2>2 DEF VenueReports
      <3> HIDE DEF S, f, p
      <3>5. SumFunctionOnSet(f, S) = f[p] + SumFunctionOnSet(f, S \ {p})
        <4>1. \A q \in S : f[q] \in Int
          BY <3>2
        <4> QED
          BY <3>1, <3>2, <4>1, SumTakesAny
      <3>6. SumFunctionOnSet(f, S \ {p}) \in Nat
        <4>1. IsFiniteSet(S \ {p}) /\ \A q \in S \ {p} : f[q] \in Nat
          BY <3>1, <3>2, FS_Subset
        <4> QED
          BY <4>1, SumIsNatural
      <3> QED
        BY <2>2, <3>2, <3>3, <3>4, <3>5, <3>6 DEF p
    <2> QED
      BY <2>1, <2>2, <2>3 DEF NamesAlike
  <1>2. CASE resting = {} /\ match = {}
    BY <1>2 DEF Recovered
  <1>3. CASE resting = {} /\ match # {}
    <2> DEFINE f == [n \in DOMAIN traded |-> traded[n].qty]
               g == [n \in DOMAIN fills |-> fills[n].qty]
               T == {n \in DOMAIN fills : On(n, k, s)}
               n == Min(match)
    <2>1. Recovered(c) = [status |-> "filled", order |-> traded[n].order,
                          filled |-> SumFunctionOnSet(f, match)]
      BY <1>3 DEF Recovered, ReportOf
    <2>2. match \subseteq T /\ \A m \in match : m \in Nat /\ traded[m] = fills[m]
      BY DEF AnswersArePast, VenueTyped, LooksLike, On
    <2>3. IsFiniteSet(T)
      <3>1. IsFiniteSet(DOMAIN fills)
        <4>1. 1 \in Int /\ Len(fills) \in Int /\ DOMAIN fills = 1..Len(fills)
          BY DEF VenueTyped
        <4> HIDE DEF f, g, T, n, match
        <4> QED
          BY <4>1, FS_Interval
      <3> QED
        BY <3>1, FS_Subset
    <2>4. n \in match
      <3>1. \E m \in match : \A x \in match : m <= x
        <4>1. match \subseteq Int
          BY <2>2
        <4> HIDE DEF T, match
        <4>2. IsFiniteSet(match)
          BY <2>2, <2>3, FS_Subset
        <4> QED
          BY <1>3, <4>1, <4>2, LeastExists
      <3> HIDE DEF match
      <3> QED
        BY <3>1 DEF Min
    <2>5. traded[n].order \in DOMAIN orders /\ traded[n].order \in Nat
          /\ InstrumentOf[orders[traded[n].order].intent] = k
          /\ Side(orders[traded[n].order].intent) = s
      <3> HIDE DEF n, match, f, g
      <3>1. n \in T /\ traded[n] = fills[n]
        BY <2>2, <2>4
      <3> QED
        BY <3>1 DEF VenueTyped, On
    <2>6. SumFunctionOnSet(f, match) = SumFunctionOnSet(g, match)
      <3>1. \A m \in match : f[m] = g[m]
        BY <2>2
      <3> HIDE DEF f, g, T, n, match
      <3>2. IsFiniteSet(match)
        BY <2>2, <2>3, FS_Subset
      <3> QED
        BY <3>1, <3>2, SumsAgree
    <2>7. SumFunctionOnSet(g, match) \in Nat /\ SumFunctionOnSet(g, match) <= TradedOn(k, s)
      <3>1. \A m \in T : g[m] \in Nat
        BY DEF VenueTyped
      <3>2. TradedOn(k, s) = SumFunctionOnSet(g, T)
        BY DEF TradedOn
      <3> HIDE DEF f, g, T, n, match
      <3> QED
        BY <2>2, <2>3, <3>1, <3>2, PartIsAtMostWhole
    <2>8. Recovered(c) \in VenueReports
      <3> HIDE DEF f, g, T, n, match
      <3> QED
        BY <2>1, <2>5, <2>6, <2>7 DEF VenueReports, Statuses
    <2> HIDE DEF f, g, T, n, match, traded
    <2> QED
      BY <2>1, <2>5, <2>6, <2>7, <2>8 DEF NamesAlike
  <1> QED
    BY <1>1, <1>2, <1>3

-----------------------------------------------------------------------------
(* The simulator.                                                          *)

\* The simulator's own state: money, inventory, books and minted exits.
SimTyped ==
    /\ cash \in Nat
    /\ positions \in [Instruments -> Nat]
    /\ flattenQty \in [Instruments -> Nat]
    /\ DOMAIN books = Instruments
    /\ \A k \in Instruments :
          /\ DOMAIN books[k] = {"asks", "bids"}
          /\ IsBookSide(books[k]["asks"]) /\ IsBookSide(books[k]["bids"])

\* Every call past its synchronous prefix has the intent it was given.
CallsTyped ==
    /\ DOMAIN phase = Calls /\ DOMAIN arg = Calls
    /\ \A c \in Calls : phase[c] # "idle" => arg[c] \in Intents
    /\ wire \subseteq {c \in Calls : phase[c] # "idle"}

\* Fill f is for something, and for no more than its order of intent i asks,
\* so the quantity of i was fixed by then; and it is on the order's terms.
FillIsSound(f, i) ==
    /\ f.qty # 0 /\ f.qty <= Quantity(i)
    /\ IF f.side = "BUY"
       THEN f.cost <= 100 * f.qty * OrderTerms[i].limit
       ELSE f.cost >= 100 * f.qty * OrderTerms[i].limit
    /\ OrderTerms[i].tif = "FOK" => f.qty = Quantity(i)

FillsAreSound == \A n \in DOMAIN fills : FillIsSound(fills[n], orders[fills[n].order].intent)

SimVenue == VenueTyped /\ FillsAddUp /\ AnswersArePast
SimInductive == SimTyped /\ CallsTyped /\ SimVenue /\ FillsExplainMarket /\ FillsAreSound

-----------------------------------------------------------------------------
(* What a walk of the book does.                                           *)

\* The levels a walk may take from form a book side, in the order of price.
LEMMA TakeableIsOrdered ==
  ASSUME SimTyped, NEW i \in Intents
  PROVE  /\ IsBookSide(OppositeLevels(i))
         /\ IsFiniteSet(Takeable(i)) /\ Takeable(i) \subseteq DOMAIN OppositeLevels(i)
         /\ Restrict(OppositeLevels(i), Takeable(i)) \in [Takeable(i) -> Nat]
         /\ Ordered([p \in Takeable(i) |-> {q \in Takeable(i) : Better(i, q, p)}], Takeable(i))
  <1>1. InstrumentOf[i] \in Instruments
    BY InstrumentAssumption
  <1>2. IsBookSide(OppositeLevels(i))
    BY <1>1 DEF SimTyped, OppositeLevels, OppositeSide
  <1>3. IsFiniteSet(Takeable(i)) /\ Takeable(i) \subseteq DOMAIN OppositeLevels(i)
    <2>1. IsFiniteSet(DOMAIN OppositeLevels(i)) /\ Takeable(i) \subseteq DOMAIN OppositeLevels(i)
      BY <1>2 DEF IsBookSide, Takeable
    <2> QED
      BY <2>1, FS_Subset
  <1>4. Restrict(OppositeLevels(i), Takeable(i)) \in [Takeable(i) -> Nat]
    BY <1>2, <1>3 DEF Restrict, IsBookSide
  <1>5. Takeable(i) \subseteq Nat
    BY <1>2, <1>3 DEF IsBookSide
  <1> DEFINE T == Takeable(i)
             better == [p \in T |-> {q \in T : Better(i, q, p)}]
  <1>6. Ordered(better, T)
    <2>1. Side(i) = "BUY" => better = [p \in T |-> {q \in T : q < p}]
      BY DEF Better
    <2>2. Side(i) # "BUY" => better = [p \in T |-> {q \in T : q > p}]
      BY DEF Better
    <2> HIDE DEF better, T
    <2> QED
      BY <1>5, <2>1, <2>2, PricesAreOrdered DEF T
  <1> QED
    BY <1>2, <1>3, <1>4, <1>6

\* A walk for what the book has takes it exactly, from levels within the limit.
LEMMA TakenIsWhole ==
  ASSUME SimTyped, NEW i \in Intents, NEW qty \in Nat,
         qty <= SumFunctionOnSet(OppositeLevels(i), Takeable(i))
  PROVE  /\ DOMAIN Taken(i, qty) = Takeable(i)
         /\ \A p \in Takeable(i) : /\ Taken(i, qty)[p] \in Nat
                                   /\ Taken(i, qty)[p] <= OppositeLevels(i)[p]
         /\ SumFunctionOnSet(Taken(i, qty), Takeable(i)) = qty
         /\ SumFunctionOnSet(OppositeLevels(i), Takeable(i)) \in Nat
  <1> DEFINE T == Takeable(i)
             levels == OppositeLevels(i)
             sizes == Restrict(levels, T)
             better == [p \in T |-> {q \in T : Better(i, q, p)}]
  <1>1. /\ IsFiniteSet(T) /\ sizes \in [T -> Nat] /\ Ordered(better, T)
        /\ \A p \in T : sizes[p] = levels[p] /\ levels[p] \in Nat
    BY TakeableIsOrdered DEF Restrict, IsBookSide
  <1>2. Taken(i, qty) = Allot(sizes, better, qty)
    BY DEF Taken
  <1> HIDE DEF sizes, better, levels, T
  <1>3. SumFunctionOnSet(sizes, T) = SumFunctionOnSet(levels, T)
        /\ SumFunctionOnSet(levels, T) \in Nat
    BY <1>1, SumsAgree, SumIsNatural
  <1>4. qty <= SumFunctionOnSet(levels, T)
    BY DEF levels, T
  <1>5. /\ DOMAIN Allot(sizes, better, qty) = T
        /\ \A p \in T : /\ Allot(sizes, better, qty)[p] \in Nat
                        /\ Allot(sizes, better, qty)[p] <= sizes[p]
    BY <1>1, AllotmentIsBounded
  <1>6. SumFunctionOnSet(Allot(sizes, better, qty), T) = Lesser(qty, SumFunctionOnSet(sizes, T))
    BY <1>1, AllotmentIsWhole
  <1>7. SumFunctionOnSet(Allot(sizes, better, qty), T) = qty
    BY <1>3, <1>4, <1>6 DEF Lesser
  <1> QED
    BY <1>1, <1>2, <1>3, <1>5, <1>7 DEF levels, T

\* What is taken from a side of a book is gone from it, and nothing else.
LEMMA ConsumedIsGone ==
  ASSUME NEW levels, IsBookSide(levels), NEW taken, DOMAIN taken \subseteq DOMAIN levels,
         \A p \in DOMAIN taken : taken[p] \in Nat /\ taken[p] <= levels[p]
  PROVE  /\ IsBookSide(Consumed(levels, taken))
         /\ SumFunction(Consumed(levels, taken))
              = SumFunction(levels) - SumFunctionOnSet(taken, DOMAIN taken)
  <1> DEFINE D == DOMAIN levels
             T == DOMAIN taken
             left == [p \in D |-> IF p \in T THEN levels[p] - taken[p] ELSE levels[p]]
             gone == [p \in D |-> IF p \in T THEN taken[p] ELSE 0]
             K == {p \in D : left[p] > 0}
             rest == [p \in K |-> left[p]]
  <1>1. Consumed(levels, taken) = rest /\ DOMAIN rest = K
    BY DEF Consumed, Restrict
  <1>2. /\ IsFiniteSet(D) /\ D \subseteq Nat /\ T \subseteq D /\ K \subseteq D
        /\ \A p \in D : /\ levels[p] \in Nat /\ left[p] \in Nat /\ gone[p] \in Nat
                        /\ levels[p] = left[p] + gone[p]
        /\ \A p \in T : gone[p] = taken[p]
        /\ \A p \in D \ T : gone[p] = 0
        /\ \A p \in D \ K : left[p] = 0
        /\ \A p \in K : rest[p] = left[p]
    BY DEF IsBookSide
  <1> HIDE DEF D, T, left, gone, K, rest
  <1>3. IsFiniteSet(K) /\ IsFiniteSet(T)
    BY <1>2, FS_Subset
  <1>4. SumFunctionOnSet(levels, D) = SumFunctionOnSet(left, D) + SumFunctionOnSet(gone, D)
    <2>1. \A p \in D : left[p] \in Int /\ gone[p] \in Int /\ levels[p] = left[p] + gone[p]
      BY <1>2
    <2> QED
      BY <1>2, <2>1, SumIsAdditive
  <1>5. SumFunctionOnSet(gone, D) = SumFunctionOnSet(taken, T)
    <2>1. \A p \in D : gone[p] \in Int
      BY <1>2
    <2>2. SumFunctionOnSet(gone, D) = SumFunctionOnSet(gone, T)
      BY <1>2, <2>1, SumSkipsZeros
    <2> QED
      BY <1>2, <1>3, <2>2, SumsAgree
  <1>6. SumFunctionOnSet(left, D) = SumFunctionOnSet(rest, K)
    <2>1. \A p \in D : left[p] \in Int
      BY <1>2
    <2>2. SumFunctionOnSet(left, D) = SumFunctionOnSet(left, K)
      BY <1>2, <2>1, SumSkipsZeros
    <2> QED
      BY <1>2, <1>3, <2>2, SumsAgree
  <1>7. SumFunctionOnSet(left, D) \in Int /\ SumFunctionOnSet(gone, D) \in Int
    <2>1. \A p \in D : left[p] \in Int /\ gone[p] \in Int
      BY <1>2
    <2> QED
      BY <1>2, <2>1, SumIsInteger
  <1>8. IsBookSide(rest)
    BY <1>1, <1>2, <1>3 DEF IsBookSide
  <1>9. SumFunction(rest) = SumFunctionOnSet(rest, K) /\ SumFunction(levels) = SumFunctionOnSet(levels, D)
    BY <1>1 DEF SumFunction, D
  <1>10. SumFunctionOnSet(taken, DOMAIN taken) = SumFunctionOnSet(taken, T)
    BY DEF T
  <1> QED
    BY <1>1, <1>4, <1>5, <1>6, <1>7, <1>8, <1>9, <1>10

\* What the walk costs is within the limit.
LEMMA CostIsWithinLimit ==
  ASSUME SimTyped, NEW i \in Intents, NEW taken, DOMAIN taken = Takeable(i),
         \A p \in Takeable(i) : taken[p] \in Nat
  PROVE  /\ SumFunction([p \in DOMAIN taken |-> taken[p] * p]) \in Nat
         /\ SumFunctionOnSet(taken, Takeable(i)) \in Nat
         /\ IF Side(i) = "BUY"
            THEN SumFunction([p \in DOMAIN taken |-> taken[p] * p])
                   <= OrderTerms[i].limit * SumFunctionOnSet(taken, Takeable(i))
            ELSE SumFunction([p \in DOMAIN taken |-> taken[p] * p])
                   >= OrderTerms[i].limit * SumFunctionOnSet(taken, Takeable(i))
  <1> DEFINE T == Takeable(i)
             limit == OrderTerms[i].limit
             paid == [p \in T |-> taken[p] * p]
  <1>1. IsFiniteSet(T) /\ T \subseteq Nat /\ limit \in Nat /\ \A p \in T : taken[p] \in Nat
    BY TakeableIsOrdered, TermsAssumption DEF IsBookSide
  <1>2. \A p \in T : IF Side(i) = "BUY" THEN p <= limit ELSE p >= limit
    BY <1>1 DEF Takeable, WithinLimit
  <1>3. SumFunction([p \in DOMAIN taken |-> taken[p] * p]) = SumFunctionOnSet(paid, T)
    BY DEF SumFunction
  <1>4. \A p \in T : paid[p] = taken[p] * p
    OBVIOUS
  <1> HIDE DEF T, limit, paid
  <1>5. /\ SumFunctionOnSet(paid, T) \in Nat /\ SumFunctionOnSet(taken, T) \in Nat
        /\ (\A p \in T : p <= limit)
              => SumFunctionOnSet(paid, T) <= limit * SumFunctionOnSet(taken, T)
        /\ (\A p \in T : p >= limit)
              => SumFunctionOnSet(paid, T) >= limit * SumFunctionOnSet(taken, T)
    BY <1>1, <1>4, CostIsBounded
  <1> QED
    BY <1>2, <1>3, <1>5 DEF T, limit

\* What the walk of a submit finds, and what it leaves of the book.
LEMMA WalkIsSound ==
  ASSUME SimTyped, NEW i \in Intents, NEW w, w = Walk(i)
  PROVE  /\ w.available \in Nat /\ w.qty = Lesser(Quantity(i), w.available)
         /\ Quantity(i) \in Nat /\ w.qty \in Nat /\ w.cost \in Nat
         /\ w.fee \in Nat /\ w.fee <= w.cost
         /\ IF Side(i) = "BUY"
            THEN w.cost <= 100 * w.qty * OrderTerms[i].limit
            ELSE w.cost >= 100 * w.qty * OrderTerms[i].limit
         /\ IsBookSide(w.left)
         /\ SumFunction(w.left) = SumFunction(OppositeLevels(i)) - w.qty
  <1> DEFINE T == Takeable(i)
             levels == OppositeLevels(i)
             available == SumFunctionOnSet(levels, T)
             qty == Lesser(Quantity(i), available)
             taken == Taken(i, qty)
             cost == SumFunction([p \in DOMAIN taken |-> taken[p] * p])
             limit == OrderTerms[i].limit
  <1>1. /\ w.available = available /\ w.qty = qty /\ w.cost = 100 * cost
        /\ w.fee = cost * FeePercent /\ w.left = Consumed(levels, taken)
    BY DEF Walk
  <1>2. Quantity(i) \in Nat
    BY TermsAssumption, InstrumentAssumption DEF Quantity, SimTyped
  <1>3. available \in Nat
    <2>1. IsFiniteSet(T) /\ \A p \in T : levels[p] \in Nat
      BY TakeableIsOrdered DEF IsBookSide
    <2> HIDE DEF T, levels
    <2> QED
      BY <2>1, SumIsNatural
  <1>4. qty \in Nat /\ qty <= available
    BY <1>2, <1>3 DEF Lesser
  <1>5. /\ DOMAIN taken = T
        /\ \A p \in T : taken[p] \in Nat /\ taken[p] <= levels[p]
        /\ SumFunctionOnSet(taken, T) = qty
    <2> HIDE DEF qty
    <2> QED
      BY <1>4, TakenIsWhole
  <1>6. IsBookSide(levels) /\ T \subseteq DOMAIN levels
    BY TakeableIsOrdered
  <1> HIDE DEF qty, available, taken
  <1>7. /\ cost \in Nat
        /\ IF Side(i) = "BUY" THEN cost <= limit * qty ELSE cost >= limit * qty
    BY <1>5, CostIsWithinLimit
  <1>8. /\ IsBookSide(Consumed(levels, taken))
        /\ SumFunction(Consumed(levels, taken)) = SumFunction(levels) - qty
    <2> HIDE DEF T, levels
    <2> QED
      BY <1>5, <1>6, ConsumedIsGone
  <1> HIDE DEF cost, levels, T
  <1>9. cost * FeePercent \in Nat /\ cost * FeePercent <= 100 * cost /\ 100 * cost \in Nat
    <2>1. FeePercent \in Nat /\ FeePercent <= 100
      BY MoneyAssumption
    <2>2. cost * FeePercent \in Nat /\ cost * FeePercent <= cost * 100
      BY <1>7, <2>1, ProductsGrow
    <2> QED
      BY <1>7, <2>2
  <1>10. limit * qty \in Nat /\ 100 * qty * limit = 100 * (limit * qty)
    <2>1. limit \in Nat
      BY TermsAssumption
    <2>2. limit * qty \in Nat
      BY <1>4, <2>1, ProductsGrow
    <2> HIDE DEF limit
    <2>3. 100 * qty * limit = 100 * (qty * limit) /\ qty * limit = limit * qty
      BY <1>4, <2>1
    <2> QED
      BY <2>2, <2>3
  <1>11. IF Side(i) = "BUY" THEN 100 * cost <= 100 * qty * limit ELSE 100 * cost >= 100 * qty * limit
    <2> DEFINE top == limit * qty
    <2>1. top \in Nat /\ 100 * qty * limit = 100 * top
      BY <1>10
    <2>2. IF Side(i) = "BUY" THEN cost <= top ELSE cost >= top
      BY <1>7
    <2> HIDE DEF top, limit
    <2>3. IF Side(i) = "BUY" THEN 100 * cost <= 100 * top ELSE 100 * cost >= 100 * top
      BY <1>7, <2>1, <2>2
    <2> QED
      BY <2>1, <2>3
  <1> QED
    BY <1>1, <1>2, <1>3, <1>4, <1>7, <1>8, <1>9, <1>11 DEF qty, levels, limit

-----------------------------------------------------------------------------
(* The steps.                                                              *)

\* Fills that stay sound when the quantity of a fixed exit stays.
LEMMA FillsStaySound ==
  ASSUME VenueTyped, VenueGrows, FillsAreSound, SimTyped, fills' = fills,
         \A k \in Instruments : flattenQty[k] # 0 => flattenQty'[k] = flattenQty[k]
  PROVE  FillsAreSound'
  <1> SUFFICES ASSUME NEW n \in DOMAIN fills
               PROVE  FillIsSound(fills[n], orders[fills[n].order].intent)'
    BY DEF FillsAreSound
  <1> DEFINE i == orders[fills[n].order].intent
  <1>1. i \in Intents /\ orders'[fills[n].order].intent = i /\ fills'[n] = fills[n]
        /\ fills[n].qty \in Nat
    BY DEF VenueTyped, VenueGrows
  <1>2. FillIsSound(fills[n], i)
    BY DEF FillsAreSound
  <1>3. InstrumentOf[i] \in Instruments
    BY <1>1, InstrumentAssumption
  <1> HIDE DEF i
  <1>4. i \in MintedExits => flattenQty[InstrumentOf[i]] # 0
    BY <1>1, <1>2, <1>3 DEF FillIsSound, Quantity, SimTyped
  <1>5. (IF i \in MintedExits THEN flattenQty'[InstrumentOf[i]] ELSE OrderTerms[i].qty) = Quantity(i)
    BY <1>3, <1>4 DEF Quantity
  <1> QED
    BY <1>1, <1>2, <1>5 DEF FillIsSound, Quantity, MintedExits

\* A step in which nothing trades and no order is placed.
LEMMA QuietStepPreserves ==
  ASSUME SimInductive, CallsTyped',
         UNCHANGED <<cash, books, positions, fills>>, flattenQty' \in [Instruments -> Nat],
         \A k \in Instruments : flattenQty[k] # 0 => flattenQty'[k] = flattenQty[k],
         Len(orders') = Len(orders), DOMAIN orders' = DOMAIN orders,
         \A o \in DOMAIN orders : /\ orders'[o].intent = orders[o].intent
                                  /\ orders'[o].filled = orders[o].filled
                                  /\ orders'[o].status \in Statuses,
         \/ UNCHANGED reconcileVars
         \/ \E calls : ForgetAnswers(calls)
         \/ \E c \in Calls : QueryOpenOrders(c) \/ QueryFills(c)
  PROVE  SimInductive'
  <1>1. VenueTyped' /\ VenueGrows /\ FillsAddUp'
    BY NothingTraded DEF SimInductive, SimVenue
  <1>2. AnswersArePast'
    BY <1>1, AnswersStayPast DEF SimInductive, SimVenue
  <1>3. SimTyped'
    BY DEF SimInductive, SimTyped
  <1>4. FillsExplainMarket'
    BY DEF SimInductive, FillsExplainMarket, Traded
  <1>5. FillsAreSound'
    BY <1>1, FillsStaySound DEF SimInductive, SimVenue
  <1> QED
    BY <1>1, <1>2, <1>3, <1>4, <1>5 DEF SimInductive, SimVenue

\* Calls keep their intents, and join the wire with one.
LEMMA CallsStayTyped ==
  ASSUME SimInductive, [SimNext]_allVars
  PROVE  CallsTyped'
  <1> USE DEF SimInductive, CallsTyped
  <1>1. ASSUME NEW c \in Calls, NEW i \in Intents, SimDispatch(c, i)
        PROVE  CallsTyped'
    <2>1. /\ arg' = [arg EXCEPT ![c] = i]
          /\ \E next \in SkipReasons \cup {"submitting"} : phase' = [phase EXCEPT ![c] = next]
          /\ wire' \subseteq wire \cup {c}
      BY <1>1 DEF SimDispatch, Dispatch, SkipHalted, SkipPaused, SkipDuplicate, SkipBusy, Skip,
                  Submit, SkipReasons
    <2>2. \A d \in Calls : phase'[d] # "idle" => arg'[d] \in Intents
      BY <2>1
    <2>3. wire' \subseteq {d \in Calls : phase'[d] # "idle"}
      BY <2>1 DEF SkipReasons
    <2> QED
      BY <2>1, <2>2, <2>3
  <1>2. ASSUME arg' = arg, wire' \subseteq wire, UNCHANGED phase
        PROVE  CallsTyped'
    BY <1>2
  <1>3. ASSUME arg' = arg, wire' \subseteq wire, NEW c \in Calls, phase[c] # "idle",
               NEW next, next # "idle", phase' = [phase EXCEPT ![c] = next]
        PROVE  CallsTyped'
    BY <1>3
  <1>4. ASSUME NEW c \in Calls, Execute(c)
        PROVE  CallsTyped'
    <2>1. wire' \subseteq wire /\ \E rep : Answer(c, rep)
      BY <1>4 DEF Execute, ExecuteAmbiguously, Reject, Fill
    <2>2. PICK rep : Answer(c, rep)
      BY <2>1
    <2>3. CASE phase[c] = "submitting"
      BY <1>3, <2>1, <2>2, <2>3 DEF Answer, VenueAnswers, Advance
    <2>4. CASE phase[c] # "submitting"
      BY <1>2, <2>1, <2>2, <2>4 DEF Answer, coordVars
    <2> QED
      BY <2>3, <2>4
  <1>5. ASSUME NEW c \in Calls, SimResume(c)
        PROVE  CallsTyped'
    <2>1. wire' = wire
      BY <1>5 DEF SimResume, venueVars
    <2>2. CASE Return(c)
      BY <1>3, <2>1, <2>2 DEF Return, Settle
    <2>3. CASE BeginReconcile(c)
      BY <1>3, <2>1, <2>3 DEF BeginReconcile, Advance
    <2>4. CASE QueryOpenOrders(c) \/ QueryFills(c)
      BY <1>2, <2>1, <2>4 DEF QueryOpenOrders, QueryFills, coordVars
    <2>5. CASE Conclude(c)
      <3>1. /\ phase[c] = "reconciling" /\ arg' = arg
            /\ \E next \in {"recovered", "unrecovered"} : phase' = [phase EXCEPT ![c] = next]
        BY <2>5 DEF Conclude, FinishReconcile, Settle
      <3> QED
        BY <1>3, <2>1, <3>1
    <2> QED
      BY <1>5, <2>2, <2>3, <2>4, <2>5 DEF SimResume
  <1>6. CASE SimOperate
    <2>1. wire' = wire
      BY <1>6 DEF SimOperate, venueVars
    <2>2. CASE \E s \in RunStates : SetRunState(s)
      BY <1>2, <2>1, <2>2 DEF SetRunState
    <2>3. CASE \E prior \in {seen, {}} : Crash(prior)
      <3>1. arg' = arg /\ phase' = [c \in Calls |-> IF InFlight(c) THEN "lost" ELSE phase[c]]
        BY <2>3 DEF Crash, Restart
      <3>2. DOMAIN phase' = Calls /\ \A c \in Calls : phase'[c] # "idle" <=> phase[c] # "idle"
        BY <3>1 DEF InFlight, InFlightPhases
      <3> QED
        BY <2>1, <3>1, <3>2
    <2> QED
      BY <1>6, <2>2, <2>3 DEF SimOperate
  <1>7. CASE SimCancelAll \/ Flatten \/ UNCHANGED allVars
    BY <1>2, <1>7 DEF SimCancelAll, Flatten, allVars, simVars, venueVars, coordVars
  <1> QED
    BY <1>1, <1>4, <1>5, <1>6, <1>7 DEF SimNext

\* A fill moves the same quantity into the position, the fills and the book.
LEMMA FillTrades ==
  ASSUME SimInductive, CallsTyped', NEW c \in wire, NEW w, w = Walk(arg[c]), Fill(c, w),
         UNCHANGED <<flattenQty, reconcileVars>>
  PROVE  SimInductive'
  <1> DEFINE i == arg[c]
             k == InstrumentOf[i]
             s == Side(i)
             side == OppositeSide(i)
             status == IF w.qty >= Quantity(i) THEN "filled" ELSE "partially_filled"
             new == [intent |-> i, status |-> status, filled |-> w.qty]
             fill == [order |-> Len(orders) + 1, instrument |-> k, side |-> s,
                      qty |-> w.qty, cost |-> w.cost, fee |-> w.fee]
  <1>1. i \in Intents /\ k \in Instruments
    BY InstrumentAssumption DEF SimInductive, CallsTyped
  <1>2. /\ ~ Rejected(i, w)
        /\ IF s = "BUY"
           THEN /\ cash' = cash - w.cost - w.fee
                /\ positions' = [positions EXCEPT ![k] = @ + w.qty]
           ELSE /\ cash' = cash + w.cost - w.fee
                /\ positions' = [positions EXCEPT ![k] = @ - w.qty]
        /\ books' = [books EXCEPT ![k][side] = w.left]
        /\ orders' = Append(orders, new)
        /\ fills' = Append(fills, fill)
    BY DEF Fill
  <1>3. /\ w.available \in Nat /\ w.qty = Lesser(Quantity(i), w.available)
        /\ Quantity(i) \in Nat /\ w.qty \in Nat /\ w.cost \in Nat /\ w.fee \in Nat /\ w.fee <= w.cost
        /\ IF s = "BUY" THEN w.cost <= 100 * w.qty * OrderTerms[i].limit
                        ELSE w.cost >= 100 * w.qty * OrderTerms[i].limit
        /\ IsBookSide(w.left)
        /\ SumFunction(w.left) = SumFunction(OppositeLevels(i)) - w.qty
    BY <1>1, WalkIsSound DEF SimInductive
  <1>4. /\ new.intent = i /\ new.status \in Statuses /\ new.filled = w.qty
        /\ fill.order = Len(orders) + 1 /\ fill.instrument = k /\ fill.side = s
        /\ fill.qty = w.qty /\ fill.cost = w.cost
    BY DEF Statuses
  <1>5. w.qty # 0 /\ Funded(i, w) /\ (OrderTerms[i].tif = "FOK" => w.available >= Quantity(i))
    BY <1>2, <1>3 DEF Rejected
  <1>6. s \in {"BUY", "SELL"} /\ side = (IF s = "BUY" THEN "asks" ELSE "bids")
    BY DEF Side, OppositeSide
  <1>7. OppositeLevels(i) = books[k][side]
    BY DEF OppositeLevels
  <1> HIDE DEF i, k, s, side, new, fill
  <1>8. VenueTyped' /\ VenueGrows /\ FillsAddUp'
    <2>1. /\ new.intent \in Intents /\ new.filled \in Nat
          /\ fill.instrument = InstrumentOf[new.intent] /\ fill.side = Side(new.intent)
          /\ fill.qty = new.filled
      BY <1>1, <1>3, <1>4 DEF k, s
    <2> QED
      BY <1>2, <1>4, <2>1, OrderPlacedAndFilled DEF SimInductive, SimVenue
  <1>9. AnswersArePast'
    BY <1>8, AnswersStayPast DEF SimInductive, SimVenue
  <1>10. /\ cash' \in Nat
         /\ positions' \in [Instruments -> Nat]
         /\ positions'[k] = IF s = "BUY" THEN positions[k] + w.qty ELSE positions[k] - w.qty
         /\ \A j \in Instruments \ {k} : positions'[j] = positions[j]
    <2>1. cash \in Nat /\ positions \in [Instruments -> Nat] /\ positions[k] \in Nat
      BY <1>1 DEF SimInductive, SimTyped
    <2>2. IF s = "BUY" THEN w.cost + w.fee <= cash ELSE w.qty <= positions[k]
      BY <1>5 DEF Funded, s, k
    <2>3. w.qty \in Nat /\ w.cost \in Nat /\ w.fee \in Nat /\ w.fee <= w.cost
      BY <1>3
    <2>4. CASE s = "BUY"
      <3>1. cash' = cash - w.cost - w.fee /\ positions' = [positions EXCEPT ![k] = @ + w.qty]
        BY <1>2, <2>4
      <3>2. cash' \in Nat
        BY <2>1, <2>2, <2>3, <2>4, <3>1
      <3> QED
        BY <1>1, <2>1, <2>3, <2>4, <3>1, <3>2
    <2>5. CASE s # "BUY"
      <3>1. cash' = cash + w.cost - w.fee /\ positions' = [positions EXCEPT ![k] = @ - w.qty]
        BY <1>2, <2>5
      <3>2. cash' \in Nat
        BY <2>1, <2>3, <3>1
      <3> QED
        BY <1>1, <2>1, <2>2, <2>3, <2>5, <3>1, <3>2
    <2> QED
      BY <2>4, <2>5
  <1>11. /\ DOMAIN books' = Instruments
         /\ DOMAIN books'[k] = {"asks", "bids"}
         /\ books'[k][side] = w.left
         /\ \A other \in {"asks", "bids"} \ {side} : books'[k][other] = books[k][other]
         /\ \A j \in Instruments \ {k} : books'[j] = books[j]
    <2>1. DOMAIN books = Instruments /\ DOMAIN books[k] = {"asks", "bids"}
      BY <1>1 DEF SimInductive, SimTyped
    <2> QED
      BY <1>1, <1>2, <1>6, <2>1
  <1>12. SimTyped'
    BY <1>3, <1>6, <1>10, <1>11 DEF SimInductive, SimTyped
  <1>13. FillsExplainMarket'
    <2>1. \A t, j : TradedOn(j, t)' = TradedOn(j, t) +
            IF fill.instrument = j /\ fill.side = t THEN fill.qty ELSE 0
      BY <1>2, <1>3, <1>4, TradedGains DEF SimInductive, SimVenue
    <2>2. \A t, j : Traded(t, j) = TradedOn(j, t) /\ Traded(t, j)' = TradedOn(j, t)'
      BY DEF Traded, TradedOn, On
    <2>3. \A t, j : Traded(t, j) \in Int
      <3> TAKE t, j
      <3>1. IsFiniteSet(DOMAIN fills)
        BY FS_Interval DEF SimInductive, SimVenue, VenueTyped
      <3>2. IsFiniteSet({n \in DOMAIN fills : On(n, j, t)})
        BY <3>1, FS_Subset
      <3>3. \A n \in DOMAIN fills : [m \in DOMAIN fills |-> fills[m].qty][n] \in Int
        BY DEF SimInductive, SimVenue, VenueTyped
      <3> QED
        BY <2>2, <3>2, <3>3, SumIsInteger DEF TradedOn
    <2> SUFFICES ASSUME NEW j \in Instruments
                 PROVE  /\ positions'[j] = Traded("BUY", j)' - Traded("SELL", j)'
                        /\ SumFunction(books'[j].asks) = SumFunction(OpeningBooks[j].asks) - Traded("BUY", j)'
                        /\ SumFunction(books'[j].bids) = SumFunction(OpeningBooks[j].bids) - Traded("SELL", j)'
      BY DEF FillsExplainMarket
    <2>4. /\ positions[j] = Traded("BUY", j) - Traded("SELL", j)
          /\ SumFunction(books[j].asks) = SumFunction(OpeningBooks[j].asks) - Traded("BUY", j)
          /\ SumFunction(books[j].bids) = SumFunction(OpeningBooks[j].bids) - Traded("SELL", j)
      BY DEF SimInductive, FillsExplainMarket
    <2>5. /\ Traded("BUY", j)' = Traded("BUY", j) + IF k = j /\ s = "BUY" THEN w.qty ELSE 0
          /\ Traded("SELL", j)' = Traded("SELL", j) + IF k = j /\ s = "SELL" THEN w.qty ELSE 0
      BY <1>4, <2>1, <2>2
    <2>6. /\ SumFunction(OpeningBooks[j].asks) \in Int /\ SumFunction(OpeningBooks[j].bids) \in Int
      BY <2>4, BookAssumption, SumIsInteger DEF IsBookSide, SumFunction
    <2>7. CASE j # k
      BY <1>10, <1>11, <2>3, <2>4, <2>5, <2>7
    <2>8. CASE j = k /\ s = "BUY"
      <3>1. books'[k].asks = w.left /\ books'[k].bids = books[k].bids
        BY <1>6, <1>11, <2>8
      <3>2. SumFunction(w.left) = SumFunction(books[k].asks) - w.qty
        BY <1>3, <1>6, <1>7, <2>8
      <3> QED
        BY <1>3, <1>10, <2>3, <2>4, <2>5, <2>6, <2>8, <3>1, <3>2
    <2>9. CASE j = k /\ s = "SELL"
      <3>1. books'[k].bids = w.left /\ books'[k].asks = books[k].asks
        BY <1>6, <1>11, <2>9
      <3>2. SumFunction(w.left) = SumFunction(books[k].bids) - w.qty
        BY <1>3, <1>6, <1>7, <2>9
      <3> QED
        BY <1>3, <1>10, <2>3, <2>4, <2>5, <2>6, <2>9, <3>1, <3>2
    <2> QED
      BY <1>6, <2>7, <2>8, <2>9
  <1>14. FillsAreSound'
    <2>1. /\ DOMAIN fills' = DOMAIN fills \cup {Len(fills) + 1}
          /\ fills'[Len(fills) + 1] = fill /\ \A n \in DOMAIN fills : fills'[n] = fills[n]
          /\ Len(fills) + 1 \notin DOMAIN fills
      BY <1>2 DEF SimInductive, SimVenue, VenueTyped
    <2>2. orders'[Len(orders) + 1] = new
          /\ \A n \in DOMAIN fills : orders'[fills[n].order].intent = orders[fills[n].order].intent
      BY <1>2, <1>8 DEF SimInductive, SimVenue, VenueTyped, VenueGrows
    <2>3. \A f, j : FillIsSound(f, j)' = FillIsSound(f, j)
      BY DEF FillIsSound, Quantity, MintedExits
    <2>4. FillIsSound(fill, i)
      BY <1>3, <1>4, <1>5 DEF FillIsSound, Lesser
    <2>5. \A n \in DOMAIN fills' : FillIsSound(fills'[n], orders'[fills'[n].order].intent)
      BY <1>4, <2>1, <2>2, <2>4 DEF SimInductive, FillsAreSound
    <2> QED
      BY <2>3, <2>5 DEF FillsAreSound
  <1> QED
    BY <1>8, <1>9, <1>12, <1>13, <1>14 DEF SimInductive, SimVenue

\* Every step of the simulator, the coordinator and the operator.
LEMMA SimNextPreserves ==
  ASSUME SimInductive, [SimNext]_allVars
  PROVE  SimInductive'
  <1>0. CallsTyped'
    BY CallsStayTyped
  <1>1. /\ flattenQty \in [Instruments -> Nat] /\ positions \in [Instruments -> Nat]
        /\ \A o \in DOMAIN orders : orders[o].status \in Statuses
    BY DEF SimInductive, SimTyped, SimVenue, VenueTyped
  <1>2. ASSUME UNCHANGED <<cash, books, positions, orders, fills, flattenQty>>,
               \/ UNCHANGED reconcileVars
               \/ \E calls : ForgetAnswers(calls)
               \/ \E c \in Calls : QueryOpenOrders(c) \/ QueryFills(c)
        PROVE  SimInductive'
    BY <1>0, <1>1, <1>2, QuietStepPreserves
  <1>3. ASSUME NEW c \in Calls, NEW i \in Intents, SimDispatch(c, i)
        PROVE  SimInductive'
    BY <1>2, <1>3 DEF SimDispatch, marketVars
  <1>4. ASSUME NEW c \in Calls, Execute(c)
        PROVE  SimInductive'
    <2>1. c \in wire /\ UNCHANGED <<flattenQty, reconcileVars>>
      BY <1>4 DEF Execute
    <2>2. PICK w \in {Walk(arg[c])} : ExecuteAmbiguously(c) \/ Reject(c, w) \/ Fill(c, w)
      BY <1>4 DEF Execute
    <2>3. CASE ExecuteAmbiguously(c) \/ Reject(c, w)
      BY <1>2, <2>1, <2>3 DEF ExecuteAmbiguously, Reject, marketVars
    <2>4. CASE Fill(c, w)
      BY <1>0, <2>1, <2>2, <2>4, FillTrades
    <2> QED
      BY <2>2, <2>3, <2>4
  <1>5. CASE SimCancelAll
    <2>1. orders' = [o \in DOMAIN orders |->
                       IF Open(orders[o]) THEN [orders[o] EXCEPT !.status = "canceled"]
                       ELSE orders[o]]
      BY <1>5 DEF SimCancelAll
    <2>2. Len(orders') = Len(orders) /\ DOMAIN orders' = DOMAIN orders
      <3>1. DOMAIN orders' = 1..Len(orders)
        BY <2>1 DEF SimInductive, SimVenue, VenueTyped
      <3> QED
        BY <3>1 DEF SimInductive, SimVenue, VenueTyped
    <2>3. \A o \in DOMAIN orders : /\ orders'[o].intent = orders[o].intent
                                   /\ orders'[o].filled = orders[o].filled
                                   /\ orders'[o].status \in Statuses
      BY <1>1, <2>1 DEF Statuses, SimInductive, SimVenue, VenueTyped
    <2>4. UNCHANGED <<cash, books, positions, fills, flattenQty, reconcileVars>>
      BY <1>5 DEF SimCancelAll, marketVars
    <2> QED
      BY <1>0, <1>1, <2>2, <2>3, <2>4, QuietStepPreserves
  <1>6. CASE Flatten
    <2>1. flattenQty' = [k \in Instruments |-> IF flattenQty[k] = 0 THEN positions[k] ELSE flattenQty[k]]
          /\ UNCHANGED <<cash, books, positions, orders, fills, reconcileVars>>
      BY <1>6 DEF Flatten, marketVars, venueVars
    <2>2. flattenQty' \in [Instruments -> Nat]
      BY <1>1, <2>1
    <2>3. \A k \in Instruments : flattenQty[k] # 0 => flattenQty'[k] = flattenQty[k]
      BY <2>1
    <2> QED
      BY <1>0, <1>1, <2>1, <2>2, <2>3, QuietStepPreserves
  <1>7. ASSUME NEW c \in Calls, SimResume(c)
        PROVE  SimInductive'
    BY <1>2, <1>7 DEF SimResume, marketVars, venueVars, Conclude
  <1>8. CASE SimOperate
    BY <1>2, <1>8 DEF SimOperate, marketVars, venueVars, Crash
  <1>9. CASE UNCHANGED allVars
    BY <1>2, <1>9 DEF allVars, simVars, marketVars, venueVars
  <1> QED
    BY <1>3, <1>4, <1>5, <1>6, <1>7, <1>8, <1>9 DEF SimNext

\* The simulator starts with its cash and its books, and nothing traded.
LEMMA SimInitInductive == SimInit => SimInductive
  <1> SUFFICES ASSUME SimInit PROVE SimInductive
    OBVIOUS
  <1> USE DEF SimInit, Init, VenueInit, ReconcileInit
  <1>1. SimTyped
    <2>1. 100 * StartingCash \in Nat
      BY MoneyAssumption
    <2> QED
      BY <2>1, BookAssumption DEF SimTyped
  <1>2. CallsTyped
    BY DEF CallsTyped
  <1>3. DOMAIN orders = {} /\ DOMAIN fills = {} /\ Len(orders) = 0 /\ Len(fills) = 0
    OBVIOUS
  <1>4. VenueTyped
    BY <1>3 DEF VenueTyped
  <1>5. AnswersArePast
    BY DEF AnswersArePast, Untouched
  <1>6. \A k, s : TradedOn(k, s) = 0 /\ FilledOn(k, s) = 0
    <2> TAKE k, s
    <2>1. {n \in DOMAIN fills : On(n, k, s)} = {}
          /\ {o \in DOMAIN orders :
                InstrumentOf[orders[o].intent] = k /\ Side(orders[o].intent) = s} = {}
      BY <1>3
    <2> QED
      BY <2>1, SumOverNothing DEF TradedOn, FilledOn
  <1>7. FillsAddUp
    BY <1>6 DEF FillsAddUp
  <1>8. FillsExplainMarket
    <2>1. \A k, s : Traded(s, k) = 0
      BY <1>6 DEF Traded, TradedOn, On
    <2>2. \A k \in Instruments :
            SumFunction(OpeningBooks[k].asks) \in Int /\ SumFunction(OpeningBooks[k].bids) \in Int
      BY BookAssumption, SumIsInteger DEF IsBookSide, SumFunction
    <2> QED
      BY <2>1, <2>2 DEF FillsExplainMarket
  <1>9. FillsAreSound
    BY <1>3 DEF FillsAreSound
  <1> QED
    BY <1>1, <1>2, <1>4, <1>5, <1>7, <1>8, <1>9 DEF SimInductive, SimVenue

\* The simulator's state is always one the invariant describes.
LEMMA SimAlwaysInductive == SimSpec => []SimInductive
  BY SimInitInductive, SimNextPreserves, PTL DEF SimSpec

\* However orders race for the cash and the inventory of the account, across
\* instruments and across restarts of the coordinator, neither goes negative.
THEOREM CashAndInventoryHold == SimSpec => []FundedAndLong
  <1>1. SimInductive => FundedAndLong
    BY DEF SimInductive, SimTyped, FundedAndLong
  <1> QED
    BY <1>1, SimAlwaysInductive, PTL

\* No liquidity is sold twice and no fill is lost: the fills of an
\* instrument explain the inventory held and the depth that is gone.
THEOREM FillsExplainTheMarket == SimSpec => []FillsExplainMarket
  <1>1. SimInductive => FillsExplainMarket
    BY DEF SimInductive
  <1> QED
    BY <1>1, SimAlwaysInductive, PTL

\* Every fill is inside its intent's limit, and a FOK order is filled whole.
THEOREM FillsAreOnTerms == SimSpec => []FillsRespectTerms
  <1>1. SimInductive => FillsRespectTerms
    BY DEF SimInductive, FillsAreSound, FillIsSound, FillsRespectTerms
  <1> QED
    BY <1>1, SimAlwaysInductive, PTL

\* The simulator is one of the venues the coordinator is made for: all that
\* is proved of the coordinator holds of it in front of the simulator.
THEOREM SimulatorIsAVenue ==
  ASSUME VenueReports \subseteq Reports
  PROVE  SimSpec => Spec
  <1>1. SimInit => Init
    BY DEF SimInit
  <1>2. SimInductive /\ [SimNext]_allVars => [Next]_coordVars
    <2> SUFFICES ASSUME SimInductive, [SimNext]_allVars PROVE [Next]_coordVars
      OBVIOUS
    <2>1. ASSUME NEW c \in Calls, NEW i \in Intents, SimDispatch(c, i)
          PROVE  Next
      BY <2>1 DEF SimDispatch, Next
    <2>2. ASSUME NEW c \in Calls, Execute(c)
          PROVE  Next \/ UNCHANGED coordVars
      <3>1. PICK w \in {Walk(arg[c])} : ExecuteAmbiguously(c) \/ Reject(c, w) \/ Fill(c, w)
        BY <2>2 DEF Execute
      <3>2. w.qty \in Nat /\ Len(orders) + 1 \in Nat
        <4>1. arg[c] \in Intents /\ w = Walk(arg[c])
          BY <2>2, <3>1 DEF Execute, SimInductive, CallsTyped
        <4>2. w.qty \in Nat
          BY <4>1, WalkIsSound DEF SimInductive
        <4> QED
          BY <4>2 DEF SimInductive, SimVenue, VenueTyped
      <3>3. \E rep \in VenueReports : Answer(c, rep)
        <4>1. \A status \in {"unknown", "rejected", "filled", "partially_filled"} :
                \A order, filled \in Nat : ReportOf(status, order, filled) \in VenueReports
          BY DEF ReportOf, VenueReports, Statuses
        <4> QED
          BY <3>1, <3>2, <4>1 DEF ExecuteAmbiguously, Reject, Fill
      <3> QED
        BY <3>3 DEF Answer, Next, Continue
    <2>3. ASSUME NEW c \in Calls, SimResume(c)
          PROVE  Next \/ UNCHANGED coordVars
      <3>1. CASE Conclude(c)
        <4>1. /\ ~ Untouched(openSeen, c) /\ ~ Untouched(fillsSeen, c) /\ arg[c] \in Intents
              /\ FinishReconcile(c, Recovered(c))
          BY <3>1 DEF Conclude, FinishReconcile, SimInductive, CallsTyped
        <4>2. Recovered(c) \in Reports \cup {NoReport}
          BY <4>1, RecoveredIsReal DEF SimInductive, SimVenue, NamesAlike
        <4> QED
          BY <4>1, <4>2 DEF Next, Continue
      <3>2. CASE ~ Conclude(c)
        BY <2>3, <3>2 DEF SimResume, QueryOpenOrders, QueryFills, Next, Continue
      <3> QED
        BY <3>1, <3>2
    <2>4. CASE SimOperate
      BY <2>4 DEF SimOperate, Crash, Next
    <2>5. CASE SimCancelAll \/ Flatten \/ UNCHANGED allVars
      BY <2>5 DEF SimCancelAll, Flatten, allVars
    <2> QED
      BY <2>1, <2>2, <2>3, <2>4, <2>5 DEF SimNext
  <1> QED
    BY <1>1, <1>2, SimAlwaysInductive, PTL DEF SimSpec, Spec

-----------------------------------------------------------------------------
(* The live venue.                                                         *)

LiveTyped ==
    /\ DOMAIN phase = Calls /\ DOMAIN arg = Calls
    /\ generation \in Nat
    /\ wire \subseteq Calls /\ IsFiniteSet(wire)
    /\ \A c \in wire : phase[c] # "idle" /\ arg[c] \in Intents
    /\ Len(orders) \in Nat /\ DOMAIN orders = 1..Len(orders)

\* Until the seen ids are lost, what is on the wire or at the exchange has
\* been seen, and of one intent it is one thing.
PostsAreSeen ==
    generation = 0 =>
        /\ \A c \in wire : arg[c] \in seen /\ OrdersOf(arg[c]) = {}
        /\ \A o \in DOMAIN orders : orders[o].intent \in seen
        /\ \A c, d \in wire : arg[c] = arg[d] => c = d
        /\ \A o, p \in DOMAIN orders : orders[o].intent = orders[p].intent => o = p

LiveInductive == LiveTyped /\ PostsAreSeen

\* What a call is about does not change once it has been made, and ids are
\* only forgotten by a restart that counts.
CallsStay ==
    /\ DOMAIN phase' = Calls /\ DOMAIN arg' = Calls
    /\ generation' \in Nat
    /\ \A c \in Calls : phase[c] # "idle" => phase'[c] # "idle" /\ arg'[c] = arg[c]
    /\ generation' = 0 => generation = 0 /\ seen \subseteq seen'

-----------------------------------------------------------------------------
\* An untouched exchange has nothing on the wire.
LEMMA LiveInitInductive == LiveInit => LiveInductive
  <1> SUFFICES ASSUME LiveInit PROVE LiveInductive
    OBVIOUS
  <1>1. LiveTyped
    BY FS_EmptySet DEF LiveInit, VenueInit, Init, LiveTyped
  <1>2. PostsAreSeen
    BY DEF LiveInit, VenueInit, PostsAreSeen
  <1> QED
    BY <1>1, <1>2 DEF LiveInductive

\* A step that leaves the wire alone, and of the orders their number and
\* intents, preserves the invariant.
LEMMA SamePostsPreserve ==
  ASSUME LiveInductive, CallsStay, wire' = wire,
         DOMAIN orders' = DOMAIN orders, Len(orders') = Len(orders),
         \A o \in DOMAIN orders : orders'[o].intent = orders[o].intent
  PROVE  LiveInductive'
  <1>1. LiveTyped'
    BY DEF LiveInductive, LiveTyped, CallsStay
  <1>2. PostsAreSeen'
    BY DEF LiveInductive, LiveTyped, PostsAreSeen, CallsStay, OrdersOf
  <1> QED
    BY <1>1, <1>2 DEF LiveInductive

\* A call that is in flight, or none, moves on.
LEMMA ContinuationsStay ==
  ASSUME LiveInductive,
         \/ UNCHANGED coordVars
         \/ \E c \in Calls : \E rep : VenueAnswers(c, rep)
         \/ \E c \in Calls : Return(c) \/ BeginReconcile(c) \/ Rethrow(c) \/ ReconcileThrows(c)
         \/ \E c \in Calls : \E rec : FinishReconcile(c, rec)
         \/ \E s \in RunStates : SetRunState(s)
         \/ \E prior \in {seen, {}} : Restart(prior)
  PROVE  CallsStay
  <1>1. CASE UNCHANGED coordVars
    BY <1>1 DEF coordVars, LiveInductive, LiveTyped, CallsStay
  <1>2. CASE \E c \in Calls : \E rep : VenueAnswers(c, rep)
    BY <1>2 DEF VenueAnswers, Advance, LiveInductive, LiveTyped, CallsStay
  <1>3. CASE \E c \in Calls : Return(c) \/ BeginReconcile(c) \/ Rethrow(c) \/ ReconcileThrows(c)
    BY <1>3 DEF Return, BeginReconcile, Rethrow, ReconcileThrows, Advance, Settle,
                LiveInductive, LiveTyped, CallsStay
  <1>4. CASE \E c \in Calls : \E rec : FinishReconcile(c, rec)
    BY <1>4 DEF FinishReconcile, Settle, LiveInductive, LiveTyped, CallsStay
  <1>5. CASE \E s \in RunStates : SetRunState(s)
    BY <1>5 DEF SetRunState, LiveInductive, LiveTyped, CallsStay
  <1>6. CASE \E prior \in {seen, {}} : Restart(prior)
    BY <1>6 DEF Restart, LiveInductive, LiveTyped, CallsStay
  <1> QED
    BY <1>1, <1>2, <1>3, <1>4, <1>5, <1>6

\* A call that is dispatched is sent, if it is, with an id not seen before.
LEMMA DispatchPreserves ==
  ASSUME LiveInductive, NEW c \in Calls, NEW i \in Intents, LiveDispatch(c, i)
  PROVE  LiveInductive'
  <1>1. /\ phase[c] = "idle" /\ c \notin wire
        /\ arg' = [arg EXCEPT ![c] = i] /\ generation' = generation /\ orders' = orders
    BY DEF LiveDispatch, Dispatch, SkipHalted, SkipPaused, SkipDuplicate, SkipBusy, Skip, Submit,
           LiveInductive, LiveTyped
  <1>2. \/ \E reason \in SkipReasons : phase' = [phase EXCEPT ![c] = reason] /\ seen' = seen
        \/ phase' = [phase EXCEPT ![c] = "submitting"] /\ i \notin seen /\ seen' = seen \cup {i}
    BY DEF LiveDispatch, Dispatch, SkipHalted, SkipPaused, SkipDuplicate, SkipBusy, Skip, Submit,
           MarkSeen, SkipReasons
  <1>3. CallsStay
    BY <1>1, <1>2 DEF LiveInductive, LiveTyped, CallsStay, SkipReasons
  <1>4. CASE phase'[c] # "submitting"
    <2>1. wire' = wire
      BY <1>4 DEF LiveDispatch
    <2> QED
      BY <1>1, <1>3, <2>1, SamePostsPreserve
  <1>5. CASE phase'[c] = "submitting"
    <2>1. wire' = wire \cup {c}
      BY <1>5 DEF LiveDispatch
    <2>2. i \notin seen /\ seen' = seen \cup {i}
      BY <1>2, <1>5 DEF LiveInductive, LiveTyped, SkipReasons
    <2>3. LiveTyped'
      <3>1. IsFiniteSet(wire')
        BY <2>1, FS_AddElement DEF LiveInductive, LiveTyped
      <3> QED
        BY <1>1, <1>3, <1>5, <2>1, <3>1 DEF LiveInductive, LiveTyped, CallsStay
    <2>4. PostsAreSeen'
      <3>1. arg'[c] = i /\ \A d \in wire : d # c /\ arg'[d] = arg[d]
        BY <1>1 DEF LiveInductive, LiveTyped
      <3> QED
        BY <1>1, <2>1, <2>2, <3>1 DEF LiveInductive, PostsAreSeen, OrdersOf
    <2> QED
      BY <2>3, <2>4 DEF LiveInductive
  <1> QED
    BY <1>4, <1>5

\* A post that arrives leaves the wire, and makes one order or none.
LEMMA DeliverPreserves ==
  ASSUME LiveInductive, NEW c \in Calls, Deliver(c)
  PROVE  LiveInductive'
  <1>1. /\ c \in wire /\ wire' = wire \ {c} /\ UNCHANGED coordVars
        /\ Land(c) \/ orders' = orders
    BY DEF Deliver, Refuse, Drop
  <1>2. CallsStay
    BY <1>1, ContinuationsStay
  <1>3. IsFiniteSet(wire')
    BY <1>1, FS_RemoveElement DEF LiveInductive, LiveTyped
  <1>4. CASE orders' = orders
    <2>1. LiveTyped'
      BY <1>1, <1>2, <1>3, <1>4 DEF LiveInductive, LiveTyped, CallsStay
    <2>2. PostsAreSeen'
      BY <1>1, <1>4 DEF LiveInductive, PostsAreSeen, OrdersOf, coordVars
    <2> QED
      BY <2>1, <2>2 DEF LiveInductive
  <1>5. CASE Land(c)
    <2>1. PICK new : orders' = Append(orders, new) /\ new.intent = arg[c]
      BY <1>5 DEF Land
    <2>2. /\ Len(orders') = Len(orders) + 1 /\ DOMAIN orders' = 1..(Len(orders) + 1)
          /\ orders'[Len(orders) + 1].intent = arg[c]
          /\ \A o \in DOMAIN orders : orders'[o] = orders[o]
      BY <2>1 DEF LiveInductive, LiveTyped
    <2>3. LiveTyped'
      BY <1>1, <1>2, <1>3, <2>2 DEF LiveInductive, LiveTyped, CallsStay
    <2>4. PostsAreSeen'
      <3> SUFFICES ASSUME generation = 0
                   PROVE  /\ \A d \in wire' : arg[d] \in seen /\ OrdersOf(arg[d])' = {}
                          /\ \A o \in DOMAIN orders' : orders'[o].intent \in seen
                          /\ \A d, e \in wire' : arg[d] = arg[e] => d = e
                          /\ \A o, p \in DOMAIN orders' :
                                orders'[o].intent = orders'[p].intent => o = p
        BY <1>1 DEF PostsAreSeen, coordVars
      <3>1. DOMAIN orders' = DOMAIN orders \cup {Len(orders) + 1}
        BY <2>2 DEF LiveInductive, LiveTyped
      <3> QED
        BY <1>1, <2>2, <3>1 DEF LiveInductive, LiveTyped, PostsAreSeen, OrdersOf, coordVars
    <2> QED
      BY <2>3, <2>4 DEF LiveInductive
  <1> QED
    BY <1>1, <1>4, <1>5

\* A match or a cancellation leaves an order the order it was.
LEMMA TradingPreserves ==
  ASSUME LiveInductive, LiveCancelAll \/ \E o \in DOMAIN orders : Match(o)
  PROVE  LiveInductive'
  <1>1. UNCHANGED coordVars /\ wire' = wire
    BY DEF LiveCancelAll, Match
  <1>2. /\ DOMAIN orders' = DOMAIN orders /\ Len(orders') = Len(orders)
        /\ \A o \in DOMAIN orders : orders'[o].intent = orders[o].intent
    <2>1. CASE LiveCancelAll
      <3>1. orders' = [o \in DOMAIN orders |->
                         IF Open(orders[o]) THEN [orders[o] EXCEPT !.status = "canceled"]
                         ELSE orders[o]]
        BY <2>1 DEF LiveCancelAll
      <3>2. DOMAIN orders' = 1..Len(orders)
        BY <3>1 DEF LiveInductive, LiveTyped
      <3>3. Len(orders') = Len(orders)
        BY <3>2 DEF LiveInductive, LiveTyped
      <3> QED
        BY <3>1, <3>3
    <2>2. ASSUME NEW n \in DOMAIN orders, Match(n)
          PROVE  /\ DOMAIN orders' = DOMAIN orders /\ Len(orders') = Len(orders)
                 /\ \A o \in DOMAIN orders : orders'[o].intent = orders[o].intent
      <3>1. orders' = [orders EXCEPT ![n].filled = @ + 1,
                                     ![n].status = FilledStatus(orders[n].filled + 1)]
        BY <2>2 DEF Match
      <3>2. DOMAIN orders' = 1..Len(orders)
        BY <3>1 DEF LiveInductive, LiveTyped
      <3>3. Len(orders') = Len(orders)
        BY <3>2 DEF LiveInductive, LiveTyped
      <3> QED
        BY <3>1, <3>3
    <2> QED
      BY <2>1, <2>2
  <1> QED
    BY <1>1, <1>2, ContinuationsStay, SamePostsPreserve

\* The other steps are the coordinator's, the operator's and the answers'.
LEMMA OthersPreserve ==
  ASSUME LiveInductive,
         LiveOperate \/ \E c \in Calls : Acknowledge(c) \/ PostFails(c) \/ LiveResume(c)
  PROVE  LiveInductive'
  <1>1. CASE LiveOperate
    <2>1. orders' = orders /\ wire' = wire
      BY <1>1 DEF LiveOperate, venueVars
    <2>2. CallsStay
      BY <1>1, ContinuationsStay DEF LiveOperate, Crash
    <2> QED
      BY <2>1, <2>2, SamePostsPreserve
  <1>2. ASSUME NEW c \in Calls, Acknowledge(c) \/ PostFails(c)
        PROVE  LiveInductive'
    <2>1. orders' = orders /\ wire' = wire /\ \E rep : VenueAnswers(c, rep)
      BY <1>2 DEF Acknowledge, PostFails, venueVars
    <2> QED
      BY <2>1, ContinuationsStay, SamePostsPreserve
  <1>3. ASSUME NEW c \in Calls, LiveResume(c)
        PROVE  LiveInductive'
    <2>1. orders' = orders /\ wire' = wire
      BY <1>3 DEF LiveResume, exchangeVars, venueVars
    <2>2. \/ Return(c) \/ BeginReconcile(c) \/ Rethrow(c) \/ ReconcileThrows(c)
          \/ UNCHANGED coordVars
          \/ \E rec : FinishReconcile(c, rec)
      BY <1>3 DEF LiveResume, QueryThrows, QueryOpenOrders, QueryFills, Conclude
    <2>3. CallsStay
      BY <2>2, ContinuationsStay
    <2> QED
      BY <2>1, <2>3, SamePostsPreserve
  <1> QED
    BY <1>1, <1>2, <1>3

\* Every step preserves the invariant.
LEMMA LiveNextPreserves == LiveInductive /\ [LiveNext]_liveVars => LiveInductive'
  <1> SUFFICES ASSUME LiveInductive, [LiveNext]_liveVars PROVE LiveInductive'
    OBVIOUS
  <1>1. CASE \E c \in Calls, i \in Intents : LiveDispatch(c, i)
    BY <1>1, DispatchPreserves
  <1>2. CASE \E c \in Calls : Deliver(c)
    BY <1>2, DeliverPreserves
  <1>3. CASE LiveCancelAll \/ \E o \in DOMAIN orders : Match(o)
    BY <1>3, TradingPreserves
  <1>4. CASE LiveOperate \/ \E c \in Calls : Acknowledge(c) \/ PostFails(c) \/ LiveResume(c)
    BY <1>4, OthersPreserve
  <1>5. CASE UNCHANGED liveVars
    BY <1>5, ContinuationsStay, SamePostsPreserve DEF liveVars, exchangeVars, venueVars
  <1> QED
    BY <1>1, <1>2, <1>3, <1>4, <1>5 DEF LiveNext

\* The invariant holds throughout.
LEMMA LiveAlwaysInductive == LiveSpec => []LiveInductive
  BY LiveInitInductive, LiveNextPreserves, PTL DEF LiveSpec

\* Until the seen ids are lost the exchange holds at most one order of an
\* intent, whatever is lost, late, ambiguous or dispatched again: the seen
\* check of dispatch() in front of submitIntent.
THEOREM OneOrderEach == LiveSpec => []OneOrderPerIntent
  <1>1. LiveInductive => OneOrderPerIntent
    BY DEF LiveInductive, PostsAreSeen, OneOrderPerIntent, OrdersOf
  <1> QED
    BY <1>1, LiveAlwaysInductive, PTL

-----------------------------------------------------------------------------
\* While halted nothing is posted, and each post on the wire makes at most
\* one order: the run-state check of dispatch().
THEOREM HaltDrains == LiveSpec => HaltOnlyDrainsOrders
  <1> DEFINE Drains ==
        runState = "halted" =>
          /\ wire' \subseteq wire
          /\ Len(orders') + Cardinality(wire') <= Len(orders) + Cardinality(wire)
          /\ \A o \in DOMAIN orders : Open(orders'[o]) => Open(orders[o])
  <1>1. LiveInductive /\ [LiveNext]_liveVars => [Drains]_liveVars
    <2> SUFFICES ASSUME LiveInductive, LiveNext, runState = "halted" PROVE Drains
      OBVIOUS
    <2>1. Len(orders) \in Nat /\ DOMAIN orders = 1..Len(orders) /\ Cardinality(wire) \in Nat
      BY FS_CardinalityType DEF LiveInductive, LiveTyped
    <2>2. ASSUME wire' = wire, DOMAIN orders' = DOMAIN orders,
                 \A o \in DOMAIN orders : Open(orders'[o]) => Open(orders[o])
          PROVE  Drains
      <3>1. Len(orders') = Len(orders)
        BY <2>1, <2>2
      <3> QED
        BY <2>1, <2>2, <3>1
    <2> HIDE DEF Drains
    <2>3. ASSUME NEW c \in Calls, NEW i \in Intents, LiveDispatch(c, i)
          PROVE  Drains
      <3>1. phase' = [phase EXCEPT ![c] = "halted"]
        BY <2>3 DEF LiveDispatch, Dispatch, SkipHalted, SkipPaused, SkipDuplicate, SkipBusy,
                    Submit, Skip, Admits
      <3>2. wire' = wire /\ orders' = orders
        BY <2>3, <3>1 DEF LiveDispatch, LiveInductive, LiveTyped
      <3> QED
        BY <2>2, <3>2
    <2>4. ASSUME NEW c \in Calls, Deliver(c)
          PROVE  Drains
      <3>1. c \in wire /\ wire' = wire \ {c}
        BY <2>4 DEF Deliver
      <3>2. Cardinality(wire') = Cardinality(wire) - 1
        BY <3>1, FS_RemoveElement DEF LiveInductive, LiveTyped
      <3>3. \/ orders' = orders
            \/ Len(orders') = Len(orders) + 1 /\ \A o \in DOMAIN orders : orders'[o] = orders[o]
        <4>1. orders' = orders \/ \E new : orders' = Append(orders, new)
          BY <2>4 DEF Deliver, Land, Refuse, Drop
        <4> QED
          BY <4>1, <2>1
      <3> QED
        BY <2>1, <3>1, <3>2, <3>3 DEF Drains
    <2>5. CASE LiveCancelAll
      BY <2>2, <2>5 DEF LiveCancelAll, Open
    <2>6. ASSUME NEW n \in DOMAIN orders, Match(n)
          PROVE  Drains
      BY <2>2, <2>6 DEF Match
    <2>7. CASE LiveOperate \/ \E c \in Calls : Acknowledge(c) \/ PostFails(c) \/ LiveResume(c)
      <3>1. wire' = wire /\ orders' = orders
        BY <2>7 DEF LiveOperate, Acknowledge, PostFails, LiveResume, exchangeVars, venueVars
      <3> QED
        BY <2>2, <3>1
    <2> QED
      BY <2>3, <2>4, <2>5, <2>6, <2>7 DEF LiveNext
  <1>2. HaltOnlyDrainsOrders <=> [][Drains]_liveVars
    BY DEF HaltOnlyDrainsOrders
  <1> QED
    BY <1>1, <1>2, LiveAlwaysInductive, PTL DEF LiveSpec

-----------------------------------------------------------------------------
(* What the coordinator reports of the exchange.                           *)

\* Call c was refused: until the seen ids are lost, its intent has no order
\* and none will come.
Refused(c) ==
    generation = 0 =>
        arg[c] \in seen /\ OrdersOf(arg[c]) = {} /\ \A d \in wire : arg[d] # arg[c]

\* A report to call c is true of the exchange.
IsTrue(c, rep) ==
    IF rep.status = "rejected" THEN Refused(c) ELSE Names(rep.order, arg[c], rep.filled)

Acknowledged(ack) == ReportOf(MapStatus(ack.raw), ack.order, ack.filled)

CallIsTrue(c) ==
    /\ phase[c] # "idle" => arg[c] \in Intents
    /\ reply[c] # NoReport =>
          /\ phase[c] = "submitting"
          /\ reply[c].order \in Nat /\ reply[c].filled \in Nat
          /\ IsTrue(c, Acknowledged(reply[c]))
    /\ phase[c] \in {"answered", "executed"} =>
          report[c] \in VenueReports /\ (Ambiguous(report[c]) \/ IsTrue(c, report[c]))
    /\ phase[c] = "executed" => ~ Ambiguous(report[c])

\* What has been recovered is real.
RecoveryIsReal(c) ==
    phase[c] = "recovered" =>
        /\ report[c] \in VenueReports
        /\ report[c].order \in DOMAIN orders
        /\ InstrumentOf[orders[report[c].order].intent] = InstrumentOf[arg[c]]
        /\ Side(orders[report[c].order].intent) = Side(arg[c])
        /\ report[c].filled <= FilledOn(InstrumentOf[arg[c]], Side(arg[c]))

CallsAreTrue ==
    /\ DOMAIN reply = Calls /\ DOMAIN report = Calls
    /\ \A c \in Calls : CallIsTrue(c) /\ RecoveryIsReal(c)

LiveVenue == VenueTyped /\ AnswersArePast /\ FillsAddUp
LiveTruth == LiveInductive /\ LiveVenue /\ CallsAreTrue

\* An order that arrives was on the wire, and a call joins the wire with an
\* intent that had not been seen.
PostsComeFromCalls ==
    /\ \A o \in DOMAIN orders' \ DOMAIN orders : \E d \in wire : orders'[o].intent = arg[d]
    /\ \A d \in wire' \ wire : arg'[d] \notin seen

\* Whatever the exchange answers becomes a status of the interface, and only
\* a refusal is taken for one.
LEMMA StatusesAreMapped ==
  /\ \A raw : MapStatus(raw) \in Statuses
  /\ \A status \in {"live", "partially_filled", "filled", "canceled"} :
        \A raw \in RawStatuses(status) : MapStatus(raw) # "rejected"
  /\ MapStatus("rejected") = "rejected"
  BY DEF MapStatus, Statuses, RawStatuses

\* What a landing order does to the exchange.
LEMMA LandPlaces ==
  ASSUME LiveInductive, LiveVenue, NEW c \in wire, Land(c)
  PROVE  /\ VenueTyped' /\ VenueGrows /\ FillsAddUp'
         /\ DOMAIN orders' = DOMAIN orders \cup {Len(orders) + 1}
         /\ orders'[Len(orders) + 1].intent = arg[c]
         /\ \E raw :
              /\ MapStatus(raw) # "rejected"
              /\ AnswerWith(c, raw, Len(orders) + 1, orders'[Len(orders) + 1].filled)
  <1> DEFINE id == Len(orders) + 1
  <1>0. PICK n \in 0..Lots : \E status \in {FilledStatus(n), "canceled"} : \E raw \in RawStatuses(status) :
          /\ orders' = Append(orders, [intent |-> arg[c], status |-> status, filled |-> n])
          /\ fills' = FillsWith(id, arg[c], n)
          /\ AnswerWith(c, raw, id, n)
    BY DEF Land
  <1>1. PICK status \in {FilledStatus(n), "canceled"} : \E raw \in RawStatuses(status) :
          /\ orders' = Append(orders, [intent |-> arg[c], status |-> status, filled |-> n])
          /\ fills' = FillsWith(id, arg[c], n)
          /\ AnswerWith(c, raw, id, n)
    BY <1>0
  <1>2. status \in {"live", "partially_filled", "filled", "canceled"}
    BY <1>1 DEF FilledStatus
  <1> DEFINE new == [intent |-> arg[c], status |-> status, filled |-> n]
  <1>3. /\ new.intent = arg[c] /\ new.intent \in Intents /\ new.status \in Statuses
        /\ new.filled = n /\ n \in Nat /\ orders' = Append(orders, new)
    <2>1. arg[c] \in Intents
      BY DEF LiveInductive, LiveTyped
    <2> QED
      BY <1>1, <1>2, <2>1, LotsAssumption DEF Statuses
  <1>4. /\ Len(orders') = id /\ DOMAIN orders' = 1..id /\ orders'[id] = new
    BY <1>3 DEF LiveVenue, VenueTyped
  <1>5. VenueTyped' /\ VenueGrows /\ FillsAddUp'
    <2> HIDE DEF new
    <2>1. CASE n = 0
      <3>1. fills' = fills
        BY <1>1, <2>1 DEF FillsWith
      <3> QED
        BY <1>3, <2>1, <3>1, OrderPlaced DEF LiveVenue
    <2>2. CASE n # 0
      <3> DEFINE fill == [order |-> id, instrument |-> InstrumentOf[arg[c]],
                          side |-> Side(arg[c]), qty |-> n]
      <3>1. fills' = Append(fills, fill)
        BY <1>1, <2>2 DEF FillsWith
      <3>2. /\ fill.order = Len(orders) + 1 /\ fill.instrument = InstrumentOf[new.intent]
            /\ fill.side = Side(new.intent) /\ fill.qty = new.filled
        BY <1>3
      <3>3. new.filled \in Nat
        BY <1>3
      <3> HIDE DEF fill, id
      <3> QED
        BY <1>3, <3>1, <3>2, <3>3, OrderPlacedAndFilled DEF LiveVenue
    <2> QED
      BY <2>1, <2>2
  <1>6. DOMAIN orders' = DOMAIN orders \cup {id}
    BY <1>4 DEF LiveVenue, VenueTyped
  <1>7. \E raw : MapStatus(raw) # "rejected" /\ AnswerWith(c, raw, id, orders'[id].filled)
    <2>1. orders'[id].filled = n
      BY <1>3, <1>4
    <2> QED
      BY <1>1, <1>2, <2>1, StatusesAreMapped
  <1> QED
    BY <1>3, <1>4, <1>5, <1>6, <1>7

\* Every step but a landing order's leaves the orders to their intents.
LEMMA ExchangeStep ==
  ASSUME LiveInductive, LiveVenue, [LiveNext]_liveVars
  PROVE  VenueTyped' /\ VenueGrows /\ FillsAddUp' /\ PostsComeFromCalls
  <1>1. ASSUME orders' = orders, fills' = fills, \A d \in wire' \ wire : arg'[d] \notin seen
        PROVE  VenueTyped' /\ VenueGrows /\ FillsAddUp' /\ PostsComeFromCalls
    <2>1. /\ Len(orders') = Len(orders) /\ DOMAIN orders' = DOMAIN orders
          /\ \A o \in DOMAIN orders : /\ orders'[o].intent = orders[o].intent
                                      /\ orders'[o].filled = orders[o].filled
                                      /\ orders'[o].status \in Statuses
      BY <1>1 DEF LiveVenue, VenueTyped
    <2> QED
      BY <1>1, <2>1, NothingTraded DEF LiveVenue, PostsComeFromCalls
  <1>2. ASSUME NEW c \in Calls, NEW i \in Intents, LiveDispatch(c, i)
        PROVE  VenueTyped' /\ VenueGrows /\ FillsAddUp' /\ PostsComeFromCalls
    <2>1. orders' = orders /\ fills' = fills
      BY <1>2 DEF LiveDispatch
    <2>2. \A d \in wire' \ wire : arg'[d] \notin seen
      <3>1. wire' \ wire \subseteq {c} /\ (wire' # wire => phase'[c] = "submitting")
        BY <1>2 DEF LiveDispatch
      <3>2. phase'[c] = "submitting" => i \notin seen /\ arg'[c] = i
        BY <1>2 DEF LiveDispatch, Dispatch, SkipHalted, SkipPaused, SkipDuplicate, SkipBusy, Skip,
                    Submit, LiveInductive, LiveTyped
      <3> QED
        BY <3>1, <3>2
    <2> QED
      BY <1>1, <2>1, <2>2
  <1>3. ASSUME NEW c \in Calls, Deliver(c)
        PROVE  VenueTyped' /\ VenueGrows /\ FillsAddUp' /\ PostsComeFromCalls
    <2>1. c \in wire /\ wire' = wire \ {c} /\ (Land(c) \/ (orders' = orders /\ fills' = fills))
      BY <1>3 DEF Deliver, Refuse, Drop
    <2>2. CASE Land(c)
      BY <2>1, <2>2, LandPlaces DEF PostsComeFromCalls
    <2> QED
      BY <1>1, <2>1, <2>2
  <1>4. CASE LiveCancelAll
    <2>1. orders' = [o \in DOMAIN orders |->
                       IF Open(orders[o]) THEN [orders[o] EXCEPT !.status = "canceled"]
                       ELSE orders[o]]
          /\ fills' = fills /\ wire' = wire
      BY <1>4 DEF LiveCancelAll
    <2>2. DOMAIN orders' = 1..Len(orders)
      BY <2>1 DEF LiveVenue, VenueTyped
    <2>3. /\ Len(orders') = Len(orders) /\ DOMAIN orders' = DOMAIN orders
      BY <2>2 DEF LiveVenue, VenueTyped
    <2>4. \A o \in DOMAIN orders : /\ orders'[o].intent = orders[o].intent
                                   /\ orders'[o].filled = orders[o].filled
                                   /\ orders'[o].status \in Statuses
      BY <2>1 DEF LiveVenue, VenueTyped, Statuses
    <2> QED
      BY <2>1, <2>3, <2>4, NothingTraded DEF LiveVenue, PostsComeFromCalls
  <1>5. ASSUME NEW o \in DOMAIN orders, Match(o)
        PROVE  VenueTyped' /\ VenueGrows /\ FillsAddUp' /\ PostsComeFromCalls
    <2> DEFINE fill == [order |-> o, instrument |-> InstrumentOf[orders[o].intent],
                        side |-> Side(orders[o].intent), qty |-> 1]
               status == FilledStatus(orders[o].filled + 1)
    <2>1. /\ orders' = [orders EXCEPT ![o].filled = @ + 1, ![o].status = status]
          /\ fills' = Append(fills, fill) /\ wire' = wire
      BY <1>5 DEF Match, FillsWith
    <2>2. /\ fill.order = o /\ fill.instrument = InstrumentOf[orders[o].intent]
          /\ fill.side = Side(orders[o].intent) /\ fill.qty = 1 /\ 1 \in Nat
      OBVIOUS
    <2>3. status \in Statuses
      BY DEF FilledStatus, Statuses
    <2> HIDE DEF fill, status
    <2>4. VenueTyped' /\ VenueGrows /\ FillsAddUp'
      BY <2>1, <2>2, <2>3, OrderMatched DEF LiveVenue
    <2>5. DOMAIN orders' = DOMAIN orders
      BY <2>1
    <2> QED
      BY <2>1, <2>4, <2>5 DEF PostsComeFromCalls
  <1>6. CASE \/ LiveOperate \/ UNCHANGED liveVars
             \/ \E c \in Calls : Acknowledge(c) \/ PostFails(c) \/ LiveResume(c)
    <2>1. orders' = orders /\ fills' = fills /\ wire' = wire
      BY <1>6 DEF LiveOperate, liveVars, Acknowledge, PostFails, LiveResume, exchangeVars, venueVars
    <2> QED
      BY <1>1, <2>1
  <1> QED
    BY <1>2, <1>3, <1>4, <1>5, <1>6 DEF LiveNext

\* Nothing but the two queries and leaving reconcile() changes what a call
\* has been told.
LEMMA LiveAnswersStay ==
  ASSUME LiveVenue, VenueTyped', VenueGrows, [LiveNext]_liveVars
  PROVE  AnswersArePast'
  <1>1. \/ UNCHANGED reconcileVars
        \/ \E calls : ForgetAnswers(calls)
        \/ \E c \in Calls : QueryOpenOrders(c) \/ QueryFills(c)
    <2>1. ASSUME NEW c \in Calls, LiveResume(c)
          PROVE  \/ UNCHANGED reconcileVars
                 \/ \E calls : ForgetAnswers(calls)
                 \/ QueryOpenOrders(c) \/ QueryFills(c)
      BY <2>1 DEF LiveResume, QueryThrows, Conclude
    <2>2. ASSUME LiveOperate
          PROVE  UNCHANGED reconcileVars \/ \E calls : ForgetAnswers(calls)
      BY <2>2 DEF LiveOperate, Crash
    <2>3. ASSUME NEW c \in Calls, \/ Acknowledge(c) \/ PostFails(c) \/ Deliver(c)
                                  \/ \E i \in Intents : LiveDispatch(c, i)
          PROVE  UNCHANGED reconcileVars
      BY <2>3 DEF Acknowledge, PostFails, Deliver, LiveDispatch
    <2>4. ASSUME \/ LiveCancelAll \/ UNCHANGED liveVars
                 \/ \E o \in DOMAIN orders : Match(o)
          PROVE  UNCHANGED reconcileVars
      BY <2>4 DEF LiveCancelAll, Match, liveVars
    <2> QED
      BY <2>1, <2>2, <2>3, <2>4 DEF LiveNext
  <1> QED
    BY <1>1, AnswersStayPast DEF LiveVenue

-----------------------------------------------------------------------------
\* A step: calls keep what they are about, and the exchange only goes on.
LiveStep == CallsStay /\ VenueTyped' /\ VenueGrows /\ PostsComeFromCalls

\* What was true of a call's order stays true.
LEMMA TruthStays ==
  ASSUME LiveTruth, LiveStep, NEW c \in Calls, phase[c] # "idle",
         NEW rep, rep.filled \in Nat, IsTrue(c, rep)
  PROVE  IsTrue(c, rep)'
  <1>1. arg'[c] = arg[c]
    BY DEF LiveStep, CallsStay
  <1>2. CASE rep.status = "rejected"
    <2>1. SUFFICES ASSUME generation' = 0
                   PROVE  /\ arg[c] \in seen' /\ OrdersOf(arg[c])' = {}
                          /\ \A d \in wire' : arg'[d] # arg[c]
      BY <1>1, <1>2 DEF IsTrue, Refused, OrdersOf
    <2>2. generation = 0 /\ seen \subseteq seen'
      BY <2>1 DEF LiveStep, CallsStay
    <2>3. arg[c] \in seen /\ OrdersOf(arg[c]) = {} /\ \A d \in wire : arg[d] # arg[c]
      BY <1>2, <2>2 DEF IsTrue, Refused
    <2>4. \A d \in wire' : arg'[d] # arg[c]
      BY <2>3 DEF LiveStep, PostsComeFromCalls, CallsStay, LiveTruth, LiveInductive, LiveTyped
    <2>5. \A o \in DOMAIN orders' : orders'[o].intent # arg[c]
      BY <2>3 DEF LiveStep, PostsComeFromCalls, VenueGrows, OrdersOf
    <2> QED
      BY <1>1, <2>2, <2>3, <2>4, <2>5 DEF OrdersOf
  <1>3. CASE rep.status # "rejected"
    <2>1. Names(rep.order, arg[c], rep.filled)
      BY <1>3 DEF IsTrue
    <2>2. Names(rep.order, arg[c], rep.filled)'
      BY <1>1, <2>1 DEF Names, LiveStep, VenueGrows, VenueTyped, LiveTruth, LiveVenue
    <2> QED
      BY <1>1, <1>3, <2>2 DEF IsTrue
  <1> QED
    BY <1>2, <1>3

\* Call c is given no acknowledgement, no answer and no recovery.
Quiet(c) ==
    /\ reply'[c] = NoReport \/ (reply'[c] = reply[c] /\ phase'[c] = phase[c])
    /\ phase'[c] \in {"answered", "executed"} =>
          /\ report'[c] = report[c]
          /\ phase[c] = phase'[c] \/ (phase[c] = "answered" /\ ~ Ambiguous(report[c]))
    /\ phase'[c] = "recovered" => phase[c] = "recovered" /\ report'[c] = report[c]

\* A call that is not answered, or only returns its answer, stays true.
LEMMA QuietCallStaysTrue ==
  ASSUME LiveTruth, LiveStep, NEW c \in Calls,
         phase'[c] # "idle" => arg'[c] \in Intents, Quiet(c)
  PROVE  CallIsTrue(c)' /\ RecoveryIsReal(c)'
  <1>1. CallIsTrue(c) /\ RecoveryIsReal(c)
    BY DEF LiveTruth, CallsAreTrue
  <1>2. ASSUME reply'[c] # NoReport
        PROVE  /\ phase'[c] = "submitting"
               /\ reply'[c].order \in Nat /\ reply'[c].filled \in Nat
               /\ IsTrue(c, Acknowledged(reply[c]))'
    <2>1. /\ reply'[c] = reply[c] /\ phase'[c] = phase[c] /\ phase[c] = "submitting"
          /\ reply[c].order \in Nat /\ reply[c].filled \in Nat
          /\ IsTrue(c, Acknowledged(reply[c]))
      BY <1>1, <1>2 DEF CallIsTrue, Quiet
    <2> DEFINE rep == Acknowledged(reply[c])
    <2>2. rep.filled \in Nat
      BY <2>1 DEF Acknowledged, ReportOf
    <2>3. Acknowledged(reply[c])' = rep
      BY <2>1 DEF Acknowledged
    <2> HIDE DEF rep
    <2>4. \A r : r.filled \in Nat /\ IsTrue(c, r) => IsTrue(c, r)'
      BY <2>1, TruthStays
    <2> QED
      BY <1>2, <2>1, <2>2, <2>3, <2>4 DEF rep
  <1>3. ASSUME phase'[c] \in {"answered", "executed"}
        PROVE  /\ report'[c] \in VenueReports
               /\ Ambiguous(report[c])' \/ IsTrue(c, report[c])'
               /\ phase'[c] = "executed" => ~ Ambiguous(report[c])'
    <2> DEFINE rep == report[c]
    <2>1. /\ phase[c] # "idle" /\ rep \in VenueReports /\ (Ambiguous(rep) \/ IsTrue(c, rep))
          /\ phase'[c] = "executed" => ~ Ambiguous(rep)
      BY <1>1, <1>3 DEF CallIsTrue, Quiet
    <2>2. rep.filled \in Nat
      BY <2>1 DEF VenueReports
    <2>3. report'[c] = rep
      BY <1>3 DEF Quiet
    <2> HIDE DEF rep
    <2>4. \A r : r.filled \in Nat /\ IsTrue(c, r) => IsTrue(c, r)'
      BY <2>1, TruthStays
    <2> QED
      BY <2>1, <2>2, <2>3, <2>4 DEF Ambiguous
  <1>4. ASSUME phase'[c] = "recovered"
        PROVE  /\ report'[c] \in VenueReports
               /\ report'[c].order \in DOMAIN orders'
               /\ InstrumentOf[orders'[report'[c].order].intent] = InstrumentOf[arg'[c]]
               /\ Side(orders'[report'[c].order].intent) = Side(arg'[c])
               /\ report'[c].filled <= FilledOn(InstrumentOf[arg[c]], Side(arg[c]))'
    <2> DEFINE k == InstrumentOf[arg[c]]
               s == Side(arg[c])
    <2>1. phase[c] = "recovered" /\ report'[c] = report[c] /\ arg'[c] = arg[c]
      BY <1>4 DEF Quiet, LiveStep, CallsStay
    <2>2. /\ report[c] \in VenueReports /\ report[c].order \in DOMAIN orders
          /\ InstrumentOf[orders[report[c].order].intent] = k
          /\ Side(orders[report[c].order].intent) = s
          /\ report[c].filled <= FilledOn(k, s) /\ report[c].filled \in Nat
      BY <1>1, <2>1 DEF RecoveryIsReal, VenueReports
    <2>3. k' = k /\ s' = s
      BY <2>1 DEF Side
    <2> HIDE DEF k, s
    <2>4. \A kk, ss : /\ FilledOn(kk, ss) <= FilledOn(kk, ss)'
                      /\ FilledOn(kk, ss) \in Nat /\ FilledOn(kk, ss)' \in Nat
      BY FilledOnlyGrows DEF LiveTruth, LiveVenue, LiveStep
    <2>5. report[c].filled <= FilledOn(k, s)'
      BY <2>2, <2>3, <2>4
    <2>6. /\ report[c].order \in DOMAIN orders'
          /\ orders'[report[c].order].intent = orders[report[c].order].intent
      BY <2>2 DEF LiveStep, VenueGrows
    <2> QED
      BY <2>1, <2>2, <2>3, <2>5, <2>6 DEF k, s, Side
  <1> QED
    BY <1>2, <1>3, <1>4 DEF CallIsTrue, RecoveryIsReal

\* An acknowledgement that is awaited, or a post that throws.
LEMMA AnswerIsTrue ==
  ASSUME LiveTruth, LiveStep, NEW c \in Calls, Acknowledge(c) \/ PostFails(c)
  PROVE  CallsAreTrue'
  <1>0. DOMAIN phase = Calls /\ DOMAIN report = Calls /\ DOMAIN reply = Calls
        /\ \A d \in Calls : CallIsTrue(d)
    BY DEF LiveTruth, CallsAreTrue, LiveInductive, LiveTyped
  <1>1. PICK rep : /\ VenueAnswers(c, rep) /\ reply' = [reply EXCEPT ![c] = NoReport]
                   /\ \/ rep = Acknowledged(reply[c]) /\ reply[c] # NoReport
                      \/ rep = ReportOf("unknown", 0, 0)
    BY DEF Acknowledge, PostFails, Acknowledged
  <1>2. /\ phase[c] = "submitting" /\ phase' = [phase EXCEPT ![c] = "answered"] /\ arg' = arg
        /\ report' = [report EXCEPT ![c] = rep]
    BY <1>1 DEF VenueAnswers, Advance
  <1>3. \A d \in Calls : phase'[d] # "idle" => arg'[d] \in Intents
    BY <1>0, <1>2 DEF CallIsTrue
  <1>4. rep \in VenueReports /\ (Ambiguous(rep) \/ IsTrue(c, rep))
    <2>1. CASE rep = Acknowledged(reply[c]) /\ reply[c] # NoReport
      <3>1. reply[c].order \in Nat /\ reply[c].filled \in Nat /\ IsTrue(c, rep)
        BY <1>0, <2>1 DEF CallIsTrue
      <3>2. MapStatus(reply[c].raw) \in Statuses
        BY StatusesAreMapped
      <3> QED
        BY <2>1, <3>1, <3>2 DEF Acknowledged, ReportOf, VenueReports
    <2>2. CASE rep = ReportOf("unknown", 0, 0)
      BY <2>2 DEF ReportOf, VenueReports, Statuses, Ambiguous
    <2> QED
      BY <1>1, <2>1, <2>2
  <1>5. CallIsTrue(c)' /\ RecoveryIsReal(c)'
    <2>1. Ambiguous(rep) \/ IsTrue(c, rep)'
      <3>1. rep.filled \in Nat
        BY <1>4 DEF VenueReports
      <3> QED
        BY <1>2, <1>4, <3>1, TruthStays
    <2>2. phase'[c] = "answered" /\ report'[c] = rep /\ reply'[c] = NoReport
      BY <1>0, <1>1, <1>2
    <2> QED
      BY <1>3, <1>4, <2>1, <2>2 DEF CallIsTrue, RecoveryIsReal, Ambiguous
  <1>6. ASSUME NEW d \in Calls, d # c
        PROVE  CallIsTrue(d)' /\ RecoveryIsReal(d)'
    <2>1. Quiet(d)
      BY <1>0, <1>1, <1>2, <1>6 DEF Quiet
    <2> QED
      BY <1>3, <2>1, QuietCallStaysTrue
  <1>7. DOMAIN reply' = Calls /\ DOMAIN report' = Calls
    BY <1>0, <1>1, <1>2
  <1> QED
    BY <1>5, <1>6, <1>7 DEF CallsAreTrue

\* A post that reaches the exchange, or is lost on the way.
LEMMA DeliveryIsTrue ==
  ASSUME LiveTruth, LiveStep, NEW c \in Calls, Deliver(c)
  PROVE  CallsAreTrue'
  <1>0. DOMAIN reply = Calls /\ DOMAIN report = Calls /\ \A d \in Calls : CallIsTrue(d)
    BY DEF LiveTruth, CallsAreTrue
  <1>1. /\ c \in wire /\ wire' = wire \ {c} /\ (Land(c) \/ Refuse(c) \/ Drop(c))
        /\ phase' = phase /\ arg' = arg /\ report' = report /\ seen' = seen
        /\ generation' = generation
    BY DEF Deliver, coordVars
  <1>2. \A d \in Calls : phase'[d] # "idle" => arg'[d] \in Intents
    BY <1>0, <1>1 DEF CallIsTrue
  <1>3. CASE reply' = reply
    BY <1>0, <1>1, <1>2, <1>3, QuietCallStaysTrue DEF Quiet, CallsAreTrue
  <1>4. ASSUME NEW raw, NEW o \in Nat, NEW n \in Nat, phase[c] = "submitting",
               reply' = [reply EXCEPT ![c] = [raw |-> raw, order |-> o, filled |-> n]],
               IsTrue(c, ReportOf(MapStatus(raw), o, n))'
        PROVE  CallsAreTrue'
    <2>1. CallIsTrue(c)' /\ RecoveryIsReal(c)'
      <3>1. reply'[c] = [raw |-> raw, order |-> o, filled |-> n]
        BY <1>0, <1>4
      <3>2. Acknowledged(reply[c])' = ReportOf(MapStatus(raw), o, n)
        BY <3>1 DEF Acknowledged, ReportOf, MapStatus
      <3>3. IsTrue(c, Acknowledged(reply[c]))'
        BY <1>4, <3>2
      <3> QED
        BY <1>1, <1>2, <1>4, <3>1, <3>3 DEF CallIsTrue, RecoveryIsReal
    <2>2. ASSUME NEW d \in Calls, d # c
          PROVE  CallIsTrue(d)' /\ RecoveryIsReal(d)'
      <3>1. Quiet(d)
        BY <1>0, <1>1, <1>4, <2>2 DEF Quiet
      <3> QED
        BY <1>2, <3>1, QuietCallStaysTrue
    <2> QED
      BY <1>0, <1>1, <1>4, <2>1, <2>2 DEF CallsAreTrue
  <1>5. CASE Land(c)
    <2>1. PICK raw : /\ MapStatus(raw) # "rejected"
                     /\ AnswerWith(c, raw, Len(orders) + 1, orders'[Len(orders) + 1].filled)
      BY <1>1, <1>5, LandPlaces DEF LiveTruth
    <2>2. CASE phase[c] = "submitting"
      <3>0. PICK o, n : o = Len(orders) + 1 /\ n = orders'[o].filled
        OBVIOUS
      <3>1. o \in DOMAIN orders' /\ orders'[o].intent = arg[c] /\ o \in Nat /\ n \in Nat
        <4>1. o \in DOMAIN orders' /\ orders'[o].intent = arg[c]
          BY <1>1, <1>5, <3>0, LandPlaces DEF LiveTruth
        <4> QED
          BY <3>0, <4>1 DEF LiveTruth, LiveStep, VenueTyped, LiveVenue
      <3>2. reply' = [reply EXCEPT ![c] = [raw |-> raw, order |-> o, filled |-> n]]
        BY <2>1, <2>2, <3>0 DEF AnswerWith
      <3>3. Names(o, arg[c], n)'
        BY <1>1, <3>0, <3>1 DEF Names
      <3>4. IsTrue(c, ReportOf(MapStatus(raw), o, n))'
        BY <2>1, <3>3 DEF IsTrue, ReportOf, MapStatus
      <3> QED
        BY <1>4, <2>2, <3>1, <3>2, <3>4
    <2>3. CASE phase[c] # "submitting"
      BY <1>3, <2>1, <2>3 DEF AnswerWith
    <2> QED
      BY <2>2, <2>3
  <1>6. CASE Refuse(c)
    <2>1. AnswerWith(c, "rejected", 0, 0) /\ orders' = orders
      BY <1>6 DEF Refuse
    <2>2. CASE phase[c] = "submitting"
      <3>1. reply' = [reply EXCEPT ![c] = [raw |-> "rejected", order |-> 0, filled |-> 0]]
        BY <2>1, <2>2 DEF AnswerWith
      <3>2. Refused(c)'
        <4>1. generation = 0 => /\ arg[c] \in seen /\ OrdersOf(arg[c]) = {}
                                /\ \A d \in wire \ {c} : arg[d] # arg[c]
          BY <1>1 DEF LiveTruth, LiveInductive, PostsAreSeen
        <4> QED
          BY <1>1, <2>1, <4>1 DEF Refused, OrdersOf
      <3>3. IsTrue(c, ReportOf(MapStatus("rejected"), 0, 0))'
        BY <3>2, StatusesAreMapped DEF IsTrue, ReportOf, MapStatus
      <3> QED
        BY <1>4, <2>2, <3>1, <3>3
    <2>3. CASE phase[c] # "submitting"
      BY <1>3, <2>1, <2>3 DEF AnswerWith
    <2> QED
      BY <2>2, <2>3
  <1> QED
    BY <1>1, <1>3, <1>5, <1>6 DEF Drop

\* A dispatch, a continuation, the operator and the rest of the exchange.
LEMMA OthersStayTrue ==
  ASSUME LiveTruth, LiveStep,
         \/ LiveOperate \/ LiveCancelAll \/ UNCHANGED liveVars
         \/ \E o \in DOMAIN orders : Match(o)
         \/ \E c \in Calls : LiveResume(c) \/ \E i \in Intents : LiveDispatch(c, i)
  PROVE  CallsAreTrue'
  <1>0. /\ DOMAIN phase = Calls /\ DOMAIN arg = Calls /\ DOMAIN report = Calls
        /\ DOMAIN reply = Calls /\ \A d \in Calls : CallIsTrue(d) /\ RecoveryIsReal(d)
    BY DEF LiveTruth, CallsAreTrue, LiveInductive, LiveTyped
  <1>1. \A d \in Calls : phase[d] # "idle" => arg'[d] \in Intents
    BY <1>0 DEF LiveStep, CallsStay, CallIsTrue
  <1>2. ASSUME DOMAIN reply' = Calls, DOMAIN report' = Calls,
               \A d \in Calls : phase'[d] # "idle" => phase[d] # "idle" \/ arg'[d] \in Intents,
               \A d \in Calls : Quiet(d) \/ (CallIsTrue(d)' /\ RecoveryIsReal(d)')
        PROVE  CallsAreTrue'
    BY <1>1, <1>2, QuietCallStaysTrue DEF CallsAreTrue
  <1>3. ASSUME UNCHANGED coordVars, reply' = reply
        PROVE  CallsAreTrue'
    BY <1>0, <1>2, <1>3 DEF coordVars, Quiet
  <1>4. CASE LiveCancelAll \/ UNCHANGED liveVars \/ \E o \in DOMAIN orders : Match(o)
    BY <1>3, <1>4 DEF LiveCancelAll, Match, liveVars, exchangeVars
  <1>5. CASE LiveOperate
    <2>1. CASE \E s \in RunStates : SetRunState(s) /\ UNCHANGED reply
      BY <1>0, <1>2, <2>1 DEF SetRunState, Quiet
    <2>2. CASE \E prior \in {seen, {}} : Restart(prior) /\ reply' = [c \in Calls |-> NoReport]
      <3>1. /\ report' = report /\ reply' = [c \in Calls |-> NoReport]
            /\ phase' = [c \in Calls |-> IF InFlight(c) THEN "lost" ELSE phase[c]]
        BY <2>2 DEF Restart
      <3>2. \A d \in Calls : Quiet(d)
        BY <1>0, <3>1 DEF Quiet
      <3>3. \A d \in Calls : phase'[d] # "idle" => phase[d] # "idle"
        BY <3>1 DEF InFlight, InFlightPhases
      <3> QED
        BY <1>0, <1>2, <3>1, <3>2, <3>3
    <2> QED
      BY <1>5, <2>1, <2>2 DEF LiveOperate, Crash
  <1>6. ASSUME NEW c \in Calls, NEW i \in Intents, LiveDispatch(c, i)
        PROVE  CallsAreTrue'
    <2>1. /\ phase[c] = "idle" /\ arg' = [arg EXCEPT ![c] = i]
          /\ report' = report /\ reply' = reply
      BY <1>6 DEF LiveDispatch, Dispatch, SkipHalted, SkipPaused, SkipDuplicate, SkipBusy, Skip, Submit
    <2>2. \E next \in SkipReasons \cup {"submitting"} : phase' = [phase EXCEPT ![c] = next]
      BY <1>6 DEF LiveDispatch, Dispatch, SkipHalted, SkipPaused, SkipDuplicate, SkipBusy, Skip,
                  Submit, SkipReasons
    <2>3. reply[c] = NoReport
      BY <1>0, <2>1 DEF CallIsTrue
    <2>4. \A d \in Calls : Quiet(d)
      BY <1>0, <2>1, <2>2, <2>3 DEF Quiet, SkipReasons
    <2>5. \A d \in Calls : phase'[d] # "idle" => phase[d] # "idle" \/ arg'[d] \in Intents
      BY <1>0, <2>1, <2>2
    <2> QED
      BY <1>0, <1>2, <2>1, <2>4, <2>5
  <1>7. ASSUME NEW c \in Calls, LiveResume(c)
        PROVE  CallsAreTrue'
    <2>1. reply' = reply
      BY <1>7 DEF LiveResume, exchangeVars
    <2>2. CASE QueryOpenOrders(c) \/ QueryFills(c)
      BY <1>3, <2>1, <2>2 DEF QueryOpenOrders, QueryFills
    <2>3. CASE Return(c) \/ BeginReconcile(c) \/ Rethrow(c) \/ QueryThrows(c)
      <3>1. /\ phase[c] \in {"answered", "reconciling", "failing"} /\ report' = report
            /\ \E next \in {"executed", "reconciling", "failing", "threw"} :
                 /\ phase' = [phase EXCEPT ![c] = next]
                 /\ next = "executed" => phase[c] = "answered" /\ ~ Ambiguous(report[c])
        BY <2>3 DEF Return, BeginReconcile, Rethrow, QueryThrows, ReconcileThrows, Settle, Advance
      <3>2. reply[c] = NoReport
        BY <1>0, <3>1 DEF CallIsTrue
      <3>3. \A d \in Calls : Quiet(d)
        BY <1>0, <2>1, <3>1, <3>2 DEF Quiet
      <3>4. \A d \in Calls : phase'[d] # "idle" => phase[d] # "idle"
        BY <1>0, <3>1
      <3> QED
        BY <1>0, <1>2, <2>1, <3>1, <3>3, <3>4
    <2>4. CASE Conclude(c)
      <3> DEFINE rec == Recovered(c)
      <3>1. /\ ~ Untouched(openSeen, c) /\ ~ Untouched(fillsSeen, c)
            /\ phase[c] = "reconciling" /\ arg' = arg
            /\ \/ report' = report /\ phase' = [phase EXCEPT ![c] = "unrecovered"]
               \/ /\ report' = [report EXCEPT ![c] = rec] /\ rec # NoReport
                  /\ phase' = [phase EXCEPT ![c] = "recovered"]
        BY <2>4 DEF Conclude, FinishReconcile, Settle
      <3>2. orders' = orders
        BY <1>7 DEF LiveResume, exchangeVars, venueVars
      <3>3. arg[c] \in Intents /\ reply[c] = NoReport
        BY <1>0, <3>1 DEF CallIsTrue
      <3>4. rec = NoReport \/ NamesAlike(rec, arg[c])
        BY <3>1, <3>3, RecoveredIsReal DEF LiveTruth, LiveVenue
      <3> HIDE DEF rec
      <3>5. \A d \in Calls \ {c} : Quiet(d)
        BY <1>0, <2>1, <3>1 DEF Quiet
      <3>6. CallIsTrue(c)'
        BY <1>0, <2>1, <3>1, <3>3 DEF CallIsTrue
      <3>7. RecoveryIsReal(c)'
        <4>1. SUFFICES ASSUME phase'[c] = "recovered"
                       PROVE  RecoveryIsReal(c)'
          BY DEF RecoveryIsReal
        <4>2. report'[c] = rec /\ NamesAlike(rec, arg[c])
          BY <1>0, <3>1, <3>4, <4>1
        <4>3. \A k, s : FilledOn(k, s)' = FilledOn(k, s)
          BY <3>2 DEF FilledOn, Side
        <4>4. rec.filled <= FilledOn(InstrumentOf[arg[c]], Side(arg[c]))
          BY <3>3, <4>2 DEF NamesAlike, LiveTruth, LiveVenue, FillsAddUp
        <4> QED
          BY <3>1, <3>2, <4>2, <4>3, <4>4 DEF NamesAlike, RecoveryIsReal, Side
      <3>8. \A d \in Calls : phase'[d] # "idle" => phase[d] # "idle"
        BY <1>0, <3>1
      <3>9. DOMAIN reply' = Calls /\ DOMAIN report' = Calls
        BY <1>0, <2>1, <3>1
      <3> QED
        BY <1>2, <3>5, <3>6, <3>7, <3>8, <3>9
    <2> QED
      BY <1>7, <2>2, <2>3, <2>4 DEF LiveResume
  <1> QED
    BY <1>4, <1>5, <1>6, <1>7

-----------------------------------------------------------------------------
\* A call that is given a message keeps what it is about.
LEMMA CallsAlwaysStay ==
  ASSUME LiveInductive, [LiveNext]_liveVars
  PROVE  CallsStay
  <1>1. ASSUME NEW c \in Calls, NEW i \in Intents, LiveDispatch(c, i)
        PROVE  CallsStay
    <2>1. /\ phase[c] = "idle" /\ arg' = [arg EXCEPT ![c] = i] /\ generation' = generation
          /\ seen \subseteq seen'
          /\ \E next \in SkipReasons \cup {"submitting"} : phase' = [phase EXCEPT ![c] = next]
      BY <1>1 DEF LiveDispatch, Dispatch, SkipHalted, SkipPaused, SkipDuplicate, SkipBusy, Skip,
                  Submit, MarkSeen, SkipReasons
    <2> QED
      BY <2>1 DEF LiveInductive, LiveTyped, CallsStay
  <1>2. ASSUME NEW c \in Calls, LiveResume(c)
        PROVE  CallsStay
    <2>1. \/ Return(c) \/ BeginReconcile(c) \/ Rethrow(c) \/ ReconcileThrows(c)
          \/ UNCHANGED coordVars
          \/ \E rec : FinishReconcile(c, rec)
      BY <1>2 DEF LiveResume, QueryThrows, QueryOpenOrders, QueryFills, Conclude
    <2> QED
      BY <2>1, ContinuationsStay
  <1>3. ASSUME NEW c \in Calls, Acknowledge(c) \/ PostFails(c)
        PROVE  CallsStay
    <2>1. \E rep : VenueAnswers(c, rep)
      BY <1>3 DEF Acknowledge, PostFails
    <2> QED
      BY <2>1, ContinuationsStay
  <1>4. CASE LiveOperate
    BY <1>4, ContinuationsStay DEF LiveOperate, Crash
  <1>5. CASE \/ LiveCancelAll \/ UNCHANGED liveVars
             \/ \E c \in Calls : Deliver(c)
             \/ \E o \in DOMAIN orders : Match(o)
    BY <1>5, ContinuationsStay DEF LiveCancelAll, liveVars, Deliver, Match
  <1> QED
    BY <1>1, <1>2, <1>3, <1>4, <1>5 DEF LiveNext

\* Every step keeps the exchange and the reports in agreement.
LEMMA LiveTruthPreserved == LiveTruth /\ [LiveNext]_liveVars => LiveTruth'
  <1> SUFFICES ASSUME LiveTruth, [LiveNext]_liveVars PROVE LiveTruth'
    OBVIOUS
  <1>1. LiveInductive'
    BY LiveNextPreserves DEF LiveTruth
  <1>2. VenueTyped' /\ VenueGrows /\ FillsAddUp' /\ PostsComeFromCalls
    BY ExchangeStep DEF LiveTruth
  <1>3. AnswersArePast'
    BY <1>2, LiveAnswersStay DEF LiveTruth
  <1>4. LiveStep
    BY <1>2, CallsAlwaysStay DEF LiveTruth, LiveStep
  <1>5. CallsAreTrue'
    BY <1>4, AnswerIsTrue, DeliveryIsTrue, OthersStayTrue DEF LiveNext
  <1> QED
    BY <1>1, <1>2, <1>3, <1>5 DEF LiveTruth, LiveVenue

\* An untouched exchange has been told nothing and tells nothing.
LEMMA LiveTruthInitially == LiveInit => LiveTruth
  <1> SUFFICES ASSUME LiveInit PROVE LiveTruth
    OBVIOUS
  <1>1. VenueTyped /\ AnswersArePast
    BY DEF LiveInit, VenueInit, ReconcileInit, VenueTyped, AnswersArePast, Untouched
  <1>2. FillsAddUp
    <2>1. \A k, s : FilledOn(k, s) = 0 /\ TradedOn(k, s) = 0
      <3> TAKE k, s
      <3> DEFINE f == [o \in DOMAIN orders |-> orders[o].filled]
                 g == [n \in DOMAIN fills |-> fills[n].qty]
      <3>1. {o \in DOMAIN orders : InstrumentOf[orders[o].intent] = k /\ Side(orders[o].intent) = s} = {}
            /\ {n \in DOMAIN fills : On(n, k, s)} = {}
        BY DEF LiveInit, VenueInit
      <3>2. FilledOn(k, s) = SumFunctionOnSet(f, {}) /\ TradedOn(k, s) = SumFunctionOnSet(g, {})
        BY <3>1 DEF FilledOn, TradedOn
      <3> QED
        BY <3>2, SumOverNothing
    <2> QED
      BY <2>1 DEF FillsAddUp
  <1>3. CallsAreTrue
    BY DEF LiveInit, Init, CallsAreTrue, CallIsTrue, RecoveryIsReal
  <1> QED
    BY <1>1, <1>2, <1>3, LiveInitInductive DEF LiveTruth, LiveVenue

\* The exchange and the reports agree throughout.
LEMMA LiveAlwaysTrue == LiveSpec => []LiveTruth
  BY LiveTruthInitially, LiveTruthPreserved, PTL DEF LiveSpec

\* A report returned as "executed" is venue truth: mapStatus and the two ways
\* out of submitIntent, and the instrument lock and seen check in front of it.
THEOREM ExecutedIsTrue == LiveSpec => []ExecutedReportIsTrue
  <1>1. LiveTruth => ExecutedReportIsTrue
    <2> SUFFICES ASSUME LiveTruth, NEW c \in Calls, phase[c] = "executed"
                 PROVE  IF report[c].status = "rejected"
                        THEN generation = 0 => OrdersOf(arg[c]) = {}
                        ELSE /\ report[c].order \in OrdersOf(arg[c])
                             /\ report[c].filled <= orders[report[c].order].filled
      BY DEF ExecutedReportIsTrue
    <2>1. IsTrue(c, report[c])
      BY DEF LiveTruth, CallsAreTrue, CallIsTrue
    <2> QED
      BY <2>1 DEF IsTrue, Refused, Names, OrdersOf
  <1> QED
    BY <1>1, LiveAlwaysTrue, PTL

\* What reconcile() recovers is an order the exchange holds, on the right
\* instrument and side, and no more than has traded there.
THEOREM RecoveredIsRealOrder == LiveSpec => []RecoveryNamesARealOrder
  <1>1. LiveTruth => RecoveryNamesARealOrder
    BY DEF LiveTruth, CallsAreTrue, RecoveryIsReal, RecoveryNamesARealOrder, FilledOn
  <1> QED
    BY <1>1, LiveAlwaysTrue, PTL

-----------------------------------------------------------------------------
\* The live venue is one of those the coordinator is made for: all that is
\* proved of the coordinator holds of it in front of the exchange.
THEOREM LiveVenueIsAVenue ==
  ASSUME VenueReports \subseteq Reports
  PROVE  LiveSpec => Spec
  <1>1. LiveInit => Init
    BY DEF LiveInit
  <1>2. LiveTruth /\ [LiveNext]_liveVars => [Next]_coordVars
    <2> SUFFICES ASSUME LiveTruth, [LiveNext]_liveVars PROVE [Next]_coordVars
      OBVIOUS
    <2>0. \A c \in Calls : CallIsTrue(c)
      BY DEF LiveTruth, CallsAreTrue
    <2>1. ASSUME NEW c \in Calls, NEW i \in Intents, LiveDispatch(c, i)
          PROVE  Next
      BY <2>1 DEF LiveDispatch, Next
    <2>2. ASSUME NEW c \in Calls, Acknowledge(c) \/ PostFails(c)
          PROVE  Next
      <3>1. Acknowledge(c) => Acknowledged(reply[c]) \in VenueReports
        BY <2>0, StatusesAreMapped DEF Acknowledge, CallIsTrue, Acknowledged, ReportOf, VenueReports
      <3>2. ReportOf("unknown", 0, 0) \in VenueReports
        BY DEF ReportOf, VenueReports, Statuses
      <3>3. \E rep \in Reports : VenueAnswers(c, rep)
        BY <2>2, <3>1, <3>2 DEF Acknowledge, PostFails, Acknowledged
      <3> QED
        BY <3>3 DEF Next, Continue
    <2>3. ASSUME NEW c \in Calls, LiveResume(c)
          PROVE  Next \/ UNCHANGED coordVars
      <3>1. CASE Conclude(c)
        <4>1. /\ ~ Untouched(openSeen, c) /\ ~ Untouched(fillsSeen, c) /\ arg[c] \in Intents
              /\ FinishReconcile(c, Recovered(c))
          BY <2>0, <3>1 DEF Conclude, FinishReconcile, CallIsTrue
        <4>2. Recovered(c) \in Reports \cup {NoReport}
          BY <4>1, RecoveredIsReal DEF LiveTruth, LiveVenue, NamesAlike
        <4> QED
          BY <4>1, <4>2 DEF Next, Continue
      <3>2. CASE ~ Conclude(c)
        BY <2>3, <3>2 DEF LiveResume, QueryThrows, QueryOpenOrders, QueryFills, Next, Continue
      <3> QED
        BY <3>1, <3>2
    <2>4. CASE LiveOperate
      BY <2>4 DEF LiveOperate, Crash, Next
    <2>5. CASE \/ LiveCancelAll \/ UNCHANGED liveVars
               \/ \E c \in Calls : Deliver(c)
               \/ \E o \in DOMAIN orders : Match(o)
      BY <2>5 DEF LiveCancelAll, liveVars, Deliver, Match
    <2> QED
      BY <2>1, <2>2, <2>3, <2>4, <2>5 DEF LiveNext
  <1> QED
    BY <1>1, <1>2, LiveAlwaysTrue, PTL DEF LiveSpec, Spec
=============================================================================
