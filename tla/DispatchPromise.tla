--------------------------- MODULE DispatchPromise ---------------------------
(***************************************************************************)
(* What the execution coordinator promises to the rest of the system,      *)
(* without saying how: every instrument has one slot, an intent is sent    *)
(* only into a free slot and only once, an emergency state narrows what    *)
(* may be sent, and the only thing that forgets what was sent is a restart *)
(* of the process.                                                         *)
(***************************************************************************)
CONSTANTS
    Intents,        \* client intent ids
    Instruments,    \* instrument keys
    InstrumentOf,   \* the instrument an intent trades
    Entries,        \* the intents that open or add to a position (BUY)
    Free            \* an empty slot

VARIABLES
    slot,           \* the intent in flight on each instrument, or Free
    sent,           \* intents this process remembers having sent
    gate            \* "all", "exits" or "none": what may still be sent

vars == <<slot, sent, gate>>

NoFlight == [k \in Instruments |-> Free]

Init ==
    /\ slot = NoFlight
    /\ sent = {}
    /\ gate = "all"

Allowed(i) == gate = "all" \/ (gate = "exits" /\ i \notin Entries)

Send(i) ==
    /\ Allowed(i)
    /\ i \notin sent
    /\ slot[InstrumentOf[i]] = Free
    /\ slot' = [slot EXCEPT ![InstrumentOf[i]] = i]
    /\ sent' = sent \cup {i}
    /\ UNCHANGED gate

Settle(k) ==
    /\ slot[k] # Free
    /\ slot' = [slot EXCEPT ![k] = Free]
    /\ UNCHANGED <<sent, gate>>

SetGate ==
    /\ gate' \in {"all", "exits", "none"}
    /\ UNCHANGED <<slot, sent>>

\* A restart empties every slot, reopens the gate, and either remembers all
\* of `sent` or none of it.
Restart ==
    /\ slot' = NoFlight
    /\ sent' \in {sent, {}}
    /\ gate' = "all"

Next ==
    \/ \E i \in Intents : Send(i)
    \/ \E k \in Instruments : Settle(k)
    \/ SetGate
    \/ Restart

Spec == Init /\ [][Next]_vars
=============================================================================
