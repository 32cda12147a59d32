-------------------------- MODULE MCPolymarketVenue --------------------------
(***************************************************************************)
(* Two dispatches among two entries and an exit on one instrument: the replay  *)
(* of an ambiguous intent, two entries that look alike to reconcile(), and *)
(* an exit whose fill must not be taken for an entry's.                    *)
(***************************************************************************)
EXTENDS PolymarketVenue, TLC

CONSTANTS c1, c2, enterA, addA, exitA, instA

MCInstrumentOf == [i \in Intents |-> instA]

MCReports ==
    [status : {"unknown", "rejected", "live", "filled", "partially_filled", "canceled"},
     order : 0..3, filled : 0..6]

\* Calls are interchangeable: no definition prefers one, and no liveness is checked.
CallSymmetry == Permutations(Calls)
=============================================================================
