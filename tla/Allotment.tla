------------------------------ MODULE Allotment ------------------------------
(***************************************************************************)
(* What the loops have in common that walk a book or a list of lots best   *)
(* first: each element gives what the earlier ones have left to be taken,  *)
(* and at most what it has (simulator.ts, gates.py, lots.py).              *)
(***************************************************************************)
EXTENDS Integers, FiniteSets, Functions

Lesser(a, b) == IF a <= b THEN a ELSE b
Greater(a, b) == IF a >= b THEN a ELSE b

\* One side of a book: the size of the level at each price that has one.
IsBookSide(levels) ==
    /\ IsFiniteSet(DOMAIN levels) /\ DOMAIN levels \subseteq Nat
    /\ \A p \in DOMAIN levels : levels[p] \in Nat

\* `earlier` has for each element the set of those that come before it.
Allot(sizes, earlier, quantity) ==
    [x \in DOMAIN sizes |->
        Lesser(sizes[x], Greater(0, quantity - SumFunctionOnSet(sizes, earlier[x])))]
=============================================================================
