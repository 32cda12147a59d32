-------------------------- MODULE MCSignalProducer --------------------------
(* Two buys that are one action if they are polled together, with a sale  *)
(* beside them in the run of the grouping.                                 *)
EXTENDS SignalProducer, TLC

CONSTANTS b1, b2, s1, p1, p2, buys, sales, v1, v2

MCBucketOf == [f \in Fills |-> IF f = s1 THEN sales ELSE buys]
MCAt == [f \in Fills |-> IF f = b1 THEN 1 ELSE 2]

\* Producers and policy versions are interchangeable.
Symmetry == Permutations({p1, p2}) \cup Permutations({v1, v2})
=============================================================================
