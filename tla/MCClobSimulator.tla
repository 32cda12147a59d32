--------------------------- MODULE MCClobSimulator ---------------------------
(***************************************************************************)
(* Two instruments that compete for one cash balance: entering A walks two *)
(* ask levels, and with the fee leaves too little to enter B as well.      *)
(* Exits of A race the exit that flatten() mints for it, over a thin bid.  *)
(***************************************************************************)
EXTENDS ClobSimulator, TLC

CONSTANTS c1, c2, c3, instA, instB, enterA, exitA, enterB, flatA, flatB

MCInstrumentOf ==
    (enterA :> instA) @@ (exitA :> instA) @@ (flatA :> instA) @@
    (enterB :> instB) @@ (flatB :> instB)

Terms(qty, limit, tif) == [qty |-> qty, limit |-> limit, tif |-> tif]
FlattenTerms == Terms(0, 1, "FAK")

MCOrderTerms ==
    (enterA :> Terms(3, 6, "FOK")) @@ (exitA :> Terms(2, 4, "FOK")) @@
    (enterB :> Terms(3, 5, "FAK")) @@ (flatA :> FlattenTerms) @@ (flatB :> FlattenTerms)

MCFlattenOf == (instA :> flatA) @@ (instB :> flatB)

MCOpeningBooks ==
    (instA :> [asks |-> (5 :> 2) @@ (6 :> 2), bids |-> (4 :> 2)]) @@
    (instB :> [asks |-> (4 :> 1) @@ (7 :> 2), bids |-> <<>>])

MCReports ==
    [status : {"unknown", "rejected", "filled", "partially_filled", "canceled"},
     order : 0..3, filled : 0..6]

\* Calls are interchangeable: no definition prefers one, and no liveness is checked.
CallSymmetry == Permutations(Calls)
=============================================================================
