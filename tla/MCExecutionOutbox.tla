-------------------------- MODULE MCExecutionOutbox --------------------------
(***************************************************************************)
(* Two workers, two rows, and a horizon long enough for a claim, its lease *)
(* to run out, a reclaim with backoff, and a second claim that also dies.  *)
(* A worker may take both rows, and its two budgets end just before the    *)
(* lease.                                                                  *)
(***************************************************************************)
EXTENDS ExecutionOutbox, TLC

CONSTANTS w1, w2, early, late

ASSUME BatchFitsLease

MCExpiresAt == (early :> 3) @@ (late :> 9)

\* Workers are interchangeable, and no liveness is checked.
WorkerSymmetry == Permutations(Workers)
=============================================================================
