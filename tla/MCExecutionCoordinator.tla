----------------------- MODULE MCExecutionCoordinator -----------------------
(***************************************************************************)
(* Three concurrent dispatches of an entry and an exit that race on one    *)
(* instrument: every replay, race and overtaking the coordinator must      *)
(* survive needs no more.  MCClobSimulator has several instruments.        *)
(***************************************************************************)
EXTENDS ExecutionCoordinator, TLC

CONSTANTS c1, c2, c3, enterA, exitA, instA

MCInstrumentOf == (enterA :> instA) @@ (exitA :> instA)
MCReports == [status : {"filled", "unknown"}]
=============================================================================
