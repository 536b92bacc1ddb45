------------------------ MODULE MCOrchestratorLock ------------------------
(***************************************************************************)
(* Two orchestrators contending for the lease.                             *)
(***************************************************************************)
EXTENDS OrchestratorLock, TLC

CONSTANTS a, b

TwoWorkers == {a, b}
WorkerSymmetry == Permutations(TwoWorkers)
===========================================================================
