-------------------------- MODULE WorkerRefinement --------------------------
(***************************************************************************)
(* A SpawnProcWorker and its process, seen through the handle's interface, *)
(* behave as WorkerContract says.                                          *)
(***************************************************************************)
EXTENDS WorkerProc

\* Where the handle is, for a user of AbstractWorker.
phaseBar ==
  CASE call = "new"                       -> "new"
    [] call \in {"starting", "ready"}     -> "idle"
    [] call \in {"send", "recv", "wait"}  -> "busy"
    [] call = "discarded"                 -> "gone"
    [] OTHER                              -> "orphaned"

Contract == INSTANCE WorkerContract
              WITH phase <- phaseBar, alive <- Alive, reply <- outcome

\* Every behaviour of SpawnProcWorker.run_sync against worker_behavior is one
\* the contract allows: a job handed back was never begun, a value belongs to
\* a finished job, and a worker that is given up is dead.
ImplementsContract == Contract!Spec
=============================================================================
