--------------------------- MODULE MCWorkerShutdown ---------------------------
(* WorkerShutdown on the instance of MCPostgresWorkers.                     *)
EXTENDS WorkerShutdown, MCPostgresWorkers
=============================================================================
