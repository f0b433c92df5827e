------------------------------ MODULE MCJobReads ------------------------------
(* JobReads on the instance of MCPostgresWorkers.                           *)
EXTENDS JobReads, MCPostgresWorkers
=============================================================================
