---------------------------- MODULE JobRepository ----------------------------
(***************************************************************************)
(* The jobs table and the statements and transactions the service runs on  *)
(* it (api/src/jobs/job_repository.rs), each as one atomic step.  The row  *)
(* locks that make the partition transaction atomic are the subject of     *)
(* PartitionTransaction; here they are taken to work.                      *)
(*                                                                         *)
(* A job is named by <<root, index>>: <<r, 0>> is the job a client posted, *)
(* <<r, i>> with i > 0 its i-th partition.  The UUIDs of partitions are    *)
(* drawn by the fan-out, but (parent_job_id, partition_index) is UNIQUE    *)
(* and inserted with ON CONFLICT DO NOTHING, so the pair identifies the    *)
(* row.  A root is posted at most once: its UUID is fresh.                 *)
(***************************************************************************)
EXTENDS Integers, Sequences, FiniteSets

CONSTANTS
    Roots,           \* the jobs clients may post
    MaxPartitions,   \* most partitions of one integration (the code: 1024)
    Requests         \* the requests clients may post

Tasks    == {"monte_carlo_pi", "monte_carlo_integration", "intentional_failure"}

(* What running a job gives.  It is a function of the stored input: the     *)
(* sampling is seeded by (seed, sample index, dimension), and every value   *)
(* monte_carlo_pi returns is alike to the callers.                          *)
(*   "value"       an output every number of which is finite                *)
(*   "non_finite"  an output with an infinite or NaN number, which          *)
(*                 serde_json::to_value stores as JSON null                 *)
(*   "error"       run_job returns Err                                      *)
Outcomes == {"value", "non_finite", "error"}

ASSUME MaxPartitionsAssumption == MaxPartitions \in Nat \ {0}

(* The endpoints accept what the workers can run: estimate_pi always        *)
(* returns a finite number and the intentional failure always fails.        *)
ASSUME RequestsAssumption ==
    \A q \in Requests :
        /\ q.task \in Tasks
        /\ q.outcomes \in Seq(Outcomes)
        /\ Len(q.outcomes) \in 1..MaxPartitions
        /\ q.task = "monte_carlo_pi"      => q.outcomes = <<"value">>
        /\ q.task = "intentional_failure" => q.outcomes = <<"error">>

VARIABLES
    jobs,    \* the table: job id -> row
    input,   \* the task_type and input columns of each root
    now,     \* the wall clock that created_at is read from
    doomed   \* the roots in the snapshot of a DELETE in flight, {} without one

tableVars == <<jobs, input, now, doomed>>

JobIds     == Roots \X (0..MaxPartitions)
Statuses   == {"PENDING", "RUNNING", "COMPLETED", "FAILED"}
Terminal   == {"COMPLETED", "FAILED"}
Errors     == {"none", "attempt", "partition_failed", "cancelled", "save_failed"}
Results    == {"none", "value", "non_finite"}

Row == [status : Statuses \cup {"ABSENT"}, retry_count : Nat,
        result : Results, error : Errors, created_at : Nat]

NoRow     == [status |-> "ABSENT", retry_count |-> 0, result |-> "none",
              error |-> "none", created_at |-> 0]
(* Mutant: the status is written in the spelling JSON does not use.         *)
NewRow_LowerCase(t) == [status |-> "pending", retry_count |-> 0, result |-> "none",
                        error |-> "none", created_at |-> t]

NewRow(t) == [status |-> "PENDING", retry_count |-> 0, result |-> "none",
              error |-> "none", created_at |-> t]

NoRequest == [task |-> "none", outcomes |-> <<>>]

Parent(j)      == <<j[1], 0>>
IsPartition(j) == j[2] > 0
Present(j)     == jobs[j].status # "ABSENT"

(* The indexes an integration is divided into; none for the other tasks.    *)
Partitions(r) == IF input[r].task = "monte_carlo_integration"
                 THEN 1..Len(input[r].outcomes) ELSE {}

PartitionIds(r) == {<<r, i>> : i \in Partitions(r)}
ChildRows(r)    == {j \in JobIds : j[1] = r /\ IsPartition(j) /\ Present(j)}

IsCoordinator(j) == ~IsPartition(j) /\ Partitions(j[1]) # {}

(* run_job on the stored input.                                             *)
Outcome(j) == input[j[1]].outcomes[IF IsPartition(j) THEN j[2] ELSE 1]

InitTable ==
    /\ jobs  = [j \in JobIds |-> NoRow]
    /\ input = [r \in Roots |-> NoRequest]
    /\ now   = 1
    /\ doomed = {}

(***************************************************************************)
(* Inserts and deletes.                                                    *)
(***************************************************************************)

InsertJob(r, q) ==
    /\ input[r] = NoRequest
    /\ input' = [input EXCEPT ![r] = q]
    /\ jobs'  = [jobs EXCEPT ![<<r, 0>>] = NewRow(now)]
    /\ now'   = now + 1
    /\ UNCHANGED doomed

(* One transaction: every partition not yet there is inserted, the foreign  *)
(* key holding the parent in place.                                         *)
EnsureJobPartitions(r) ==
    /\ Present(<<r, 0>>)
    /\ jobs' = [j \in JobIds |-> IF j \in PartitionIds(r) /\ ~Present(j)
                                 THEN NewRow(now) ELSE jobs[j]]
    /\ now' = now + 1
    /\ UNCHANGED <<input, doomed>>

(* DELETE FROM jobs takes the rows that were there when it began, and the   *)
(* cascade the partitions of those roots, but not the jobs posted since.    *)
(* (One DELETE at a time.)                                                  *)
StartDelete ==
    /\ doomed = {}
    /\ doomed' = {r \in Roots : Present(<<r, 0>>)}
    /\ UNCHANGED <<jobs, input, now>>

FinishDelete ==
    /\ doomed # {}
    /\ doomed' = {}
    /\ jobs' = [j \in JobIds |-> IF j[1] \in doomed THEN NoRow ELSE jobs[j]]
    /\ UNCHANGED <<input, now>>

(***************************************************************************)
(* Claims.  A claim moves a PENDING row to RUNNING in one statement.        *)
(***************************************************************************)

(* Mutant: the claim by id without AND status = 'PENDING'.                  *)
Claim_Unguarded(j) ==
    /\ jobs[j].status \in {"PENDING", "RUNNING"}
    /\ jobs' = [jobs EXCEPT ![j].status = "RUNNING", ![j].error = "none"]
    /\ UNCHANGED <<input, now, doomed>>

(* Mutant: the claim starts the count of attempts again.                    *)
Claim_ForgetsAttempts(j) ==
    /\ jobs[j].status = "PENDING"
    /\ jobs' = [jobs EXCEPT ![j] = [@ EXCEPT !.status = "RUNNING", !.error = "none",
                                             !.retry_count = 0]]
    /\ UNCHANGED <<input, now, doomed>>

Claim(j) ==
    /\ jobs[j].status = "PENDING"
    /\ jobs' = [jobs EXCEPT ![j].status = "RUNNING", ![j].error = "none"]
    /\ UNCHANGED <<input, now, doomed>>

(* The oldest PENDING row, SKIP LOCKED passing over rows that another       *)
(* transaction holds: `lockable' are the rows one may be holding.           *)
ClaimNextPendingJob(j, lockable) ==
    /\ \A k \in JobIds :
          jobs[k].status = "PENDING" /\ jobs[k].created_at < jobs[j].created_at
             => k \in lockable
    /\ Claim(j)

ClaimJobById(j) == Claim(j)

(* Mutant: the reset matches no row.                                        *)
ResetRunningJobToPending_Skipped(j) == UNCHANGED tableVars

(* Mutant: the reset without AND status = 'RUNNING'.                        *)
ResetRunningJobToPending_Unguarded(j) ==
    /\ jobs' = IF Present(j)
               THEN [jobs EXCEPT ![j].status = "PENDING", ![j].error = "save_failed"]
               ELSE jobs
    /\ UNCHANGED <<input, now, doomed>>

ResetRunningJobToPending(j) ==
    /\ jobs' = IF jobs[j].status = "RUNNING"
               THEN [jobs EXCEPT ![j].status = "PENDING", ![j].error = "save_failed"]
               ELSE jobs
    /\ UNCHANGED <<input, now, doomed>>

(***************************************************************************)
(* Results.  An update carries an id and the columns to write.             *)
(***************************************************************************)

Written(u) == [jobs[u.id] EXCEPT !.status = u.status, !.result = u.result,
                                 !.error = u.error, !.retry_count = u.retry_count]

UpdateJobResult(u) ==
    /\ jobs' = IF Present(u.id) THEN [jobs EXCEPT ![u.id] = Written(u)] ELSE jobs
    /\ UNCHANGED <<input, now, doomed>>

ParentRunning(u) == jobs[Parent(u.id)].status = "RUNNING"

(* Mutant: the children are read before the child's own row is written.     *)
LastToComplete_ReadsBefore(u) == \A k \in ChildRows(u.id[1]) : jobs[k].status = "COMPLETED"

(* After the child's row is written, is every child row COMPLETED?          *)
LastToComplete(u) == \A k \in ChildRows(u.id[1]) \ {u.id} : jobs[k].status = "COMPLETED"

(* Mutant: only the number of partitions is checked.                        *)
Aggregates_CountsOnly(u) == PartitionIds(u.id[1]) = ChildRows(u.id[1])

(* Every stored result decodes into statistics, and their sample counts add *)
(* up to the samples asked for, which takes every partition.                *)
Aggregates(u) ==
    /\ u.result = "value"
    /\ \A k \in ChildRows(u.id[1]) \ {u.id} : jobs[k].result = "value"
    /\ PartitionIds(u.id[1]) = ChildRows(u.id[1])

(* The child goes back to PENDING, or its parent is already decided.        *)
RecordOnly(u) ==
    /\ u.status = "PENDING" \/ ~ParentRunning(u)
    /\ jobs' = [jobs EXCEPT ![u.id] = Written(u)]

(* Mutant: siblings that are being run are cancelled, too.                  *)
PendingSiblings_OrRunning(u) ==
    {k \in ChildRows(u.id[1]) \ {u.id} : jobs[k].status \in {"PENDING", "RUNNING"}}

PendingSiblings(u) == {k \in ChildRows(u.id[1]) \ {u.id} : jobs[k].status = "PENDING"}

(* Mutant: the siblings are cancelled and the parent is forgotten.          *)
FailureWritten_ForgetsParent(u, cancelled) ==
    [j \in JobIds |->
        CASE j = u.id        -> Written(u)
          [] j \in cancelled -> [jobs[j] EXCEPT !.status = "FAILED",
                                                !.error = "cancelled"]
          [] OTHER           -> jobs[j]]

(* The child failed for good: so does its parent, and `cancelled' siblings. *)
FailureWritten(u, cancelled) ==
    [j \in JobIds |->
        CASE j = u.id         -> Written(u)
          [] j = Parent(u.id) -> [jobs[j] EXCEPT !.status = "FAILED",
                                                 !.error = "partition_failed"]
          [] j \in cancelled  -> [jobs[j] EXCEPT !.status = "FAILED",
                                                 !.error = "cancelled"]
          [] OTHER            -> jobs[j]]

(* The siblings no worker has claimed are cancelled.  A reset takes no lock *)
(* on the parent: one that commits after the cancelling UPDATE took its     *)
(* snapshot leaves a PENDING sibling that the UPDATE misses.                *)
RecordFailure(u) ==
    /\ u.status = "FAILED" /\ ParentRunning(u)
    /\ \E missed \in SUBSET {k \in PendingSiblings(u) : jobs[k].error = "save_failed"} :
          jobs' = FailureWritten(u, PendingSiblings(u) \ missed)

RecordPart(u) ==
    /\ u.status = "COMPLETED" /\ ParentRunning(u) /\ ~LastToComplete(u)
    /\ jobs' = [jobs EXCEPT ![u.id] = Written(u)]

(* The aggregate of finite statistics may itself overflow.                  *)
RecordLast(u) ==
    /\ u.status = "COMPLETED" /\ ParentRunning(u)
    /\ LastToComplete(u) /\ Aggregates(u)
    /\ \E aggregate \in {"value", "non_finite"} :
          jobs' = [jobs EXCEPT ![u.id] = Written(u),
                               ![Parent(u.id)] = [@ EXCEPT !.status = "COMPLETED",
                                                           !.result = aggregate,
                                                           !.error  = "none"]]

UpdateIntegrationPartitionResult(u) ==
    /\ Present(u.id) /\ Present(Parent(u.id))
    /\ RecordOnly(u) \/ RecordFailure(u) \/ RecordPart(u) \/ RecordLast(u)
    /\ UNCHANGED <<input, now, doomed>>

(* The transaction rolls back: the row or its parent is gone, or the last   *)
(* result completes a set that does not aggregate.                          *)
PartitionUpdateRejected(u) ==
    \/ ~Present(u.id) \/ ~Present(Parent(u.id))
    \/ /\ u.status = "COMPLETED" /\ ParentRunning(u)
       /\ LastToComplete(u) /\ ~Aggregates(u)
=============================================================================
