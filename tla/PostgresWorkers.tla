--------------------------- MODULE PostgresWorkers ---------------------------
(***************************************************************************)
(* The service with the Postgres-backed queue: clients that post and clear *)
(* jobs (api/src/jobs/job_endpoints.rs), worker tasks that poll the table, *)
(* run what they claim and save what it gave (api/src/worker/              *)
(* worker_loop.rs, api/src/queue/postgres_job_queue.rs), and POST          *)
(* /jobs/{id}/run handlers that do the same for one job.  The table is     *)
(* JobRepository.                                                          *)
(*                                                                         *)
(* An agent's turn is claim -> run -> save, and after a partition save     *)
(* that reported an error, one more statement that resets the row.  Other  *)
(* agents and clients step in between.                                     *)
(***************************************************************************)
EXTENDS JobRepository

CONSTANTS
    Workers,            \* the tasks start_worker_loop spawned, in any process
    Runners,            \* the POST /jobs/{id}/run requests in flight
    WorkerMaxRetries,   \* WORKER_MAX_RETRIES
    FaultKinds,         \* the faults that may occur
    MaxFaults           \* bound on how many occur

(* DEFAULT_MAX_JOB_RETRIES, which POST /jobs/{id}/run uses whatever the     *)
(* workers are configured with.                                             *)
DefaultMaxJobRetries == 3

ASSUME WorkersAssumption ==
    /\ Workers \cap Runners = {}
    /\ WorkerMaxRetries \in Nat
    /\ FaultKinds \subseteq {"abandon", "save", "reply", "clear"}
    /\ MaxFaults \in Nat

VARIABLES
    pc,       \* agent -> "idle", "running" or "resetting"
    job,      \* agent -> the job it claimed
    seen,     \* agent -> the retry_count of the row it claimed
    faults    \* the faults so far

agentVars == <<pc, job, seen, faults>>
vars      == <<tableVars, agentVars>>

Agents     == Workers \cup Runners
NoJob      == <<>>
Budget(a)  == IF a \in Runners THEN DefaultMaxJobRetries ELSE WorkerMaxRetries

TypeOK ==
    /\ jobs   \in [JobIds -> Row]
    /\ input  \in [Roots -> Requests \cup {NoRequest}]
    /\ now    \in Nat
    /\ doomed \in SUBSET Roots
    /\ pc     \in [Agents -> {"idle", "running", "resetting"}]
    /\ job    \in [Agents -> JobIds \cup {NoJob}]
    /\ seen   \in [Agents -> Nat]
    /\ faults \in Nat
    /\ \A a \in Agents : pc[a] # "idle" => job[a] \in JobIds

Init ==
    /\ InitTable
    /\ pc     = [a \in Agents |-> "idle"]
    /\ job    = [a \in Agents |-> NoJob]
    /\ seen   = [a \in Agents |-> 0]
    /\ faults = 0

-----------------------------------------------------------------------------
(* Clients.  With this queue, enqueue does nothing: the row is the message. *)

CreateJob(r, q) ==
    /\ q.task # "intentional_failure"
    /\ InsertJob(r, q)
    /\ UNCHANGED agentVars

CreateFailingJob(r, q) ==
    /\ q.task = "intentional_failure"
    /\ InsertJob(r, q)
    /\ UNCHANGED agentVars

ClearJobs ==
    /\ StartDelete \/ FinishDelete
    /\ UNCHANGED agentVars

-----------------------------------------------------------------------------
(* Agents.                                                                  *)

Take(a, j) ==
    /\ pc[a] = "idle"
    /\ pc'   = [pc EXCEPT ![a] = "running"]
    /\ job'  = [job EXCEPT ![a] = j]
    /\ seen' = [seen EXCEPT ![a] = jobs[j].retry_count]
    /\ UNCHANGED faults

Release(a) ==
    /\ pc'   = [pc EXCEPT ![a] = "idle"]
    /\ job'  = [job EXCEPT ![a] = NoJob]
    /\ seen' = [seen EXCEPT ![a] = 0]

GoReset(a) ==
    /\ pc' = [pc EXCEPT ![a] = "resetting"]
    /\ UNCHANGED <<job, seen>>

(* Rows that a transaction in flight may hold: a partition transaction      *)
(* locks the partition it saves and then its siblings, a DELETE everything. *)
Lockable == {j \in JobIds : j[1] \in doomed} \cup UNION {ChildRows(job[a][1]) :
                   a \in {b \in Agents : pc[b] = "running" /\ IsPartition(job[b])}}

Receive(w, j) ==
    /\ ClaimNextPendingJob(j, Lockable)
    /\ Take(w, j)

RunById(c, j) ==
    /\ ClaimJobById(j)
    /\ Take(c, j)

(* Mutant: one attempt more than the budget.                                *)
Update_OneTooMany(a) ==
    IF Outcome(job[a]) = "error"
    THEN [id          |-> job[a],
          status      |-> IF seen[a] < Budget(a) THEN "PENDING" ELSE "FAILED",
          result      |-> "none",
          error       |-> "attempt",
          retry_count |-> seen[a] + 1]
    ELSE [id          |-> job[a],
          status      |-> "COMPLETED",
          result      |-> Outcome(job[a]),
          error       |-> "none",
          retry_count |-> seen[a]]

(* What save_job_result writes of a run.  The retry count it counts from is *)
(* the one in the row as it was claimed.                                    *)
Update(a) ==
    IF Outcome(job[a]) = "error"
    THEN [id          |-> job[a],
          status      |-> IF seen[a] + 1 < Budget(a) THEN "PENDING" ELSE "FAILED",
          result      |-> "none",
          error       |-> "attempt",
          retry_count |-> seen[a] + 1]
    ELSE [id          |-> job[a],
          status      |-> "COMPLETED",
          result      |-> Outcome(job[a]),
          error       |-> "none",
          retry_count |-> seen[a]]

Running(a) == pc[a] = "running"

SaveJobResult(a) ==
    /\ Running(a) /\ ~IsPartition(job[a]) /\ ~IsCoordinator(job[a])
    /\ UpdateJobResult(Update(a))
    /\ Release(a)
    /\ UNCHANGED faults

SavePartitionResult(a) ==
    /\ Running(a) /\ IsPartition(job[a])
    /\ UpdateIntegrationPartitionResult(Update(a))
    /\ Release(a)
    /\ UNCHANGED faults

(* The transaction rolls back, or a DELETE in flight deadlocked with it and *)
(* Postgres made it the victim.                                             *)
RejectPartitionResult(a) ==
    /\ Running(a) /\ IsPartition(job[a])
    /\ PartitionUpdateRejected(Update(a)) \/ job[a][1] \in doomed
    /\ GoReset(a)
    /\ UNCHANGED <<tableVars, faults>>

(* The row goes back to PENDING; its retry count stays as it is.            *)
ResetPartition(a) ==
    /\ pc[a] = "resetting"
    /\ ResetRunningJobToPending(job[a])
    /\ Release(a)
    /\ UNCHANGED faults

(* The coordinator's row stays RUNNING: its last partition will decide it.  *)
FanOut(a) ==
    /\ Running(a) /\ IsCoordinator(job[a])
    /\ EnsureJobPartitions(job[a][1])
    /\ Release(a)
    /\ UNCHANGED faults

(* The parent was cleared: the first insert violates the foreign key.       *)
FanOutRejected(a) ==
    /\ Running(a) /\ IsCoordinator(job[a]) /\ ~Present(job[a])
    /\ Release(a)
    /\ UNCHANGED <<tableVars, faults>>

-----------------------------------------------------------------------------
(* Faults.                                                                  *)

Fault(kind) ==
    /\ kind \in FaultKinds
    /\ faults < MaxFaults
    /\ faults' = faults + 1

(* The agent stops without a further statement and the row stays as it is:  *)
(* the process dies, the blocking task panics (WorkerTask), the client of   *)
(* POST /jobs/{id}/run hangs up, or a statement that is not followed by a   *)
(* reset fails (update_job_result, ensure_job_partitions, the reset).       *)
Abandon(a) ==
    /\ Fault("abandon")
    /\ pc[a] # "idle"
    /\ Release(a)
    /\ UNCHANGED tableVars

(* The partition transaction fails and rolls back.                          *)
SavePartitionFails(a) ==
    /\ Fault("save")
    /\ Running(a) /\ IsPartition(job[a])
    /\ GoReset(a)
    /\ UNCHANGED tableVars

(* The partition transaction commits, but the connection is lost before the *)
(* reply, so the worker sees an error and resets.                           *)
SavePartitionReplyLost(a) ==
    /\ Fault("reply")
    /\ Running(a) /\ IsPartition(job[a])
    /\ UpdateIntegrationPartitionResult(Update(a))
    /\ GoReset(a)

(* The DELETE fails, or is the victim of the deadlock itself.               *)
ClearJobsFails ==
    /\ Fault("clear")
    /\ doomed # {}
    /\ doomed' = {}
    /\ UNCHANGED <<jobs, input, now, pc, job, seen>>

-----------------------------------------------------------------------------
Step(a) ==
    \/ SaveJobResult(a) \/ SavePartitionResult(a) \/ RejectPartitionResult(a)
    \/ ResetPartition(a) \/ FanOut(a) \/ FanOutRejected(a)

AgentFault(a) ==
    Abandon(a) \/ SavePartitionFails(a) \/ SavePartitionReplyLost(a)

Next ==
    \/ \E r \in Roots, q \in Requests : CreateJob(r, q) \/ CreateFailingJob(r, q)
    \/ ClearJobs \/ ClearJobsFails
    \/ \E w \in Workers, j \in JobIds : Receive(w, j)
    \/ \E c \in Runners, j \in JobIds : RunById(c, j)
    \/ \E a \in Agents : Step(a) \/ AgentFault(a)

Spec == Init /\ [][Next]_vars

(* A worker task polls forever and a statement sent is answered, so workers *)
(* keep claiming, every agent finishes its turn and a DELETE that was begun *)
(* ends.  Clients need not act.                                             *)
Fairness ==
    /\ \A w \in Workers : WF_vars(\E j \in JobIds : Receive(w, j))
    /\ \A a \in Agents : WF_vars(Step(a))
    /\ WF_vars(FinishDelete /\ UNCHANGED agentVars)

FairSpec == Spec /\ Fairness

-----------------------------------------------------------------------------
(* Properties.                                                              *)

Busy(a)   == pc[a] # "idle"
FannedOut(j) == ChildRows(j[1]) # {} /\ ~IsPartition(j)
Orphans   == {j \in JobIds : /\ jobs[j].status = "RUNNING"
                             /\ ~FannedOut(j)
                             /\ \A a \in Agents : ~(Busy(a) /\ job[a] = j)}
BudgetFloor   == IF WorkerMaxRetries < DefaultMaxJobRetries
                 THEN WorkerMaxRetries ELSE DefaultMaxJobRetries
BudgetCeiling == IF WorkerMaxRetries > DefaultMaxJobRetries
                 THEN WorkerMaxRetries ELSE DefaultMaxJobRetries

(* A claimed job is its claimer's alone, and what the claimer read of the   *)
(* row is still so when it saves, unless the row was cleared: the row is    *)
(* RUNNING, with the retry count the save will count from.                  *)
(* (update_job_result and the partition update write the row by id alone,   *)
(* without checking its status, so nothing else protects it.)               *)
ClaimIsExclusive ==
    \A a \in Agents : Busy(a) =>
        /\ \A b \in Agents : Busy(b) /\ job[a] = job[b] => a = b
        /\ Present(job[a]) => /\ jobs[job[a]].status = "RUNNING"
                              /\ jobs[job[a]].retry_count = seen[a]

(* An integration is COMPLETED exactly when all its partitions are, with    *)
(* finite statistics; the step that completes the last partition completes  *)
(* the parent (no completion is lost, none is premature).                   *)
CompletionIsExact ==
    \A r \in Roots : ChildRows(r) # {} =>
        (jobs[<<r, 0>>].status = "COMPLETED"
            <=> \A j \in PartitionIds(r) : /\ jobs[j].status = "COMPLETED"
                                            /\ jobs[j].result = "value")

(* An integration is FAILED exactly when one of its partitions failed by    *)
(* its own attempts; a cancelled partition is never the only failure.       *)
FailureIsExact ==
    \A r \in Roots : ChildRows(r) # {} =>
        (jobs[<<r, 0>>].status = "FAILED"
            <=> \E j \in ChildRows(r) : /\ jobs[j].status = "FAILED"
                                         /\ jobs[j].error = "attempt")

(* An integration that is fanned out and RUNNING has a partition yet to be  *)
(* run: no schedule of saves, retries, rejections and resets leaves it with *)
(* partitions that are all decided and nobody to decide it.  (Only the save *)
(* of a partition looks at the parent, so nothing would come back for it.)  *)
RunningIntegrationHasWork ==
    \A r \in Roots : jobs[<<r, 0>>].status = "RUNNING" /\ ChildRows(r) # {} =>
        \E j \in ChildRows(r) : jobs[j].status \in {"PENDING", "RUNNING"}

(* A job is given up after its budget of failed attempts and not before,    *)
(* whichever agents made them; the budget is the worker's or the one of     *)
(* POST /jobs/{id}/run, so between the two.                                 *)
BudgetRespected ==
    \A j \in JobIds :
        /\ jobs[j].retry_count <= IF BudgetCeiling = 0 THEN 1 ELSE BudgetCeiling
        /\ jobs[j].status = "FAILED" /\ jobs[j].error = "attempt"
              => jobs[j].retry_count >= BudgetFloor

(* A RUNNING row that nobody works on and no partition will decide costs a  *)
(* fault: every path through the worker loop without one lets go of it.     *)
OrphansNeedFaults == Cardinality(Orphans) <= faults

(* A decided job stays as it was decided until it is cleared.               *)
TerminalIsFinal ==
    [][\A j \in JobIds : jobs[j].status \in Terminal
          => jobs'[j].status \in {jobs[j].status, "ABSENT"}]_vars

(* Failed attempts are counted one by one and never forgotten: the count    *)
(* is saved from a snapshot taken at the claim, and no step may undo what   *)
(* another agent counted since.                                             *)
AttemptsAreCounted ==
    [][\A j \in JobIds : Present(j) /\ Present(j)'
          => \/ jobs'[j].retry_count = jobs[j].retry_count
             \/ /\ jobs'[j].retry_count = jobs[j].retry_count + 1
                /\ jobs[j].status = "RUNNING"
                /\ jobs'[j].error = "attempt"]_vars

(* Every job posted, and every partition fanned out, is decided or cleared: *)
(* a client posts each of its finitely many jobs once, and time and again   *)
(* none of those there is left undecided.                                   *)
EveryJobIsDecided ==
    []<>(\A j \in JobIds : jobs[j].status \notin {"PENDING", "RUNNING"})

(* What failed_partition_fails_parent_and_cancels_pending_siblings asserts  *)
(* of the table once the parent is FAILED: no partition is PENDING.         *)
FailedParentHasNoPendingPartition ==
    \A r \in Roots : jobs[<<r, 0>>].status = "FAILED"
        => \A j \in ChildRows(r) : jobs[j].status # "PENDING"

-----------------------------------------------------------------------------
(* The contract of JobContract, read off the table.                         *)

PhaseOf(r) ==
    CASE input[r] = NoRequest                       -> "none"
      [] input[r] # NoRequest /\ ~Present(<<r, 0>>) -> "removed"
      [] jobs[<<r, 0>>].status = "COMPLETED"        -> "completed"
      [] jobs[<<r, 0>>].status = "FAILED"           -> "failed"
      [] OTHER                                      -> "open"

Contract == INSTANCE JobContract WITH
    phase <- [r \in Roots |-> PhaseOf(r)],
    need  <- [r \in Roots |-> Partitions(r)],
    done  <- [r \in Roots |-> {i \in 1..MaxPartitions :
                                 jobs[<<r, i>>].status = "COMPLETED"}]

(* The table and the workers implement the contract: every step of theirs   *)
(* is one of the contract's or leaves what a client can know unchanged.     *)
ImplementsContract == Contract!Spec
=============================================================================
