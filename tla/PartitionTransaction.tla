------------------------- MODULE PartitionTransaction -------------------------
(***************************************************************************)
(* update_integration_partition_result statement by statement, at READ     *)
(* COMMITTED with row locks, next to the other statements of               *)
(* PostgresWorkers and to the DELETE of clear_jobs.  PostgresWorkers takes *)
(* the transaction to be atomic; this module implements it:                *)
(* the variables it shares are the committed ones, and every commit must   *)
(* be one of its steps.                                                    *)
(*                                                                         *)
(* A statement that writes or locks several rows picks them from the       *)
(* snapshot it starts with, then locks them one at a time, waiting for     *)
(* each, and looks again at a row once it has it.  Locks last until the    *)
(* transaction ends.  Claims, resets and single-row updates hold no lock   *)
(* while they wait, so they stay atomic steps that need their row free.    *)
(***************************************************************************)
EXTENDS PostgresWorkers

CONSTANTS
    Clearer,    \* the transaction of DELETE /jobs
    Nobody      \* the holder of a free row

ASSUME ClearerAssumption == Clearer # Nobody /\ {Clearer, Nobody} \cap Agents = {}

VARIABLES
    stage,      \* transaction -> the statement it is at
    want,       \* transaction -> the row it locks next, or NoJob
    todo,       \* transaction -> the rows its statement has still to lock
    parentSeen, \* agent -> the parent's status, read under its lock
    cancelled,  \* agent -> the siblings its UPDATE has set to FAILED
    holder      \* row -> the transaction that has it locked, or Nobody

lockVars == <<stage, want, todo, parentSeen, cancelled, holder>>
txVars   == <<vars, lockVars>>

Txs     == Agents \cup {Clearer}
Stages  == {"none", "parent", "child", "cancel", "aggregate", "delete", "commit"}

TxTypeOK ==
    /\ stage      \in [Txs -> Stages]
    /\ want       \in [Txs -> JobIds \cup {NoJob}]
    /\ todo       \in [Txs -> SUBSET JobIds]
    /\ parentSeen \in [Agents -> Statuses \cup {"none"}]
    /\ cancelled  \in [Agents -> SUBSET JobIds]
    /\ holder     \in [JobIds -> Txs \cup {Nobody}]

TxInit ==
    /\ Init
    /\ stage      = [t \in Txs |-> "none"]
    /\ want       = [t \in Txs |-> NoJob]
    /\ todo       = [t \in Txs |-> {}]
    /\ parentSeen = [a \in Agents |-> "none"]
    /\ cancelled  = [a \in Agents |-> {}]
    /\ holder     = [j \in JobIds |-> Nobody]

Free(j)   == holder[j] = Nobody
Lock(t)   == /\ Free(want[t]) \/ holder[want[t]] = t
             /\ holder' = [holder EXCEPT ![want[t]] = t]

EndTx(t) ==
    /\ stage'  = [stage EXCEPT ![t] = "none"]
    /\ want'   = [want EXCEPT ![t] = NoJob]
    /\ todo'   = [todo EXCEPT ![t] = {}]
    /\ holder' = [j \in JobIds |-> IF holder[j] = t THEN Nobody ELSE holder[j]]
    /\ IF t \in Agents
       THEN /\ parentSeen' = [parentSeen EXCEPT ![t] = "none"]
            /\ cancelled'  = [cancelled EXCEPT ![t] = {}]
       ELSE UNCHANGED <<parentSeen, cancelled>>

-----------------------------------------------------------------------------
(* The partition transaction of agent a.                                    *)

Smallest(rows) == CHOOSE j \in rows : \A k \in rows : j[2] <= k[2]

(* Mutant: the parent's status is read without FOR UPDATE.                  *)
BeginSave_ParentUnlocked(a) ==
    /\ Running(a) /\ IsPartition(job[a]) /\ stage[a] = "none"
    /\ Present(job[a])
    /\ stage'      = [stage EXCEPT ![a] = "child"]
    /\ want'       = [want EXCEPT ![a] = job[a]]
    /\ parentSeen' = [parentSeen EXCEPT ![a] = jobs[Parent(job[a])].status]
    /\ UNCHANGED <<vars, todo, cancelled, holder>>

(* SELECT parent_job_id of the child; then wait for the parent's row.       *)
BeginSave(a) ==
    /\ Running(a) /\ IsPartition(job[a]) /\ stage[a] = "none"
    /\ Present(job[a])
    /\ stage' = [stage EXCEPT ![a] = "parent"]
    /\ want'  = [want EXCEPT ![a] = Parent(job[a])]
    /\ UNCHANGED <<vars, todo, parentSeen, cancelled, holder>>

(* Mutant: a parent that was cleared while the transaction waited is taken  *)
(* for one in some other status.                                            *)
LockParent_MayBeGone(a) ==
    /\ stage[a] = "parent"
    /\ Lock(a)
    /\ parentSeen' = [parentSeen EXCEPT ![a] = jobs[want[a]].status]
    /\ stage' = [stage EXCEPT ![a] = "child"]
    /\ want'  = [want EXCEPT ![a] = job[a]]
    /\ UNCHANGED <<vars, todo, cancelled>>

LockParent(a) ==
    /\ stage[a] = "parent"
    /\ Present(want[a])
    /\ Lock(a)
    /\ parentSeen' = [parentSeen EXCEPT ![a] = jobs[want[a]].status]
    /\ stage' = [stage EXCEPT ![a] = "child"]
    /\ want'  = [want EXCEPT ![a] = job[a]]
    /\ UNCHANGED <<vars, todo, cancelled>>

(* The child is written.  Unless it is to be retried or its parent is       *)
(* decided, the next statement takes its snapshot of the siblings: of the   *)
(* PENDING ones to cancel, or of all of them, in index order, to aggregate. *)
WriteChild(a) ==
    /\ stage[a] = "child"
    /\ Lock(a)
    /\ LET u    == Update(a)
           next == IF u.status = "PENDING" \/ parentSeen[a] # "RUNNING" THEN "commit"
                   ELSE IF u.status = "FAILED" THEN "cancel" ELSE "aggregate"
           rows == CASE next = "cancel"    -> PendingSiblings(u)
                     [] next = "aggregate" -> ChildRows(job[a][1]) \ {job[a]}
                     [] OTHER              -> {}
       IN /\ stage' = [stage EXCEPT ![a] = next]
          /\ todo'  = [todo EXCEPT ![a] = rows]
    /\ want' = [want EXCEPT ![a] = NoJob]
    /\ UNCHANGED <<vars, parentSeen, cancelled>>

(* The scan reaches the next row: in any order for the cancelling UPDATE    *)
(* and for the DELETE, by partition_index for the SELECT ... FOR UPDATE.    *)
NextRow(t) ==
    /\ stage[t] \in {"cancel", "aggregate", "delete"} /\ want[t] = NoJob
    /\ \E j \in todo[t] :
          /\ stage[t] = "aggregate" => j = Smallest(todo[t])
          /\ want' = [want EXCEPT ![t] = j]
    /\ UNCHANGED <<vars, stage, todo, parentSeen, cancelled, holder>>

(* Mutant: a sibling claimed since the snapshot is cancelled all the same.  *)
LockRow_NoRecheck(t) ==
    /\ stage[t] \in {"cancel", "aggregate", "delete"} /\ want[t] # NoJob
    /\ Lock(t)
    /\ todo' = [todo EXCEPT ![t] = @ \ {want[t]}]
    /\ want' = [want EXCEPT ![t] = NoJob]
    /\ IF stage[t] = "cancel"
       THEN cancelled' = [cancelled EXCEPT ![t] = @ \cup {want[t]}]
       ELSE UNCHANGED cancelled
    /\ UNCHANGED <<vars, stage, parentSeen>>

(* The row is locked and looked at again: a sibling that is no longer       *)
(* PENDING is not cancelled.                                                *)
LockRow(t) ==
    /\ stage[t] \in {"cancel", "aggregate", "delete"} /\ want[t] # NoJob
    /\ Lock(t)
    /\ todo' = [todo EXCEPT ![t] = @ \ {want[t]}]
    /\ want' = [want EXCEPT ![t] = NoJob]
    /\ IF stage[t] = "cancel" /\ jobs[want[t]].status = "PENDING"
       THEN cancelled' = [cancelled EXCEPT ![t] = @ \cup {want[t]}]
       ELSE UNCHANGED cancelled
    /\ UNCHANGED <<vars, stage, parentSeen>>

StatementsDone(t) ==
    \/ stage[t] = "commit"
    \/ stage[t] \in {"cancel", "aggregate", "delete"} /\ todo[t] = {} /\ want[t] = NoJob

(* What the transaction has written, seen by the others from the commit on. *)
CommitWrites(a) ==
    LET u == Update(a)
    IN  /\ StatementsDone(a)
        /\ \/ /\ stage[a] = "commit"
              /\ jobs' = [jobs EXCEPT ![u.id] = Written(u)]
           \/ /\ stage[a] = "cancel"
              /\ jobs' = FailureWritten(u, cancelled[a])
           \/ /\ stage[a] = "aggregate"
              /\ RecordPart(u) \/ RecordLast(u)
        /\ UNCHANGED <<input, now, doomed>>
        /\ EndTx(a)

CommitSave(a) ==
    /\ CommitWrites(a)
    /\ Release(a)
    /\ UNCHANGED faults

(* The results do not aggregate, or the child was cleared before the        *)
(* transaction began, or its parent while it waited: roll back and reset.   *)
RollbackSave(a) ==
    /\ \/ /\ Running(a) /\ IsPartition(job[a])
          /\ stage[a] = "none" /\ ~Present(job[a])
       \/ stage[a] = "parent" /\ ~Present(want[a])
       \/ /\ stage[a] = "aggregate" /\ StatementsDone(a)
          /\ LastToComplete(Update(a)) /\ ~Aggregates(Update(a))
    /\ EndTx(a)
    /\ GoReset(a)
    /\ UNCHANGED <<tableVars, faults>>

-----------------------------------------------------------------------------
(* The transaction of DELETE FROM jobs.                                     *)

BeginClear ==
    /\ stage[Clearer] = "none"
    /\ StartDelete
    /\ \E r \in Roots : Present(<<r, 0>>)
    /\ stage' = [stage EXCEPT ![Clearer] = "delete"]
    /\ todo'  = [todo EXCEPT ![Clearer] = {j \in JobIds : Present(j)}]
    /\ UNCHANGED <<agentVars, want, parentSeen, cancelled, holder>>

(* The cascade deletes the partitions inserted since the snapshot, too: it  *)
(* waits for none, as no save of theirs can hold its parent's lock.         *)
CommitClear ==
    /\ stage[Clearer] = "delete" /\ StatementsDone(Clearer)
    /\ \A j \in JobIds : j[1] \in doomed => holder[j] \in {Clearer, Nobody}
    /\ FinishDelete
    /\ EndTx(Clearer)
    /\ UNCHANGED agentVars

-----------------------------------------------------------------------------
(* Deadlock.  Postgres aborts a transaction of a cycle of waits.            *)

BlockedBy(t) == IF want[t] = NoJob \/ holder[want[t]] \in {t, Nobody}
                THEN {} ELSE {holder[want[t]]}
Deadlocked(ts) == ts # {} /\ \A t \in ts : BlockedBy(t) # {} /\ BlockedBy(t) \subseteq ts

DeadlockVictim(a) ==
    /\ \E ts \in SUBSET Txs : a \in ts /\ Deadlocked(ts)
    /\ EndTx(a)
    /\ GoReset(a)
    /\ UNCHANGED <<tableVars, faults>>

ClearFails ==
    /\ stage[Clearer] = "delete"
    /\ ClearJobsFails
    /\ EndTx(Clearer)

-----------------------------------------------------------------------------
(* The other statements, each needing the row it writes free.               *)

Locked == {k \in JobIds : ~Free(k)}

TxReceive(w, j) ==
    /\ Free(j)
    /\ ClaimNextPendingJob(j, Locked)
    /\ Take(w, j)
    /\ UNCHANGED lockVars

TxRunById(c, j) ==
    /\ Free(j)
    /\ RunById(c, j)
    /\ UNCHANGED lockVars

OneRow(a) ==
    /\ pc[a] # "idle" /\ Free(job[a])
    /\ SaveJobResult(a) \/ ResetPartition(a) \/ FanOut(a) \/ FanOutRejected(a)
    /\ UNCHANGED lockVars

Post(r, q) ==
    /\ CreateJob(r, q) \/ CreateFailingJob(r, q)
    /\ UNCHANGED lockVars

(* A connection that dies takes its transaction's locks with it.            *)
TxAbandon(a)       == Abandon(a) /\ EndTx(a)
TxSaveFails(a)     == SavePartitionFails(a) /\ EndTx(a)
TxSaveReplyLost(a) == Fault("reply") /\ CommitWrites(a) /\ GoReset(a)

Save(a) ==
    \/ BeginSave(a) \/ LockParent(a) \/ WriteChild(a)
    \/ CommitSave(a) \/ RollbackSave(a)

TxNext ==
    \/ \E r \in Roots, q \in Requests : Post(r, q)
    \/ \E w \in Workers, j \in JobIds : TxReceive(w, j)
    \/ \E c \in Runners, j \in JobIds : TxRunById(c, j)
    \/ \E a \in Agents : Save(a) \/ OneRow(a)
    \/ \E t \in Txs : NextRow(t) \/ LockRow(t)
    \/ BeginClear \/ CommitClear \/ ClearFails
    \/ \E a \in Agents : \/ DeadlockVictim(a) \/ TxAbandon(a)
                         \/ TxSaveFails(a) \/ TxSaveReplyLost(a)

TxSpec == TxInit /\ [][TxNext]_txVars

-----------------------------------------------------------------------------
(* Properties.                                                              *)

(* The comment in update_integration_partition_result: taking the parent    *)
(* before any child keeps workers from deadlocking.  Whatever cycle of      *)
(* waits arises has the DELETE of clear_jobs, which takes rows in any       *)
(* order, in it.                                                            *)
WorkersNeverDeadlock == ~ \E ts \in SUBSET Agents : Deadlocked(ts)

(* Taken with its locks the transaction is atomic: seen through the         *)
(* committed table alone, every commit, rollback and claim is a step of     *)
(* PostgresWorkers, so no completion is lost, no claimed sibling cancelled  *)
(* and no sibling missed but by a reset.                                    *)
TransactionIsAtomic == Spec
=============================================================================
