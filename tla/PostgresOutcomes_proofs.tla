------------------------ MODULE PostgresOutcomes_proofs ------------------------
(***************************************************************************)
(* How jobs end, for any jobs, workers, budgets and faults: a job is given *)
(* up after its budget of attempts, a job left RUNNING by everybody costs  *)
(* a fault, an integration is COMPLETED exactly when all its partitions    *)
(* are and, unless a commit is reported as a failure, FAILED exactly when  *)
(* one of them gave up.                                                    *)
(***************************************************************************)
EXTENDS PostgresWorkers_proofs, FiniteSetTheorems

-----------------------------------------------------------------------------
(* In every step of its turn an agent lets go of its job, or will reset it. *)
LEMMA TurnGoesOn ==
    ASSUME NEW a \in Agents, Step(a) \/ AgentFault(a)
    PROVE  pc[a] # "idle" /\ (Release(a) \/ GoReset(a))
<1>1. CASE Step(a)
  BY <1>1 DEF Step, SaveJobResult, SavePartitionResult, RejectPartitionResult,
              ResetPartition, FanOut, FanOutRejected, Running
<1>2. CASE AgentFault(a)
  BY <1>2 DEF AgentFault, Abandon, SavePartitionFails, SavePartitionReplyLost, Running
<1> QED
  BY <1>1, <1>2

-----------------------------------------------------------------------------
(* What a partition's save does.                                            *)

(* A job is failed without an attempt of its own.                           *)
FailedWith(j, error) ==
    /\ jobs'[j].status = "FAILED" /\ jobs'[j].error = error
    /\ jobs'[j].retry_count = jobs[j].retry_count

(* The outcome of the transaction for the family of the claimed partition:  *)
(* it is as it was but for that partition; or its parent and any of its     *)
(* PENDING siblings are given up; or its parent is completed, all others    *)
(* being there and completed with finite statistics.                        *)
Recorded(a) ==
    /\ Update(a).status = "PENDING" \/ jobs[Parent(job[a])].status # "RUNNING"
    /\ \A j \in JobIds \ {job[a]} : jobs'[j] = jobs[j]

GivenUp(a) ==
    /\ Update(a).status = "FAILED"
    /\ jobs[Parent(job[a])].status = "RUNNING"
    /\ FailedWith(Parent(job[a]), "partition_failed")
    /\ \A j \in JobIds \ {job[a], Parent(job[a])} :
          \/ jobs'[j] = jobs[j]
          \/ /\ IsPartition(j) /\ j[1] = job[a][1] /\ jobs[j].status = "PENDING"
             /\ FailedWith(j, "cancelled")

OneOfMany(a) ==
    /\ Update(a).status = "COMPLETED"
    /\ jobs[Parent(job[a])].status = "RUNNING"
    /\ \E k \in ChildRows(job[a][1]) : k # job[a] /\ jobs[k].status # "COMPLETED"
    /\ \A j \in JobIds \ {job[a]} : jobs'[j] = jobs[j]

LastOfAll(a) ==
    /\ Update(a).status = "COMPLETED" /\ Update(a).result = "value"
    /\ jobs[Parent(job[a])].status = "RUNNING"
    /\ PartitionIds(job[a][1]) = ChildRows(job[a][1])
    /\ \A k \in ChildRows(job[a][1]) \ {job[a]} :
          jobs[k].status = "COMPLETED" /\ jobs[k].result = "value"
    /\ jobs'[Parent(job[a])].status = "COMPLETED"
    /\ jobs'[Parent(job[a])].error = "none"
    /\ jobs'[Parent(job[a])].retry_count = jobs[Parent(job[a])].retry_count
    /\ \A j \in JobIds \ {job[a], Parent(job[a])} : jobs'[j] = jobs[j]

LEMMA PartitionSaved ==
    ASSUME TypeInv, NEW a \in Agents, pc[a] # "idle", IsPartition(job[a]),
           UpdateIntegrationPartitionResult(Update(a))
    PROVE  /\ job[a] \in JobIds /\ jobs[job[a]].status # "ABSENT"
           /\ Parent(job[a]) \in JobIds /\ Parent(job[a]) # job[a]
           /\ jobs[Parent(job[a])].status # "ABSENT"
           /\ jobs'[job[a]] = Written(Update(a))
           /\ Recorded(a) \/ GivenUp(a) \/ OneOfMany(a) \/ LastOfAll(a)
<1> DEFINE u == Update(a)
           p == Parent(job[a])
<1>1. /\ u.id = job[a] /\ job[a] \in JobIds /\ Written(u) \in Row
      /\ jobs \in [JobIds -> Row]
  BY UpdateFacts DEF TypeInv, TypeOK
<1>2. p \in JobIds /\ p # job[a]
  BY <1>1, ParentFacts
<1>3. jobs[job[a]].status # "ABSENT" /\ jobs[p].status # "ABSENT"
  BY <1>1 DEF UpdateIntegrationPartitionResult, Present
<1>4. jobs[p] \in Row
  BY <1>1, <1>2
<1> HIDE DEF u, p
<1>5. CASE RecordOnly(u)
  <2>1. Recorded(a)
    BY <1>1, <1>2, <1>5 DEF RecordOnly, Recorded, ParentRunning, u
  <2> QED
    BY <1>1, <1>2, <1>3, <1>5, <2>1 DEF RecordOnly, u, p
<1>6. CASE RecordPart(u)
  <2>1. OneOfMany(a)
    BY <1>1, <1>2, <1>6 DEF RecordPart, OneOfMany, ParentRunning, LastToComplete, u
  <2> QED
    BY <1>1, <1>2, <1>3, <1>6, <2>1 DEF RecordPart, u, p
<1>7. CASE RecordFailure(u)
  <2>1. PICK dropped \in SUBSET PendingSiblings(u) : jobs' = FailureWritten(u, dropped)
    BY <1>7 DEF RecordFailure
  <2>2. \A j \in dropped : /\ j \in JobIds /\ IsPartition(j) /\ j # u.id
                           /\ j[1] = job[a][1] /\ jobs[j].status = "PENDING"
    BY <1>1, <2>1 DEF PendingSiblings, ChildRows
  <2>3. jobs'[job[a]] = Written(u)
    BY <1>1, <1>2, <2>1, <2>2 DEF FailureWritten, p
  <2>4. FailedWith(p, "partition_failed")
    <3>1. jobs'[p] = [jobs[p] EXCEPT !.status = "FAILED", !.error = "partition_failed"]
      BY <1>1, <1>2, <2>1, <2>2, ParentFacts DEF FailureWritten, p
    <3> QED
      BY <1>4, <3>1 DEF FailedWith, Row
  <2>5. ASSUME NEW j \in JobIds \ {job[a], p}
        PROVE  \/ jobs'[j] = jobs[j]
               \/ /\ IsPartition(j) /\ j[1] = job[a][1] /\ jobs[j].status = "PENDING"
                  /\ FailedWith(j, "cancelled")
    <3>1. CASE j \in dropped
      <4>1. jobs'[j] = [jobs[j] EXCEPT !.status = "FAILED", !.error = "cancelled"]
        BY <1>1, <2>1, <3>1 DEF FailureWritten, p
      <4> QED
        BY <1>1, <2>2, <3>1, <4>1 DEF FailedWith, Row
    <3>2. CASE j \notin dropped
      BY <1>1, <2>1, <3>2 DEF FailureWritten, p
    <3> QED
      BY <3>1, <3>2
  <2>6. u.status = "FAILED" /\ jobs[p].status = "RUNNING"
    BY <1>1, <1>7 DEF RecordFailure, ParentRunning, p
  <2>7. GivenUp(a)
    BY <2>4, <2>5, <2>6 DEF GivenUp, u, p
  <2> QED
    BY <1>1, <1>2, <1>3, <2>3, <2>7 DEF u, p
<1>8. CASE RecordLast(u)
  <2>1. PICK aggregate \in {"value", "non_finite"} :
           jobs' = [jobs EXCEPT ![u.id] = Written(u),
                                ![p] = [@ EXCEPT !.status = "COMPLETED",
                                                 !.result = aggregate,
                                                 !.error  = "none"]]
    BY <1>1, <1>8 DEF RecordLast, p
  <2>2. jobs'[job[a]] = Written(u)
    BY <1>1, <1>2, <2>1
  <2>3. /\ jobs'[p].status = "COMPLETED" /\ jobs'[p].error = "none"
        /\ jobs'[p].retry_count = jobs[p].retry_count
    BY <1>1, <1>2, <1>4, <2>1 DEF Row
  <2>4. \A j \in JobIds \ {job[a], p} : jobs'[j] = jobs[j]
    BY <1>1, <2>1
  <2>5. /\ u.status = "COMPLETED" /\ u.result = "value"
        /\ jobs[p].status = "RUNNING"
        /\ PartitionIds(job[a][1]) = ChildRows(job[a][1])
        /\ \A k \in ChildRows(job[a][1]) \ {job[a]} :
              jobs[k].status = "COMPLETED" /\ jobs[k].result = "value"
    BY <1>1, <1>8 DEF RecordLast, ParentRunning, LastToComplete, Aggregates, p
  <2>6. LastOfAll(a)
    BY <2>3, <2>4, <2>5 DEF LastOfAll, u, p
  <2> QED
    BY <1>1, <1>2, <1>3, <2>2, <2>6 DEF u, p
<1> QED
  BY <1>5, <1>6, <1>7, <1>8 DEF UpdateIntegrationPartitionResult, u

-----------------------------------------------------------------------------
(* The budget of attempts.  An undecided job has attempts left of the most  *)
(* it may get, and so had it when the agent that runs it claimed it.        *)

MostAttempts == IF BudgetCeiling = 0 THEN 1 ELSE BudgetCeiling

RowInBudget(row) ==
    /\ row.retry_count <= MostAttempts
    /\ row.status \in {"PENDING", "RUNNING"} => row.retry_count < MostAttempts
    /\ row.status = "FAILED" /\ row.error = "attempt" => row.retry_count >= BudgetFloor

BudgetInv ==
    /\ TypeInv
    /\ \A j \in JobIds : RowInBudget(jobs[j])
    /\ \A a \in Agents : pc[a] # "idle" => seen[a] < MostAttempts

(* The two budgets, and every agent's, in relation.                         *)
LEMMA BudgetFacts ==
    /\ BudgetFloor \in Nat /\ MostAttempts \in Nat \ {0}
    /\ \A a \in Agents : /\ Budget(a) \in Nat
                         /\ BudgetFloor <= Budget(a) /\ Budget(a) <= MostAttempts
  BY WorkersAssumption
  DEF BudgetFloor, BudgetCeiling, MostAttempts, Budget, DefaultMaxJobRetries

(* Rows that were just inserted, or are gone, are in it.                    *)
LEMMA FreshInBudget == RowInBudget(NoRow) /\ \A t \in Nat : RowInBudget(NewRow(t))
  BY BudgetFacts DEF RowInBudget, NoRow, NewRow

(* What a save writes to the claimed row is in it.                          *)
LEMMA WrittenInBudget ==
    ASSUME BudgetInv, NEW a \in Agents, pc[a] # "idle"
    PROVE  RowInBudget(Written(Update(a)))
<1>1. /\ job[a] \in JobIds /\ jobs[job[a]] \in Row /\ Update(a).id = job[a]
      /\ seen[a] \in Nat /\ seen[a] < MostAttempts
  BY UpdateFacts DEF BudgetInv, TypeInv, TypeOK
<1>2. /\ Update(a).retry_count \in {seen[a], seen[a] + 1}
      /\ Update(a).status = "PENDING" =>
            Update(a).retry_count = seen[a] + 1 /\ seen[a] + 1 < Budget(a)
      /\ Update(a).status = "FAILED" =>
            Update(a).retry_count = seen[a] + 1 /\ ~(seen[a] + 1 < Budget(a))
      /\ Update(a).status # "RUNNING"
  BY DEF Update
<1>3. /\ Written(Update(a)).status = Update(a).status
      /\ Written(Update(a)).retry_count = Update(a).retry_count
      /\ Written(Update(a)).error = Update(a).error
  BY <1>1 DEF Written, Row
<1> HIDE DEF Update
<1> QED
  BY <1>1, <1>2, <1>3, BudgetFacts DEF RowInBudget

LEMMA BudgetSave ==
    ASSUME BudgetInv, NEW a \in Agents, NEW j \in JobIds,
           SaveJobResult(a) \/ SavePartitionResult(a) \/ SavePartitionReplyLost(a)
    PROVE  RowInBudget(jobs'[j])
<1>1. /\ pc[a] # "idle" /\ TypeInv /\ RowInBudget(jobs[j]) /\ jobs[j] \in Row
      /\ jobs \in [JobIds -> Row] /\ Update(a).id = job[a] /\ job[a] \in JobIds
  BY UpdateFacts
  DEF SaveJobResult, SavePartitionResult, SavePartitionReplyLost, Running, BudgetInv,
      TypeInv, TypeOK
<1>2. CASE UpdateJobResult(Update(a))
  BY <1>1, <1>2, WrittenInBudget DEF UpdateJobResult
<1>3. CASE IsPartition(job[a]) /\ UpdateIntegrationPartitionResult(Update(a))
  <2>1. CASE j = job[a]
    BY <1>1, <1>3, <2>1, PartitionSaved, WrittenInBudget
  <2>2. CASE j # job[a]
    <3>1. \/ jobs'[j] = jobs[j]
          \/ /\ jobs'[j].retry_count = jobs[j].retry_count
             /\ \/ jobs'[j].status = "FAILED" /\ jobs'[j].error # "attempt"
                \/ jobs'[j].status = "COMPLETED"
      <4>1. CASE Recorded(a) \/ OneOfMany(a)
        BY <2>2, <4>1 DEF Recorded, OneOfMany
      <4>2. CASE GivenUp(a)
        BY <2>2, <4>2 DEF GivenUp, FailedWith
      <4>3. CASE LastOfAll(a)
        BY <2>2, <4>3 DEF LastOfAll
      <4> QED
        BY <1>1, <1>3, <4>1, <4>2, <4>3, PartitionSaved
    <3> QED
      BY <1>1, <3>1 DEF RowInBudget
  <2> QED
    BY <2>1, <2>2
<1> QED
  BY <1>2, <1>3 DEF SaveJobResult, SavePartitionResult, SavePartitionReplyLost

(* Claims and resets move a row between PENDING and RUNNING.                *)
LEMMA BudgetStep == BudgetInv /\ [Next]_vars => BudgetInv'
<1> SUFFICES ASSUME BudgetInv, [Next]_vars
             PROVE  BudgetInv'
  OBVIOUS
<1> DEFINE RowsIn   == \A j \in JobIds : RowInBudget(jobs'[j])
           ClaimsIn == \A a \in Agents : pc'[a] # "idle" => seen'[a] < MostAttempts
<1>1. TypeInv /\ TypeInv' /\ jobs \in [JobIds -> Row] /\ now \in Nat
  BY TypeStep DEF BudgetInv, TypeInv, TypeOK
<1>2. \A row \in Row : RowInBudget(row) /\ row.status \in {"PENDING", "RUNNING"} =>
         \A s \in {"PENDING", "RUNNING"}, e \in {"none", "save_failed"} :
            RowInBudget([row EXCEPT !.status = s, !.error = e])
  BY DEF RowInBudget, Row
<1>3. ASSUME NEW r \in Roots, NEW q \in Requests, CreateJob(r, q) \/ CreateFailingJob(r, q)
      PROVE  RowsIn /\ ClaimsIn
  BY <1>1, <1>3, FreshInBudget
  DEF CreateJob, CreateFailingJob, InsertJob, agentVars, BudgetInv
<1>4. ASSUME ClearJobs \/ ClearJobsFails
      PROVE  RowsIn /\ ClaimsIn
  BY <1>1, <1>4, FreshInBudget
  DEF ClearJobs, ClearJobsFails, StartDelete, FinishDelete, agentVars, BudgetInv
<1>5. ASSUME NEW a \in Agents, NEW j \in JobIds, Claim(j), Take(a, j)
      PROVE  RowsIn /\ ClaimsIn
  <2>1. /\ jobs[j].status = "PENDING"
        /\ jobs' = [jobs EXCEPT ![j] = [@ EXCEPT !.status = "RUNNING", !.error = "none"]]
    BY <1>5 DEF Claim
  <2>2. RowsIn
    BY <1>1, <1>2, <2>1 DEF BudgetInv
  <2>3. ClaimsIn
    BY <1>5, <2>1 DEF Take, BudgetInv, TypeInv, TypeOK, RowInBudget
  <2> QED
    BY <2>2, <2>3
<1>6. ASSUME NEW a \in Agents, ResetPartition(a)
      PROVE  RowsIn
  <2>1. /\ job[a] \in JobIds
        /\ \/ jobs' = jobs
           \/ /\ jobs[job[a]].status = "RUNNING"
              /\ jobs' = [jobs EXCEPT ![job[a]] = [@ EXCEPT !.status = "PENDING",
                                                            !.error = "save_failed"]]
    BY <1>6 DEF ResetPartition, ResetRunningJobToPending, BudgetInv, TypeInv, TypeOK
  <2> QED
    BY <1>1, <1>2, <2>1 DEF BudgetInv
<1>7. ASSUME NEW a \in Agents, FanOut(a)
      PROVE  RowsIn
  BY <1>1, <1>7, FreshInBudget DEF FanOut, EnsureJobPartitions, BudgetInv
<1>8. ASSUME NEW a \in Agents, Step(a) \/ AgentFault(a)
      PROVE  RowsIn /\ ClaimsIn
  <2>1. ASSUME \/ RejectPartitionResult(a) \/ FanOutRejected(a)
               \/ Abandon(a) \/ SavePartitionFails(a)
        PROVE  RowsIn
    BY <2>1 DEF RejectPartitionResult, FanOutRejected, Abandon, SavePartitionFails,
                tableVars, BudgetInv
  <2>2. RowsIn
    BY <1>6, <1>7, <1>8, <2>1, BudgetSave DEF Step, AgentFault
  <2>3. pc[a] # "idle" /\ (Release(a) \/ GoReset(a))
    BY <1>8, TurnGoesOn
  <2>4. \A b \in Agents : pc'[b] # "idle" => pc[b] # "idle" /\ seen'[b] = seen[b]
    BY <1>1, <2>3 DEF Release, GoReset, TypeInv, TypeOK
  <2> QED
    BY <2>2, <2>4 DEF BudgetInv
<1>9. ASSUME UNCHANGED vars
      PROVE  RowsIn /\ ClaimsIn
  BY <1>1, <1>9 DEF vars, tableVars, agentVars, BudgetInv
<1>10. RowsIn /\ ClaimsIn
  <2>1. ASSUME NEW w \in Workers, NEW j \in JobIds, Receive(w, j)
        PROVE  RowsIn /\ ClaimsIn
    BY <1>5, <2>1 DEF Receive, ClaimNextPendingJob, Agents
  <2>2. ASSUME NEW c \in Runners, NEW j \in JobIds, RunById(c, j)
        PROVE  RowsIn /\ ClaimsIn
    BY <1>5, <2>2 DEF RunById, ClaimJobById, Agents
  <2> HIDE DEF RowsIn, ClaimsIn
  <2> QED
    BY <1>3, <1>4, <1>8, <1>9, <2>1, <2>2 DEF Next
<1> QED
  BY <1>1, <1>10 DEF BudgetInv

(* A job is given up after its budget of failed attempts and not before,    *)
(* whichever agents made them and whatever fails in between: also after a   *)
(* lost reply, when two agents may count from the same row.                 *)
THEOREM BudgetIsRespected == Spec => []BudgetRespected
<1>1. Init => BudgetInv
  BY TypeInit, FreshInBudget DEF Init, InitTable, BudgetInv
<1>2. BudgetInv => BudgetRespected
  BY DEF BudgetInv, RowInBudget, MostAttempts, BudgetRespected
<1> QED
  BY <1>1, <1>2, BudgetStep, PTL DEF Spec

-----------------------------------------------------------------------------
(* Families.  That an integration is COMPLETED exactly when its partitions  *)
(* are is not inductive: it takes that the partitions are there all         *)
(* together, that a parent once fanned out is never claimed again, and,     *)
(* since after a lost reply two agents may save the same partition, that    *)
(* they save the same: what a partition has to give is fixed by its input.  *)

RootsHeld ==
    \A a \in Agents : pc[a] # "idle" /\ ~IsPartition(job[a]) =>
        /\ \A b \in Agents : pc[b] # "idle" /\ job[a] = job[b] => a = b
        /\ jobs[job[a]].status \in {"RUNNING", "ABSENT"}

ParentsFree == RootsHeld /\ ParentsFannedOut /\ OnlyPartitionsReset

Complete(j) == jobs[j].status = "COMPLETED" /\ jobs[j].result = "value"

FamilyOK(r) ==
    ChildRows(r) # {} =>
        /\ ChildRows(r) = PartitionIds(r)
        /\ jobs[<<r, 0>>].status \in {"RUNNING", "COMPLETED", "FAILED"}
        /\ \A j \in PartitionIds(r) :
              jobs[j].status = "COMPLETED" => jobs[j].result = Outcome(j)
        /\ jobs[<<r, 0>>].status = "FAILED" => \E j \in PartitionIds(r) : Outcome(j) = "error"
        /\ jobs[<<r, 0>>].status = "COMPLETED" <=> \A j \in PartitionIds(r) : Complete(j)

FamilyInv == TypeInv /\ ParentsFree /\ \A r \in Roots : FamilyOK(r)

(* The rows of a family.                                                    *)
LEMMA FamilyFacts ==
    ASSUME TypeInv, NEW r \in Roots
    PROVE  /\ PartitionIds(r) \subseteq JobIds
           /\ ChildRows(r) \subseteq PartitionIds(r)
           /\ <<r, 0>> \in JobIds /\ ~IsPartition(<<r, 0>>)
           /\ \A j \in PartitionIds(r) : j[1] = r /\ IsPartition(j) /\ Parent(j) = <<r, 0>>
           /\ \A j \in JobIds : j[1] = r /\ IsPartition(j) /\ jobs[j].status # "ABSENT"
                 => j \in ChildRows(r)
<1>1. <<r, 0>> \in JobIds /\ ~IsPartition(<<r, 0>>)
  BY MaxPartitionsAssumption DEF JobIds, IsPartition
<1>2. Partitions(r) \subseteq 1..MaxPartitions
  <2>1. CASE input[r] = NoRequest
    BY <2>1 DEF NoRequest, Partitions
  <2>2. CASE input[r] \in Requests
    BY <2>2, RequestsAssumption, MaxPartitionsAssumption DEF Partitions
  <2> QED
    BY <2>1, <2>2 DEF TypeInv, TypeOK
<1>3. \A i \in 1..MaxPartitions :
         /\ <<r, i>> \in JobIds /\ <<r, i>>[1] = r /\ IsPartition(<<r, i>>)
         /\ Parent(<<r, i>>) = <<r, 0>>
  BY MaxPartitionsAssumption DEF JobIds, IsPartition, Parent
<1>4. /\ PartitionIds(r) \subseteq JobIds
      /\ \A j \in PartitionIds(r) : j[1] = r /\ IsPartition(j) /\ Parent(j) = <<r, 0>>
  BY <1>2, <1>3 DEF PartitionIds
<1>5. ChildRows(r) \subseteq PartitionIds(r)
  <2> SUFFICES ASSUME NEW j \in ChildRows(r)
               PROVE  j \in PartitionIds(r)
    OBVIOUS
  <2>1. j \in JobIds /\ j[1] = r /\ IsPartition(j) /\ Present(j)
    BY DEF ChildRows
  <2>2. j[2] \in Partitions(r) /\ j = <<r, j[2]>>
    BY <2>1, JobIdFacts DEF TypeInv, RowsPosted, Posted
  <2> QED
    BY <2>2 DEF PartitionIds
<1> QED
  BY <1>1, <1>4, <1>5 DEF ChildRows, Present

(* A family whose rows and input a step leaves alone stays as it is.        *)
LEMMA FamilyKept ==
    ASSUME TypeInv, NEW r \in Roots, FamilyOK(r), input'[r] = input[r],
           \A j \in JobIds : j[1] = r => jobs'[j] = jobs[j]
    PROVE  FamilyOK(r)'
<1>1. ChildRows(r)' = ChildRows(r)
  BY DEF ChildRows, Present, IsPartition
<1>2. PartitionIds(r)' = PartitionIds(r)
  BY DEF PartitionIds, Partitions
<1>3. /\ jobs'[<<r, 0>>] = jobs[<<r, 0>>]
      /\ \A j \in PartitionIds(r) : jobs'[j] = jobs[j] /\ Outcome(j)' = Outcome(j)
  BY FamilyFacts DEF Outcome, IsPartition
<1> QED
  BY <1>1, <1>2, <1>3 DEF FamilyOK, Complete

(* What every save does to presence and to parents.                         *)
LEMMA SaveShape ==
    ASSUME TypeInv, NEW a \in Agents,
           SaveJobResult(a) \/ SavePartitionResult(a) \/ SavePartitionReplyLost(a)
    PROVE  /\ input' = input
           /\ \A j \in JobIds : jobs'[j].status # "ABSENT" <=> jobs[j].status # "ABSENT"
           /\ \A k \in JobIds : ~IsPartition(k) =>
                 \/ jobs'[k] = jobs[k]
                 \/ k = job[a] /\ pc'[a] = "idle"
                 \/ /\ IsPartition(job[a]) /\ jobs[job[a]].status # "ABSENT"
                    /\ k = Parent(job[a]) /\ jobs'[k].status \in Terminal
           /\ \A j \in JobIds : j[1] # job[a][1] => jobs'[j] = jobs[j]
<1>1. /\ pc[a] # "idle" /\ Update(a).id = job[a] /\ job[a] \in JobIds
      /\ jobs \in [JobIds -> Row]
  BY UpdateFacts
  DEF SaveJobResult, SavePartitionResult, SavePartitionReplyLost, Running, TypeInv, TypeOK
<1>2. Written(Update(a)).status # "ABSENT"
  <2>1. jobs[job[a]] \in Row /\ Update(a).status # "ABSENT"
    BY <1>1, UpdateFacts
  <2> HIDE DEF Update
  <2> QED
    BY <1>1, <2>1 DEF Written, Row
<1>3. CASE SaveJobResult(a)
  <2>1. pc'[a] = "idle"
    BY <1>1, <1>3 DEF SaveJobResult, Release, TypeInv, TypeOK
  <2>2. CASE jobs[job[a]].status = "ABSENT"
    BY <1>1, <1>3, <2>2 DEF SaveJobResult, UpdateJobResult, Present
  <2>3. CASE jobs[job[a]].status # "ABSENT"
    <3>1. jobs' = [jobs EXCEPT ![job[a]] = Written(Update(a))] /\ input' = input
      BY <1>1, <1>3, <2>3 DEF SaveJobResult, UpdateJobResult, Present
    <3> HIDE DEF Update, Written
    <3> QED
      BY <1>1, <1>2, <2>1, <2>3, <3>1
  <2> QED
    BY <2>2, <2>3
<1>4. CASE SavePartitionResult(a) \/ SavePartitionReplyLost(a)
  <2>1. IsPartition(job[a]) /\ UpdateIntegrationPartitionResult(Update(a)) /\ input' = input
    BY <1>4 DEF SavePartitionResult, SavePartitionReplyLost, UpdateIntegrationPartitionResult
  <2>2. /\ job[a] \in JobIds /\ jobs[job[a]].status # "ABSENT"
        /\ Parent(job[a]) \in JobIds /\ Parent(job[a]) # job[a]
        /\ jobs[Parent(job[a])].status # "ABSENT"
        /\ jobs'[job[a]] = Written(Update(a))
        /\ Recorded(a) \/ GivenUp(a) \/ OneOfMany(a) \/ LastOfAll(a)
    BY <1>1, <2>1, PartitionSaved
  <2>3. \A j \in JobIds \ {job[a]} :
           \/ jobs'[j] = jobs[j]
           \/ j = Parent(job[a]) /\ jobs'[j].status \in Terminal
           \/ /\ IsPartition(j) /\ j[1] = job[a][1] /\ jobs[j].status = "PENDING"
              /\ jobs'[j].status = "FAILED"
    <3>1. CASE Recorded(a) \/ OneOfMany(a)
      BY <3>1 DEF Recorded, OneOfMany
    <3>2. CASE GivenUp(a)
      BY <3>2 DEF GivenUp, FailedWith, Terminal
    <3>3. CASE LastOfAll(a)
      BY <3>3 DEF LastOfAll, Terminal
    <3> QED
      BY <2>2, <3>1, <3>2, <3>3
  <2> HIDE DEF Update, Written
  <2> QED
    BY <1>1, <1>2, <2>1, <2>2, <2>3, ParentFacts DEF Terminal
<1> QED
  BY <1>3, <1>4

(* Each action keeps ParentsFree: nobody holds a parent that has partitions *)
(* and one agent at most a root.                                            *)
LEMMA FreePost ==
    ASSUME FamilyInv, NEW r \in Roots, NEW q \in Requests,
           CreateJob(r, q) \/ CreateFailingJob(r, q)
    PROVE  ParentsFree'
<1>1. /\ input[r] = NoRequest
      /\ jobs' = [jobs EXCEPT ![<<r, 0>>] = NewRow(now)]
      /\ pc' = pc /\ job' = job
  BY DEF CreateJob, CreateFailingJob, InsertJob, agentVars
<1>2. jobs \in [JobIds -> Row] /\ \A a \in Agents : pc[a] # "idle" => job[a] \in JobIds
  BY DEF FamilyInv, TypeInv, TypeOK
<1>3. \A a \in Agents : pc[a] # "idle" => job[a][1] # r
  BY <1>1 DEF FamilyInv, TypeInv, ClaimsPosted, Posted
<1>4. \A j \in JobIds : jobs[j].status # "ABSENT" => j[1] # r
  BY <1>1 DEF FamilyInv, TypeInv, RowsPosted, Posted, Present
<1>5. /\ \A j \in JobIds : j[1] # r => jobs'[j] = jobs[j]
      /\ \A j \in JobIds : IsPartition(j) => jobs'[j] = jobs[j]
  BY <1>1, <1>2 DEF IsPartition
<1>6. RootsHeld' /\ OnlyPartitionsReset'
  BY <1>1, <1>2, <1>3, <1>5
  DEF FamilyInv, ParentsFree, RootsHeld, OnlyPartitionsReset, IsPartition
<1>7. ParentsFannedOut'
  <2> SUFFICES ASSUME NEW j \in JobIds, IsPartition(j), jobs'[j].status # "ABSENT"
               PROVE  /\ jobs'[Parent(j)].status \notin {"ABSENT", "PENDING"}
                      /\ \A a \in Agents : pc[a] # "idle" => job[a] # Parent(j)
    BY <1>1 DEF ParentsFannedOut, IsPartition, Parent
  <2>1. jobs[j].status # "ABSENT" /\ jobs'[Parent(j)] = jobs[Parent(j)]
    BY <1>4, <1>5, ParentFacts
  <2> QED
    BY <2>1 DEF FamilyInv, ParentsFree, ParentsFannedOut
<1> QED
  BY <1>6, <1>7 DEF ParentsFree

LEMMA FreeClear ==
    ASSUME FamilyInv, ClearJobs \/ ClearJobsFails
    PROVE  ParentsFree'
<1>1. /\ pc' = pc /\ job' = job
      /\ \/ jobs' = jobs
         \/ jobs' = [j \in JobIds |-> IF j[1] \in doomed THEN NoRow ELSE jobs[j]]
  BY DEF ClearJobs, ClearJobsFails, StartDelete, FinishDelete, agentVars
<1> DEFINE gone == IF jobs' = jobs THEN {} ELSE doomed
<1>2. jobs \in [JobIds -> Row] /\ \A a \in Agents : pc[a] # "idle" => job[a] \in JobIds
  BY DEF FamilyInv, TypeInv, TypeOK
<1>3. /\ \A j \in JobIds : j[1] \notin gone => jobs'[j] = jobs[j]
      /\ \A j \in JobIds : j[1] \in gone => jobs'[j].status = "ABSENT"
  BY <1>1, <1>2 DEF NoRow
<1> HIDE DEF gone
<1>4. RootsHeld' /\ OnlyPartitionsReset'
  BY <1>1, <1>2, <1>3
  DEF FamilyInv, ParentsFree, RootsHeld, OnlyPartitionsReset, IsPartition
<1>5. ParentsFannedOut'
  <2> SUFFICES ASSUME NEW j \in JobIds, IsPartition(j), jobs'[j].status # "ABSENT"
               PROVE  /\ jobs'[Parent(j)].status \notin {"ABSENT", "PENDING"}
                      /\ \A a \in Agents : pc[a] # "idle" => job[a] # Parent(j)
    BY <1>1 DEF ParentsFannedOut, IsPartition, Parent
  <2>1. jobs'[j] = jobs[j] /\ jobs'[Parent(j)] = jobs[Parent(j)]
    BY <1>3, ParentFacts
  <2> QED
    BY <2>1 DEF FamilyInv, ParentsFree, ParentsFannedOut
<1> QED
  BY <1>4, <1>5 DEF ParentsFree

LEMMA FreeClaim ==
    ASSUME FamilyInv, NEW a \in Agents, NEW j \in JobIds, Claim(j), Take(a, j)
    PROVE  ParentsFree'
<1>1. /\ jobs[j].status = "PENDING" /\ pc[a] = "idle"
      /\ jobs' = [jobs EXCEPT ![j] = [@ EXCEPT !.status = "RUNNING", !.error = "none"]]
      /\ pc' = [pc EXCEPT ![a] = "running"] /\ job' = [job EXCEPT ![a] = j]
  BY DEF Claim, Take
<1>2. /\ jobs \in [JobIds -> Row] /\ DOMAIN pc = Agents /\ DOMAIN job = Agents
      /\ pc'[a] = "running" /\ job'[a] = j
      /\ \A b \in Agents \ {a} : pc'[b] = pc[b] /\ job'[b] = job[b]
      /\ \A b \in Agents : pc[b] # "idle" => job[b] \in JobIds
  BY <1>1 DEF FamilyInv, TypeInv, TypeOK
<1>3. jobs'[j].status = "RUNNING" /\ \A k \in JobIds \ {j} : jobs'[k] = jobs[k]
  BY <1>1, <1>2 DEF Row
<1>4. \A k \in JobIds : IsPartition(k) /\ jobs[k].status # "ABSENT" => Parent(k) # j
  BY <1>1 DEF FamilyInv, ParentsFree, ParentsFannedOut
<1>5. ~IsPartition(j) => \A b \in Agents : pc[b] # "idle" => job[b] # j
  BY <1>1 DEF FamilyInv, ParentsFree, RootsHeld
<1>6. RootsHeld'
  BY <1>2, <1>3, <1>5 DEF FamilyInv, ParentsFree, RootsHeld, IsPartition
<1>7. ParentsFannedOut'
  <2> SUFFICES ASSUME NEW k \in JobIds, IsPartition(k), jobs'[k].status # "ABSENT"
               PROVE  /\ jobs'[Parent(k)].status \notin {"ABSENT", "PENDING"}
                      /\ \A b \in Agents : pc'[b] # "idle" => job'[b] # Parent(k)
    BY DEF ParentsFannedOut, IsPartition, Parent
  <2>1. jobs[k].status # "ABSENT" /\ Parent(k) # j /\ jobs'[Parent(k)] = jobs[Parent(k)]
    BY <1>1, <1>3, <1>4, ParentFacts
  <2> QED
    BY <2>1, <1>2 DEF FamilyInv, ParentsFree, ParentsFannedOut
<1>8. OnlyPartitionsReset'
  BY <1>2 DEF FamilyInv, ParentsFree, OnlyPartitionsReset, IsPartition
<1> QED
  BY <1>6, <1>7, <1>8 DEF ParentsFree

LEMMA FreeSave ==
    ASSUME FamilyInv, NEW a \in Agents,
           SaveJobResult(a) \/ SavePartitionResult(a) \/ SavePartitionReplyLost(a)
    PROVE  ParentsFree'
<1>1. /\ pc[a] # "idle" /\ job[a] \in JobIds
      /\ Release(a) \/ (GoReset(a) /\ IsPartition(job[a]))
      /\ \A b \in Agents : pc[b] # "idle" => job[b] \in JobIds
  BY DEF SaveJobResult, SavePartitionResult, SavePartitionReplyLost, Running, FamilyInv,
         TypeInv, TypeOK
<1>2. \A b \in Agents : pc'[b] # "idle" =>
         /\ pc[b] # "idle" /\ job'[b] = job[b]
         /\ pc'[b] = "resetting" => pc[b] = "resetting" \/ IsPartition(job[b])
  BY <1>1 DEF FamilyInv, TypeInv, TypeOK, Release, GoReset
<1>3. /\ \A j \in JobIds : jobs'[j].status # "ABSENT" <=> jobs[j].status # "ABSENT"
      /\ \A k \in JobIds : ~IsPartition(k) =>
            \/ jobs'[k] = jobs[k]
            \/ k = job[a] /\ pc'[a] = "idle"
            \/ /\ IsPartition(job[a]) /\ jobs[job[a]].status # "ABSENT"
               /\ k = Parent(job[a]) /\ jobs'[k].status \in Terminal
  BY SaveShape DEF FamilyInv
<1>4. IsPartition(job[a]) /\ jobs[job[a]].status # "ABSENT" =>
         \A b \in Agents : pc[b] # "idle" => job[b] # Parent(job[a])
  BY <1>1 DEF FamilyInv, ParentsFree, ParentsFannedOut
<1>5. RootsHeld'
  <2> SUFFICES ASSUME NEW b \in Agents, pc'[b] # "idle", ~IsPartition(job[b])
               PROVE  /\ \A c \in Agents : pc'[c] # "idle" /\ job'[b] = job'[c] => b = c
                      /\ jobs'[job[b]].status \in {"RUNNING", "ABSENT"}
    BY <1>2 DEF RootsHeld, IsPartition
  <2>1. /\ \A c \in Agents : pc[c] # "idle" /\ job[b] = job[c] => b = c
        /\ jobs[job[b]].status \in {"RUNNING", "ABSENT"} /\ job[b] \in JobIds
    BY <1>1, <1>2 DEF FamilyInv, ParentsFree, RootsHeld
  <2>2. jobs'[job[b]] = jobs[job[b]]
    BY <1>1, <1>2, <1>3, <1>4, <2>1
  <2> QED
    BY <1>2, <2>1, <2>2
<1>6. ParentsFannedOut'
  <2> SUFFICES ASSUME NEW j \in JobIds, IsPartition(j), jobs'[j].status # "ABSENT"
               PROVE  /\ jobs'[Parent(j)].status \notin {"ABSENT", "PENDING"}
                      /\ \A b \in Agents : pc'[b] # "idle" => job'[b] # Parent(j)
    BY DEF ParentsFannedOut, IsPartition, Parent
  <2>1. /\ jobs[Parent(j)].status \notin {"ABSENT", "PENDING"}
        /\ \A b \in Agents : pc[b] # "idle" => job[b] # Parent(j)
    BY <1>3 DEF FamilyInv, ParentsFree, ParentsFannedOut
  <2>2. jobs'[Parent(j)] = jobs[Parent(j)] \/ jobs'[Parent(j)].status \in Terminal
    BY <2>1, <1>1, <1>3, ParentFacts
  <2> QED
    BY <2>1, <2>2, <1>2 DEF Terminal
<1>7. OnlyPartitionsReset'
  BY <1>2 DEF FamilyInv, ParentsFree, OnlyPartitionsReset, IsPartition
<1> QED
  BY <1>5, <1>6, <1>7 DEF ParentsFree

(* Agents that only go on, and resets, which are of partitions.             *)
LEMMA FreeLeave ==
    ASSUME FamilyInv, NEW a \in Agents,
           \/ RejectPartitionResult(a) \/ FanOutRejected(a) \/ ResetPartition(a)
           \/ Abandon(a) \/ SavePartitionFails(a)
    PROVE  ParentsFree'
<1>1. /\ pc[a] # "idle"
      /\ Release(a) \/ (GoReset(a) /\ IsPartition(job[a]))
  <2>1. CASE RejectPartitionResult(a) \/ SavePartitionFails(a)
    BY <2>1 DEF RejectPartitionResult, SavePartitionFails, Running
  <2>2. CASE FanOutRejected(a) \/ Abandon(a) \/ ResetPartition(a)
    BY <2>2 DEF FanOutRejected, Abandon, ResetPartition, Running
  <2> QED
    BY <2>1, <2>2
<1>2. \A b \in Agents : pc'[b] # "idle" =>
         /\ pc[b] # "idle" /\ job'[b] = job[b]
         /\ pc'[b] = "resetting" => pc[b] = "resetting" \/ IsPartition(job[b])
  BY <1>1 DEF FamilyInv, TypeInv, TypeOK, Release, GoReset
<1>3. /\ jobs \in [JobIds -> Row]
      /\ \A b \in Agents : pc[b] # "idle" => job[b] \in JobIds
  BY DEF FamilyInv, TypeInv, TypeOK
<1>4. /\ \A j \in JobIds : jobs'[j].status # "ABSENT" <=> jobs[j].status # "ABSENT"
      /\ \A k \in JobIds : ~IsPartition(k) => jobs'[k] = jobs[k]
  <2>1. CASE jobs' = jobs
    BY <2>1
  <2>2. CASE ResetPartition(a) /\ jobs' # jobs
    <3>1. /\ IsPartition(job[a]) /\ job[a] \in JobIds /\ jobs[job[a]].status = "RUNNING"
          /\ jobs' = [jobs EXCEPT ![job[a]] = [@ EXCEPT !.status = "PENDING",
                                                        !.error = "save_failed"]]
      BY <1>1, <1>3, <2>2 DEF ResetPartition, ResetRunningJobToPending, FamilyInv, ParentsFree,
                              OnlyPartitionsReset
    <3> QED
      BY <1>3, <3>1 DEF Row
  <2> QED
    BY <2>1, <2>2 DEF RejectPartitionResult, FanOutRejected, Abandon, SavePartitionFails,
                      tableVars
<1>5. RootsHeld' /\ OnlyPartitionsReset'
  BY <1>2, <1>3, <1>4 DEF FamilyInv, ParentsFree, RootsHeld, OnlyPartitionsReset, IsPartition
<1>6. ParentsFannedOut'
  <2> SUFFICES ASSUME NEW j \in JobIds, IsPartition(j), jobs'[j].status # "ABSENT"
               PROVE  /\ jobs'[Parent(j)].status \notin {"ABSENT", "PENDING"}
                      /\ \A b \in Agents : pc'[b] # "idle" => job'[b] # Parent(j)
    BY DEF ParentsFannedOut, IsPartition, Parent
  <2>1. jobs[j].status # "ABSENT" /\ jobs'[Parent(j)] = jobs[Parent(j)]
    BY <1>4, ParentFacts
  <2> QED
    BY <2>1, <1>2 DEF FamilyInv, ParentsFree, ParentsFannedOut
<1> QED
  BY <1>5, <1>6 DEF ParentsFree

(* An agent that fans out holds a RUNNING parent without partitions, and    *)
(* lets go of it: all of them are inserted, PENDING.                        *)
LEMMA FanOutShape ==
    ASSUME FamilyInv, NEW a \in Agents, FanOut(a)
    PROVE  LET r == job[a][1] IN
           /\ r \in Roots /\ job[a] = <<r, 0>> /\ jobs[<<r, 0>>].status = "RUNNING"
           /\ pc[a] # "idle" /\ Release(a)
           /\ ChildRows(r) = {} /\ PartitionIds(r) # {} /\ input' = input
           /\ jobs' = [j \in JobIds |-> IF j \in PartitionIds(r) THEN NewRow(now) ELSE jobs[j]]
           /\ \A b \in Agents : pc[b] # "idle" /\ job[a] = job[b] => a = b
<1> DEFINE r == job[a][1]
<1>1. /\ pc[a] # "idle" /\ Release(a) /\ job[a] \in JobIds /\ input' = input
      /\ ~IsPartition(job[a]) /\ Partitions(r) # {} /\ jobs[<<r, 0>>].status # "ABSENT"
      /\ jobs' = [j \in JobIds |-> IF j \in PartitionIds(r) /\ ~Present(j)
                                   THEN NewRow(now) ELSE jobs[j]]
  BY DEF FanOut, EnsureJobPartitions, Running, Present, IsCoordinator, FamilyInv, TypeInv, TypeOK
<1>2. r \in Roots /\ job[a] = <<r, 0>>
  BY <1>1, JobIdFacts, ParentFacts
<1>3. /\ jobs[<<r, 0>>].status = "RUNNING"
      /\ \A b \in Agents : pc[b] # "idle" /\ job[a] = job[b] => a = b
  BY <1>1, <1>2 DEF FamilyInv, ParentsFree, RootsHeld
<1>4. \A j \in JobIds : j[1] = r /\ IsPartition(j) => jobs[j].status = "ABSENT"
  <2> SUFFICES ASSUME NEW j \in JobIds, j[1] = r, IsPartition(j), jobs[j].status # "ABSENT"
               PROVE  FALSE
    OBVIOUS
  <2>1. Parent(j) = job[a]
    BY <1>2 DEF Parent
  <2> QED
    BY <1>1, <2>1 DEF FamilyInv, ParentsFree, ParentsFannedOut
<1>5. ChildRows(r) = {}
  BY <1>4 DEF ChildRows, Present
<1>6. PartitionIds(r) # {}
  BY <1>1 DEF PartitionIds
<1>7. \A j \in PartitionIds(r) : j \in JobIds /\ ~Present(j)
  BY <1>2, <1>4, FamilyFacts DEF FamilyInv, Present
<1>8. jobs' = [j \in JobIds |-> IF j \in PartitionIds(r) THEN NewRow(now) ELSE jobs[j]]
  BY <1>1, <1>7
<1> QED
  BY <1>1, <1>2, <1>3, <1>5, <1>6, <1>8

LEMMA FreeFanOut ==
    ASSUME FamilyInv, NEW a \in Agents, FanOut(a)
    PROVE  ParentsFree'
<1> DEFINE r == job[a][1]
<1>1. /\ r \in Roots /\ job[a] = <<r, 0>> /\ jobs[<<r, 0>>].status = "RUNNING"
      /\ pc[a] # "idle" /\ Release(a)
      /\ jobs' = [j \in JobIds |-> IF j \in PartitionIds(r) THEN NewRow(now) ELSE jobs[j]]
      /\ \A b \in Agents : pc[b] # "idle" /\ job[a] = job[b] => a = b
  BY FanOutShape
<1>2. \A j \in PartitionIds(r) : IsPartition(j) /\ Parent(j) = <<r, 0>>
  BY <1>1, FamilyFacts DEF FamilyInv
<1>3. /\ jobs \in [JobIds -> Row]
      /\ \A b \in Agents : pc'[b] # "idle" =>
            b # a /\ pc'[b] = pc[b] /\ job'[b] = job[b]
      /\ \A b \in Agents : pc[b] # "idle" => job[b] \in JobIds
  BY <1>1 DEF FamilyInv, TypeInv, TypeOK, Release
<1> HIDE DEF r
<1>4. /\ \A j \in JobIds : ~IsPartition(j) => jobs'[j] = jobs[j]
      /\ \A j \in JobIds : j \notin PartitionIds(r) => jobs'[j] = jobs[j]
  BY <1>1, <1>2
<1>5. RootsHeld' /\ OnlyPartitionsReset'
  BY <1>3, <1>4 DEF FamilyInv, ParentsFree, RootsHeld, OnlyPartitionsReset, IsPartition
<1>6. ParentsFannedOut'
  <2> SUFFICES ASSUME NEW j \in JobIds, IsPartition(j), jobs'[j].status # "ABSENT"
               PROVE  /\ jobs'[Parent(j)].status \notin {"ABSENT", "PENDING"}
                      /\ \A b \in Agents : pc'[b] # "idle" => job'[b] # Parent(j)
    BY DEF ParentsFannedOut, IsPartition, Parent
  <2>1. jobs'[Parent(j)] = jobs[Parent(j)]
    BY <1>4, ParentFacts
  <2>2. CASE j \in PartitionIds(r)
    BY <2>1, <2>2, <1>1, <1>2, <1>3
  <2>3. CASE j \notin PartitionIds(r)
    BY <2>1, <2>3, <1>3, <1>4 DEF FamilyInv, ParentsFree, ParentsFannedOut
  <2> QED
    BY <2>2, <2>3
<1> QED
  BY <1>5, <1>6 DEF ParentsFree

(* What a save writes is what running the job gives.                        *)
LEMMA UpdateTells ==
    ASSUME TypeInv, NEW a \in Agents, pc[a] # "idle"
    PROVE  /\ Written(Update(a)).status = Update(a).status
           /\ Written(Update(a)).result = Update(a).result
           /\ Written(Update(a)).error = Update(a).error
           /\ \/ /\ Update(a).status = "COMPLETED" /\ Outcome(job[a]) # "error"
                 /\ Update(a).result = Outcome(job[a])
              \/ /\ Update(a).status \in {"PENDING", "FAILED"} /\ Outcome(job[a]) = "error"
                 /\ Update(a).result = "none" /\ Update(a).error = "attempt"
<1>1. job[a] \in JobIds /\ jobs[job[a]] \in Row /\ Update(a).id = job[a]
  BY UpdateFacts DEF TypeInv, TypeOK
<1>2. /\ Written(Update(a)).status = Update(a).status
      /\ Written(Update(a)).result = Update(a).result
      /\ Written(Update(a)).error = Update(a).error
  <2> HIDE DEF Update
  <2> QED
    BY <1>1 DEF Written, Row
<1> QED
  BY <1>2 DEF Update

(* A save of a partition keeps its family as it should be.                  *)
LEMMA FamilySaved ==
    ASSUME FamilyInv, NEW a \in Agents, SavePartitionResult(a) \/ SavePartitionReplyLost(a),
           NEW c \in JobIds, c = job[a], NEW r \in Roots, r = c[1]
    PROVE  FamilyOK(r)'
<1> DEFINE u == Update(a)
<1>1. /\ TypeInv /\ pc[a] # "idle" /\ IsPartition(c)
      /\ UpdateIntegrationPartitionResult(u)
  BY DEF SavePartitionResult, SavePartitionReplyLost, Running, FamilyInv
<1>2. /\ c \in JobIds /\ jobs[c].status # "ABSENT"
      /\ jobs'[c] = Written(u)
      /\ Recorded(a) \/ GivenUp(a) \/ OneOfMany(a) \/ LastOfAll(a)
  BY <1>1, PartitionSaved
<1>3. /\ Parent(c) = <<r, 0>> /\ <<r, 0>> \in JobIds /\ c \in ChildRows(r)
      /\ PartitionIds(r) \subseteq JobIds
      /\ \A j \in PartitionIds(r) : IsPartition(j) /\ j # <<r, 0>>
  BY <1>1, <1>2, JobIdFacts, FamilyFacts DEF Parent
<1>4. /\ ChildRows(r) = PartitionIds(r) /\ c \in PartitionIds(r)
      /\ jobs[<<r, 0>>].status \in {"RUNNING", "COMPLETED", "FAILED"}
      /\ \A j \in PartitionIds(r) : jobs[j].status = "COMPLETED" => jobs[j].result = Outcome(j)
      /\ jobs[<<r, 0>>].status = "FAILED" => \E j \in PartitionIds(r) : Outcome(j) = "error"
      /\ (jobs[<<r, 0>>].status = "COMPLETED") <=> (\A j \in PartitionIds(r) : Complete(j))
  BY <1>3 DEF FamilyInv, FamilyOK
<1>5. /\ input' = input
      /\ \A j \in JobIds : jobs'[j].status # "ABSENT" <=> jobs[j].status # "ABSENT"
  BY <1>1, SaveShape
<1>6. /\ Written(u).status = u.status /\ Written(u).result = u.result
      /\ \/ u.status = "COMPLETED" /\ Outcome(c) # "error" /\ u.result = Outcome(c)
         \/ u.status \in {"PENDING", "FAILED"} /\ Outcome(c) = "error" /\ u.result = "none"
  BY <1>1, UpdateTells
<1>7. ChildRows(r)' = ChildRows(r)
  BY <1>5 DEF ChildRows, Present, IsPartition
<1>8. PartitionIds(r)' = PartitionIds(r) /\ \A j : Outcome(j)' = Outcome(j)
  BY <1>5 DEF PartitionIds, Partitions, Outcome, IsPartition
<1>9. c # <<r, 0>> /\ \A j \in PartitionIds(r) : Complete(j) => Outcome(j) = "value"
  BY <1>3, <1>4 DEF Complete
<1> HIDE DEF u
(* The family as the step leaves it.                                        *)
<1> DEFINE OK == /\ jobs'[<<r, 0>>].status \in {"RUNNING", "COMPLETED", "FAILED"}
                 /\ \A j \in PartitionIds(r) :
                       jobs'[j].status = "COMPLETED" => jobs'[j].result = Outcome(j)
                 /\ jobs'[<<r, 0>>].status = "FAILED"
                       => \E j \in PartitionIds(r) : Outcome(j) = "error"
                 /\ (jobs'[<<r, 0>>].status = "COMPLETED")
                       <=> (\A j \in PartitionIds(r) :
                              jobs'[j].status = "COMPLETED" /\ jobs'[j].result = "value")
<1>10. jobs'[c].status = "COMPLETED" => jobs'[c].result = Outcome(c)
  BY <1>2, <1>6
<1>11. CASE Recorded(a)
  <2>1. /\ u.status = "PENDING" \/ jobs[<<r, 0>>].status # "RUNNING"
        /\ jobs'[<<r, 0>>] = jobs[<<r, 0>>]
        /\ \A j \in PartitionIds(r) : j # c => jobs'[j] = jobs[j]
    BY <1>3, <1>9, <1>11 DEF Recorded, u
  <2>2. ASSUME jobs[<<r, 0>>].status = "COMPLETED" PROVE OK
    (* c was COMPLETED with a value, and is so again.                       *)
    <3>1. jobs'[c].status = "COMPLETED" /\ jobs'[c].result = "value"
      BY <1>2, <1>4, <1>6, <1>9, <2>2
    <3> QED
      BY <1>4, <1>9, <1>10, <2>1, <2>2, <3>1 DEF Complete
  <2>3. ASSUME jobs[<<r, 0>>].status = "RUNNING" PROVE OK
    <3>1. jobs'[c].status # "COMPLETED"
      BY <1>2, <1>6, <2>1, <2>3
    <3> QED
      BY <1>4, <1>10, <2>1, <2>3, <3>1
  <2>4. ASSUME jobs[<<r, 0>>].status = "FAILED" PROVE OK
    (* The partition that failed it never completes.                        *)
    <3>1. PICK j \in PartitionIds(r) : Outcome(j) = "error"
      BY <1>4, <2>4
    <3>2. \A k \in PartitionIds(r) : jobs'[k].status = "COMPLETED" => jobs'[k].result = Outcome(k)
      BY <1>4, <1>10, <2>1
    <3>3. ~(jobs'[j].status = "COMPLETED" /\ jobs'[j].result = "value")
      BY <3>1, <3>2
    <3> QED
      BY <2>1, <2>4, <3>1, <3>2, <3>3
  <2>5. OK
    BY <1>4, <2>2, <2>3, <2>4
  <2> QED
    BY <1>4, <1>7, <1>8, <2>5 DEF FamilyOK, Complete
<1>12. CASE GivenUp(a)
  <2>1. /\ jobs'[<<r, 0>>].status = "FAILED" /\ u.status = "FAILED"
        /\ \A j \in PartitionIds(r) : j # c => jobs'[j] = jobs[j] \/ jobs'[j].status = "FAILED"
    BY <1>3, <1>12 DEF GivenUp, FailedWith, u
  <2>2. Outcome(c) = "error" /\ jobs'[c].status = "FAILED"
    BY <1>2, <1>6, <2>1
  <2>3. OK
    BY <1>4, <2>1, <2>2
  <2> QED
    BY <1>4, <1>7, <1>8, <2>3 DEF FamilyOK, Complete
<1>13. CASE OneOfMany(a)
  <2>1. PICK k \in ChildRows(r) : k # c /\ jobs[k].status # "COMPLETED"
    BY <1>13 DEF OneOfMany
  <2>2. /\ jobs[<<r, 0>>].status = "RUNNING" /\ jobs'[<<r, 0>>] = jobs[<<r, 0>>]
        /\ \A j \in PartitionIds(r) : j # c => jobs'[j] = jobs[j]
    BY <1>3, <1>9, <1>13 DEF OneOfMany
  <2>3. OK
    BY <1>4, <1>10, <2>1, <2>2
  <2> QED
    BY <1>4, <1>7, <1>8, <2>3 DEF FamilyOK, Complete
<1>14. CASE LastOfAll(a)
  <2>1. /\ u.status = "COMPLETED" /\ u.result = "value"
        /\ jobs'[<<r, 0>>].status = "COMPLETED"
        /\ \A j \in PartitionIds(r) :
              j # c => jobs'[j] = jobs[j] /\ jobs[j].status = "COMPLETED" /\ jobs[j].result = "value"
    BY <1>3, <1>4, <1>14 DEF LastOfAll, u
  <2>2. OK
    BY <1>2, <1>4, <1>6, <1>10, <2>1
  <2> QED
    BY <1>4, <1>7, <1>8, <2>2 DEF FamilyOK, Complete
<1> QED
  BY <1>2, <1>11, <1>12, <1>13, <1>14

(* A family without partitions, or that has lost them, is as it should be.  *)
LEMMA FamilyEmpty ==
    ASSUME NEW r \in Roots,
           \A j \in JobIds : j[1] = r /\ IsPartition(j) => jobs'[j].status = "ABSENT"
    PROVE  FamilyOK(r)'
<1>1. ChildRows(r)' = {}
  BY DEF ChildRows, Present, IsPartition
<1> QED
  BY <1>1 DEF FamilyOK

(* So is one of whose rows a claim or a reset moves one that is undecided.  *)
LEMMA FamilyMoved ==
    ASSUME TypeInv, NEW r \in Roots, FamilyOK(r), input' = input,
           NEW j \in JobIds,
           jobs[j].status \in {"PENDING", "RUNNING"}, jobs'[j].status \in {"PENDING", "RUNNING"},
           \A k \in JobIds \ {j} : jobs'[k] = jobs[k],
           ~IsPartition(j) => ChildRows(j[1]) = {}
    PROVE  FamilyOK(r)'
<1>1. CASE j[1] # r
  BY <1>1, FamilyKept
<1>2. CASE j[1] = r /\ ~IsPartition(j)
  <2>1. \A k \in JobIds : k[1] = r /\ IsPartition(k) => jobs[k].status = "ABSENT" /\ k # j
    BY <1>2 DEF ChildRows, Present
  <2> QED
    BY <2>1, FamilyEmpty
<1>3. CASE j[1] = r /\ IsPartition(j)
  <2>1. ChildRows(r)' = ChildRows(r) /\ j \in ChildRows(r)
    BY <1>3 DEF ChildRows, Present, IsPartition
  <2>2. PartitionIds(r)' = PartitionIds(r) /\ \A k : Outcome(k)' = Outcome(k)
    BY DEF PartitionIds, Partitions, Outcome, IsPartition
  <2>3. <<r, 0>> # j /\ <<r, 0>> \in JobIds /\ PartitionIds(r) \subseteq JobIds
    BY <1>3, FamilyFacts
  <2> QED
    BY <2>1, <2>2, <2>3 DEF FamilyOK, Complete
<1> QED
  BY <1>1, <1>2, <1>3

(* So is one that is fanned out.                                            *)
LEMMA FamilyFannedOut ==
    ASSUME FamilyInv, NEW a \in Agents, FanOut(a), NEW r \in Roots, r = job[a][1]
    PROVE  FamilyOK(r)'
<1>1. /\ jobs[<<r, 0>>].status = "RUNNING" /\ PartitionIds(r) # {} /\ input' = input
      /\ jobs' = [j \in JobIds |-> IF j \in PartitionIds(r) THEN NewRow(now) ELSE jobs[j]]
  BY FanOutShape
<1>2. /\ PartitionIds(r) \subseteq JobIds /\ <<r, 0>> \in JobIds
      /\ <<r, 0>> \notin PartitionIds(r) /\ ChildRows(r) \subseteq PartitionIds(r)
      /\ \A j \in PartitionIds(r) : j[1] = r /\ IsPartition(j)
  BY FamilyFacts DEF FamilyInv
<1>3. /\ jobs'[<<r, 0>>] = jobs[<<r, 0>>]
      /\ \A j \in PartitionIds(r) : jobs'[j].status = "PENDING"
  BY <1>1, <1>2 DEF NewRow
<1>4. PartitionIds(r)' = PartitionIds(r)
  BY <1>1 DEF PartitionIds, Partitions
<1>5. ChildRows(r)' = PartitionIds(r)
  <2>1. ChildRows(r)' \subseteq PartitionIds(r)
    BY <1>1, <1>2 DEF ChildRows, Present, IsPartition
  <2>2. PartitionIds(r) \subseteq ChildRows(r)'
    BY <1>2, <1>3 DEF ChildRows, Present, IsPartition
  <2> QED
    BY <2>1, <2>2
<1> QED
  BY <1>1, <1>3, <1>4, <1>5 DEF FamilyOK, Complete

(* What a step may do to a family: nothing; take all its partitions; move   *)
(* one undecided row of it; fan it out; save one of its partitions.         *)
Untouched(r) == input'[r] = input[r] /\ \A j \in JobIds : j[1] = r => jobs'[j] = jobs[j]
Childless(r) == \A j \in JobIds : j[1] = r /\ IsPartition(j) => jobs'[j].status = "ABSENT"
Moved(r) ==
    /\ input' = input
    /\ \E j \in JobIds :
          /\ jobs[j].status \in {"PENDING", "RUNNING"} /\ jobs'[j].status \in {"PENDING", "RUNNING"}
          /\ \A k \in JobIds \ {j} : jobs'[k] = jobs[k]
          /\ ~IsPartition(j) => ChildRows(j[1]) = {}
FanOutOf(r)  == \E a \in Agents : FanOut(a) /\ r = job[a][1]
SaveIn(r)    == \E a \in Agents : /\ SavePartitionResult(a) \/ SavePartitionReplyLost(a)
                                 /\ job[a] \in JobIds /\ r = job[a][1]

LEMMA FamilyCases ==
    ASSUME FamilyInv, [Next]_vars, NEW r \in Roots
    PROVE  Untouched(r) \/ Childless(r) \/ Moved(r) \/ FanOutOf(r) \/ SaveIn(r)
<1> DEFINE Goal == Untouched(r) \/ Childless(r) \/ Moved(r) \/ FanOutOf(r) \/ SaveIn(r)
<1>1. TypeInv /\ jobs \in [JobIds -> Row] /\ FamilyOK(r)
  BY DEF FamilyInv, TypeInv, TypeOK
<1>2. ASSUME NEW r0 \in Roots, NEW q \in Requests, CreateJob(r0, q) \/ CreateFailingJob(r0, q)
      PROVE  Goal
  <2>1. /\ input[r0] = NoRequest /\ input' = [input EXCEPT ![r0] = q]
        /\ jobs' = [jobs EXCEPT ![<<r0, 0>>] = NewRow(now)]
    BY <1>2 DEF CreateJob, CreateFailingJob, InsertJob
  <2>2. CASE r = r0
    <3>1. \A j \in JobIds : j[1] = r0 => jobs[j].status = "ABSENT"
      BY <2>1 DEF FamilyInv, TypeInv, RowsPosted, Posted, Present
    <3> QED
      BY <1>1, <2>1, <2>2, <3>1 DEF Childless, IsPartition
  <2>3. CASE r # r0
    BY <1>1, <2>1, <2>3 DEF TypeInv, TypeOK, Untouched
  <2> QED
    BY <2>2, <2>3
<1>3. ASSUME ClearJobs \/ ClearJobsFails
      PROVE  Goal
  <2>1. /\ input' = input
        /\ \/ jobs' = jobs
           \/ jobs' = [j \in JobIds |-> IF j[1] \in doomed THEN NoRow ELSE jobs[j]]
    BY <1>3 DEF ClearJobs, ClearJobsFails, StartDelete, FinishDelete
  <2> QED
    BY <1>1, <2>1 DEF Untouched, Childless, NoRow
<1>4. ASSUME NEW a \in Agents, NEW j \in JobIds, Claim(j), Take(a, j)
      PROVE  Goal
  <2>1. /\ jobs[j].status = "PENDING" /\ input' = input
        /\ jobs' = [jobs EXCEPT ![j] = [@ EXCEPT !.status = "RUNNING", !.error = "none"]]
    BY <1>4 DEF Claim
  <2>2. jobs'[j].status = "RUNNING" /\ \A k \in JobIds \ {j} : jobs'[k] = jobs[k]
    BY <1>1, <2>1 DEF Row
  <2>3. ~IsPartition(j) => ChildRows(j[1]) = {}
    BY <1>1, <2>1, ParentFacts, JobIdFacts DEF FamilyInv, FamilyOK
  <2> QED
    BY <2>1, <2>2, <2>3 DEF Moved
<1>5. ASSUME NEW a \in Agents, SaveJobResult(a)
      PROVE  Goal
  <2>1. /\ job[a] \in JobIds /\ ~IsPartition(job[a]) /\ ~IsCoordinator(job[a])
    BY <1>5 DEF SaveJobResult, Running, FamilyInv, TypeInv, TypeOK
  <2>2. /\ input' = input
        /\ \A j \in JobIds : jobs'[j].status # "ABSENT" <=> jobs[j].status # "ABSENT"
        /\ \A j \in JobIds : j[1] # job[a][1] => jobs'[j] = jobs[j]
    BY <1>1, <1>5, SaveShape
  <2>3. CASE r = job[a][1]
    <3>1. PartitionIds(r) = {}
      BY <2>1, <2>3 DEF IsCoordinator, PartitionIds
    <3> QED
      BY <1>1, <2>2, <3>1, FamilyFacts DEF Childless
  <2>4. CASE r # job[a][1]
    BY <2>2, <2>4 DEF Untouched
  <2> QED
    BY <2>3, <2>4
<1>6. ASSUME NEW a \in Agents, SavePartitionResult(a) \/ SavePartitionReplyLost(a)
      PROVE  Goal
  <2>1. job[a] \in JobIds /\ job[a][1] \in Roots
    BY <1>6, JobIdFacts
    DEF SavePartitionResult, SavePartitionReplyLost, Running, FamilyInv, TypeInv, TypeOK
  <2>2. input' = input /\ \A j \in JobIds : j[1] # job[a][1] => jobs'[j] = jobs[j]
    BY <1>1, <1>6, SaveShape
  <2> QED
    BY <1>6, <2>1, <2>2 DEF SaveIn, Untouched
<1>7. ASSUME NEW a \in Agents,
             \/ RejectPartitionResult(a) \/ FanOutRejected(a)
             \/ Abandon(a) \/ SavePartitionFails(a)
      PROVE  Goal
  BY <1>7 DEF RejectPartitionResult, FanOutRejected, Abandon, SavePartitionFails, tableVars,
              Untouched
<1>8. ASSUME NEW a \in Agents, ResetPartition(a)
      PROVE  Goal
  <2>1. job[a] \in JobIds /\ IsPartition(job[a]) /\ input' = input
    BY <1>8 DEF ResetPartition, ResetRunningJobToPending, FamilyInv, ParentsFree,
                OnlyPartitionsReset, TypeInv, TypeOK
  <2>2. CASE jobs' = jobs
    BY <2>1, <2>2 DEF Untouched
  <2>3. CASE jobs' # jobs
    <3>1. /\ jobs[job[a]].status = "RUNNING"
          /\ jobs' = [jobs EXCEPT ![job[a]] = [@ EXCEPT !.status = "PENDING",
                                                        !.error = "save_failed"]]
      BY <1>8, <2>3 DEF ResetPartition, ResetRunningJobToPending
    <3>2. jobs'[job[a]].status = "PENDING" /\ \A k \in JobIds \ {job[a]} : jobs'[k] = jobs[k]
      BY <1>1, <2>1, <3>1, ResetWrites
    <3> QED
      BY <2>1, <3>1, <3>2 DEF Moved
  <2> QED
    BY <2>2, <2>3
<1>9. ASSUME NEW a \in Agents, FanOut(a)
      PROVE  Goal
  <2>1. CASE r = job[a][1]
    BY <1>9, <2>1 DEF FanOutOf
  <2>2. CASE r # job[a][1]
    <3> DEFINE root == job[a][1]
    <3>1. /\ root \in Roots /\ input' = input
          /\ jobs' = [j \in JobIds |-> IF j \in PartitionIds(root) THEN NewRow(now) ELSE jobs[j]]
      BY <1>1, <1>9, FanOutShape
    <3>2. \A j \in JobIds : j \notin PartitionIds(root) => jobs'[j] = jobs[j]
      BY <3>1
    <3> QED
      BY <1>1, <2>2, <3>1, <3>2, FamilyFacts DEF Untouched
  <2> QED
    BY <2>1, <2>2
<1>10. ASSUME UNCHANGED vars
       PROVE  Goal
  BY <1>10 DEF vars, tableVars, Untouched
<1> HIDE DEF Goal
<1>11. ASSUME NEW w \in Workers, NEW j \in JobIds, Receive(w, j)
       PROVE  Goal
  BY <1>4, <1>11 DEF Receive, ClaimNextPendingJob, Agents
<1>12. ASSUME NEW c \in Runners, NEW j \in JobIds, RunById(c, j)
       PROVE  Goal
  BY <1>4, <1>12 DEF RunById, ClaimJobById, Agents
<1>13. ASSUME NEW a \in Agents, Step(a) \/ AgentFault(a)
       PROVE  Goal
  BY <1>5, <1>6, <1>7, <1>8, <1>9, <1>13 DEF Step, AgentFault
<1>14. Goal
  BY <1>2, <1>3, <1>10, <1>11, <1>12, <1>13 DEF Next
<1> QED
  BY <1>14 DEF Goal

(* Every step keeps parents free.                                           *)
LEMMA FreeStep ==
    ASSUME FamilyInv, [Next]_vars
    PROVE  ParentsFree'
<1>1. ASSUME NEW w \in Workers, NEW j \in JobIds, Receive(w, j)
      PROVE  ParentsFree'
  BY <1>1, FreeClaim DEF Receive, ClaimNextPendingJob, Agents
<1>2. ASSUME NEW c \in Runners, NEW j \in JobIds, RunById(c, j)
      PROVE  ParentsFree'
  BY <1>2, FreeClaim DEF RunById, ClaimJobById, Agents
<1>3. ASSUME NEW a \in Agents, Step(a) \/ AgentFault(a)
      PROVE  ParentsFree'
  BY <1>3, FreeSave, FreeLeave, FreeFanOut DEF Step, AgentFault
<1>4. CASE UNCHANGED vars
  BY <1>4 DEF vars, tableVars, agentVars, FamilyInv, ParentsFree, RootsHeld, ParentsFannedOut,
              OnlyPartitionsReset, IsPartition, Parent
<1> QED
  BY <1>1, <1>2, <1>3, <1>4, FreePost, FreeClear DEF Next

(* Every step keeps every family as it should be.                           *)
LEMMA FamilyStep == FamilyInv /\ [Next]_vars => FamilyInv'
<1> SUFFICES ASSUME FamilyInv, [Next]_vars
             PROVE  FamilyInv'
  OBVIOUS
<1>1. TypeInv /\ TypeInv' /\ ParentsFree'
  BY TypeStep, FreeStep DEF FamilyInv
<1>2. ASSUME NEW r \in Roots PROVE FamilyOK(r)'
  <2>1. FamilyOK(r)
    BY DEF FamilyInv
  <2>2. CASE Untouched(r)
    BY <1>1, <2>1, <2>2, FamilyKept DEF Untouched
  <2>3. CASE Childless(r)
    BY <2>3, FamilyEmpty DEF Childless
  <2>4. CASE Moved(r)
    BY <1>1, <2>1, <2>4, FamilyMoved DEF Moved
  <2>5. CASE FanOutOf(r)
    BY <2>5, FamilyFannedOut DEF FanOutOf
  <2>6. CASE SaveIn(r)
    BY <2>6, FamilySaved DEF SaveIn
  <2> QED
    BY <2>2, <2>3, <2>4, <2>5, <2>6, FamilyCases
<1> QED
  BY <1>1, <1>2 DEF FamilyInv

LEMMA FamilyInit == Init => FamilyInv
<1> SUFFICES ASSUME Init PROVE FamilyInv
  OBVIOUS
<1>1. ParentsFree
  BY DEF Init, InitTable, NoRow, ParentsFree, RootsHeld, ParentsFannedOut, OnlyPartitionsReset
<1>2. \A r \in Roots : ChildRows(r) = {}
  BY DEF Init, InitTable, NoRow, ChildRows, Present
<1> QED
  BY <1>1, <1>2, TypeInit DEF FamilyInv, FamilyOK

LEMMA FamilyAlways == Spec => []FamilyInv
  BY FamilyInit, FamilyStep, PTL DEF Spec

(* An integration is COMPLETED exactly when all its partitions are, with    *)
(* finite statistics, whatever fails, commits unheard or is run twice.      *)
THEOREM CompletionIsAlwaysExact == Spec => []CompletionIsExact
<1>1. FamilyInv => CompletionIsExact
  BY DEF FamilyInv, FamilyOK, Complete, CompletionIsExact
<1> QED
  BY <1>1, FamilyAlways, PTL

-----------------------------------------------------------------------------
(* Failures.  A partition that gave up is RUNNING when it is saved, so that *)
(* its save is the one that finds whether its parent is still RUNNING; the  *)
(* claim that makes it so is exclusive only if no reply is lost.            *)

GaveUp(j) == jobs[j].status = "FAILED" /\ jobs[j].error = "attempt"

FailedForCause(r) ==
    ChildRows(r) # {} =>
        ((jobs[<<r, 0>>].status = "FAILED") <=> (\E j \in ChildRows(r) : GaveUp(j)))

(* A family that keeps its rows and those of them that gave up.             *)
LEMMA FailedKept ==
    ASSUME NEW r \in Roots, FailedForCause(r),
           \A j \in JobIds : j[1] = r =>
              /\ jobs'[j].status = "ABSENT" <=> jobs[j].status = "ABSENT"
              /\ IsPartition(j) => (GaveUp(j)' <=> GaveUp(j)),
           (jobs'[<<r, 0>>].status = "FAILED") <=> (jobs[<<r, 0>>].status = "FAILED")
    PROVE  FailedForCause(r)'
<1>1. ChildRows(r)' = ChildRows(r)
  BY DEF ChildRows, Present, IsPartition
<1>2. \A j \in ChildRows(r) : GaveUp(j)' <=> GaveUp(j)
  BY DEF ChildRows
<1> QED
  BY <1>1, <1>2 DEF FailedForCause

LEMMA FailedSaved ==
    ASSUME ClaimInv, FamilyInv, NEW a \in Agents,
           SavePartitionResult(a) \/ SavePartitionReplyLost(a),
           NEW c \in JobIds, c = job[a], NEW r \in Roots, r = c[1], FailedForCause(r)
    PROVE  FailedForCause(r)'
<1> DEFINE u == Update(a)
<1>1. /\ TypeInv /\ pc[a] # "idle" /\ IsPartition(c)
      /\ UpdateIntegrationPartitionResult(u)
  BY DEF SavePartitionResult, SavePartitionReplyLost, Running, FamilyInv
<1>2. /\ jobs[c].status # "ABSENT" /\ jobs'[c] = Written(u)
      /\ Recorded(a) \/ GivenUp(a) \/ OneOfMany(a) \/ LastOfAll(a)
  BY <1>1, PartitionSaved
<1>3. /\ Parent(c) = <<r, 0>> /\ <<r, 0>> \in JobIds /\ <<r, 0>> # c /\ c \in ChildRows(r)
      /\ ~IsPartition(<<r, 0>>)
      /\ \A j \in JobIds : j[1] = r /\ j # <<r, 0>> => IsPartition(j)
  BY <1>1, <1>2, JobIdFacts, ParentFacts, FamilyFacts DEF Parent
<1>4. jobs[c].status = "RUNNING"
  BY <1>1, <1>2 DEF ClaimInv, Held, Current
<1>5. /\ jobs[<<r, 0>>].status \in {"RUNNING", "COMPLETED", "FAILED"}
      /\ jobs[<<r, 0>>].status # "COMPLETED"
  BY <1>3, <1>4 DEF FamilyInv, FamilyOK, Complete
<1>6. \A j \in JobIds : jobs'[j].status = "ABSENT" <=> jobs[j].status = "ABSENT"
  BY <1>1, SaveShape
<1>7. /\ Written(u).status = u.status /\ Written(u).error = u.error
      /\ \/ u.status = "COMPLETED"
         \/ u.status = "PENDING"
         \/ u.status = "FAILED" /\ u.error = "attempt"
  BY <1>1, UpdateTells
<1>8. ChildRows(r)' = ChildRows(r)
  BY <1>6 DEF ChildRows, Present, IsPartition
<1> HIDE DEF u
(* It gave up and its parent is failed, or neither.                         *)
<1>9. ASSUME u.status = "FAILED", jobs'[<<r, 0>>].status = "FAILED"
      PROVE  FailedForCause(r)'
  BY <1>2, <1>3, <1>7, <1>8, <1>9 DEF FailedForCause, GaveUp
<1>10. ASSUME u.status # "FAILED",
              jobs'[<<r, 0>>].status = "FAILED" <=> jobs[<<r, 0>>].status = "FAILED",
              \A j \in JobIds \ {c, <<r, 0>>} : jobs'[j] = jobs[j]
       PROVE  FailedForCause(r)'
  <2>1. ~GaveUp(c) /\ ~GaveUp(c)'
    BY <1>2, <1>4, <1>7, <1>10 DEF GaveUp
  <2> QED
    BY <1>3, <1>6, <1>10, <2>1, FailedKept DEF GaveUp
<1>11. CASE Recorded(a)
  <2>1. /\ u.status = "PENDING" \/ jobs[<<r, 0>>].status # "RUNNING"
        /\ \A j \in JobIds \ {c} : jobs'[j] = jobs[j]
    BY <1>3, <1>11 DEF Recorded, u
  <2>2. CASE u.status = "FAILED"
    BY <1>3, <1>5, <1>9, <2>1, <2>2
  <2>3. CASE u.status # "FAILED"
    BY <1>3, <1>10, <2>1, <2>3
  <2> QED
    BY <2>2, <2>3
<1>12. CASE GivenUp(a)
  BY <1>3, <1>9, <1>12 DEF GivenUp, FailedWith, u
<1>13. CASE OneOfMany(a)
  BY <1>3, <1>10, <1>13 DEF OneOfMany, u
<1>14. CASE LastOfAll(a)
  BY <1>3, <1>10, <1>14 DEF LastOfAll, u
<1> QED
  BY <1>2, <1>11, <1>12, <1>13, <1>14

LEMMA FailureStep ==
    ASSUME ClaimInv, FamilyInv, [Next]_vars, NEW r \in Roots, FailedForCause(r)
    PROVE  FailedForCause(r)'
<1>1. TypeInv /\ <<r, 0>> \in JobIds /\ <<r, 0>>[1] = r /\ ~IsPartition(<<r, 0>>)
  BY FamilyFacts DEF FamilyInv
<1>2. CASE Untouched(r)
  BY <1>1, <1>2, FailedKept DEF Untouched, GaveUp
<1>3. CASE Childless(r)
  <2>1. ChildRows(r)' = {}
    BY <1>3 DEF Childless, ChildRows, Present, IsPartition
  <2> QED
    BY <2>1 DEF FailedForCause
<1>4. CASE Moved(r)
  <2>1. PICK j \in JobIds :
           /\ jobs[j].status \in {"PENDING", "RUNNING"}
           /\ jobs'[j].status \in {"PENDING", "RUNNING"}
           /\ \A k \in JobIds \ {j} : jobs'[k] = jobs[k]
    BY <1>4 DEF Moved
  <2>2. \A k \in JobIds : /\ jobs'[k].status = "ABSENT" <=> jobs[k].status = "ABSENT"
                          /\ jobs'[k].status = "FAILED" <=> jobs[k].status = "FAILED"
                          /\ GaveUp(k)' <=> GaveUp(k)
    BY <2>1 DEF GaveUp
  <2> QED
    BY <1>1, <2>2, FailedKept
<1>5. CASE FanOutOf(r)
  <2>1. /\ jobs[<<r, 0>>].status = "RUNNING" /\ ChildRows(r) = {}
        /\ jobs' = [j \in JobIds |-> IF j \in PartitionIds(r) THEN NewRow(now) ELSE jobs[j]]
    BY <1>5, FanOutShape DEF FanOutOf
  <2>2. jobs'[<<r, 0>>].status = "RUNNING"
    BY <1>1, <2>1, FamilyFacts
  <2>3. \A j \in ChildRows(r)' : jobs'[j].status = "PENDING"
    BY <2>1 DEF ChildRows, Present, IsPartition, NewRow
  <2> QED
    BY <2>2, <2>3 DEF FailedForCause, GaveUp
<1>6. CASE SaveIn(r)
  BY <1>6, FailedSaved DEF SaveIn
<1> QED
  BY <1>2, <1>3, <1>4, <1>5, <1>6, FamilyCases

(* An integration is FAILED exactly when one of its partitions failed by    *)
(* its own attempts: the cancelling that a reset may race with never fails  *)
(* more than it should.                                                     *)
THEOREM FailureIsAlwaysExact == ASSUME NoLostReply PROVE Spec => []FailureIsExact
<1> DEFINE Inv == ClaimInv /\ FamilyInv /\ \A r \in Roots : FailedForCause(r)
<1>1. Init => Inv
  <2>1. Init => \A r \in Roots : ChildRows(r) = {}
    BY DEF Init, InitTable, NoRow, ChildRows, Present
  <2> QED
    BY <2>1, TypeInit, HeldInit, FamilyInit DEF ClaimInv, FailedForCause
<1>2. Inv /\ [Next]_vars => Inv'
  BY ClaimStep, FamilyStep, FailureStep
<1>3. Inv => FailureIsExact
  BY DEF FailedForCause, GaveUp, FailureIsExact
<1> QED
  BY <1>1, <1>2, <1>3, PTL DEF Spec

-----------------------------------------------------------------------------
(* Work to do.  While an integration is RUNNING none of its partitions is   *)
(* FAILED and one is not COMPLETED.  No claim need be exclusive for it: a   *)
(* save that sees a RUNNING parent leaves a partition to run or decides the *)
(* parent, whoever makes it and however often.                              *)

WorkLeft(r) ==
    ChildRows(r) # {} /\ jobs[<<r, 0>>].status = "RUNNING" =>
        /\ \E j \in ChildRows(r) : jobs[j].status # "COMPLETED"
        /\ \A j \in ChildRows(r) : jobs[j].status # "FAILED"

LEMMA WorkSaved ==
    ASSUME FamilyInv, NEW a \in Agents,
           SavePartitionResult(a) \/ SavePartitionReplyLost(a),
           NEW c \in JobIds, c = job[a], NEW r \in Roots, r = c[1], WorkLeft(r)
    PROVE  WorkLeft(r)'
<1> DEFINE u == Update(a)
<1>1. /\ TypeInv /\ pc[a] # "idle" /\ IsPartition(c)
      /\ UpdateIntegrationPartitionResult(u)
  BY DEF SavePartitionResult, SavePartitionReplyLost, Running, FamilyInv
<1>2. /\ jobs[c].status # "ABSENT" /\ jobs'[c] = Written(u)
      /\ Recorded(a) \/ GivenUp(a) \/ OneOfMany(a) \/ LastOfAll(a)
  BY <1>1, PartitionSaved
<1>3. /\ Parent(c) = <<r, 0>> /\ <<r, 0>> \in JobIds /\ <<r, 0>> # c /\ c \in ChildRows(r)
      /\ ChildRows(r) \subseteq JobIds
  BY <1>1, <1>2, JobIdFacts, ParentFacts, FamilyFacts DEF Parent, ChildRows
<1>4. ChildRows(r)' = ChildRows(r)
  <2>1. \A j \in JobIds : jobs'[j].status = "ABSENT" <=> jobs[j].status = "ABSENT"
    BY <1>1, SaveShape
  <2> QED
    BY <2>1 DEF ChildRows, Present, IsPartition
<1>5. jobs'[c].status = u.status
  BY <1>1, <1>2, UpdateTells
<1> HIDE DEF u
<1>6. CASE Recorded(a)
  <2>1. /\ u.status = "PENDING" \/ jobs[<<r, 0>>].status # "RUNNING"
        /\ \A j \in JobIds \ {c} : jobs'[j] = jobs[j]
    BY <1>3, <1>6 DEF Recorded, u
  <2>2. jobs'[<<r, 0>>] = jobs[<<r, 0>>]
    BY <1>3, <2>1
  <2> QED
    BY <1>3, <1>4, <1>5, <2>1, <2>2 DEF WorkLeft
<1>7. CASE GivenUp(a)
  <2>1. jobs'[<<r, 0>>].status = "FAILED"
    BY <1>3, <1>7 DEF GivenUp, FailedWith
  <2> QED
    BY <2>1 DEF WorkLeft
<1>8. CASE OneOfMany(a)
  <2>1. PICK k \in ChildRows(r) : k # c /\ jobs[k].status # "COMPLETED"
    BY <1>8 DEF OneOfMany
  <2>2. /\ u.status = "COMPLETED" /\ jobs[<<r, 0>>].status = "RUNNING"
        /\ \A j \in JobIds \ {c} : jobs'[j] = jobs[j]
    BY <1>3, <1>8 DEF OneOfMany, u
  <2>3. \A j \in ChildRows(r) : jobs'[j].status # "FAILED"
    BY <1>3, <1>5, <2>2 DEF WorkLeft
  <2>4. k \in ChildRows(r) /\ jobs'[k].status # "COMPLETED"
    BY <1>3, <2>1, <2>2
  <2> QED
    BY <1>4, <2>3, <2>4 DEF WorkLeft
<1>9. CASE LastOfAll(a)
  <2>1. jobs'[<<r, 0>>].status = "COMPLETED"
    BY <1>3, <1>9 DEF LastOfAll
  <2> QED
    BY <2>1 DEF WorkLeft
<1> QED
  BY <1>2, <1>6, <1>7, <1>8, <1>9

LEMMA WorkStep ==
    ASSUME FamilyInv, [Next]_vars, NEW r \in Roots, WorkLeft(r)
    PROVE  WorkLeft(r)'
<1>1. /\ TypeInv /\ <<r, 0>> \in JobIds /\ <<r, 0>>[1] = r /\ ~IsPartition(<<r, 0>>)
      /\ ChildRows(r) \subseteq JobIds
  BY FamilyFacts DEF FamilyInv, ChildRows
<1>2. CASE Untouched(r)
  <2>1. \A j \in JobIds : j[1] = r => jobs'[j] = jobs[j]
    BY <1>2 DEF Untouched
  <2>2. ChildRows(r)' = ChildRows(r) /\ \A j \in ChildRows(r) : jobs'[j] = jobs[j]
    BY <2>1 DEF ChildRows, Present, IsPartition
  <2>3. jobs'[<<r, 0>>] = jobs[<<r, 0>>]
    BY <1>1, <2>1
  <2> QED
    BY <2>2, <2>3 DEF WorkLeft
<1>3. CASE Childless(r)
  <2>1. ChildRows(r)' = {}
    BY <1>3 DEF Childless, ChildRows, Present, IsPartition
  <2> QED
    BY <2>1 DEF WorkLeft
<1>4. CASE Moved(r)
  <2>1. PICK j \in JobIds :
           /\ jobs[j].status \in {"PENDING", "RUNNING"}
           /\ jobs'[j].status \in {"PENDING", "RUNNING"}
           /\ \A k \in JobIds \ {j} : jobs'[k] = jobs[k]
           /\ ~IsPartition(j) => ChildRows(j[1]) = {}
    BY <1>4 DEF Moved
  <2>2. /\ ChildRows(r)' = ChildRows(r)
        /\ \A k \in JobIds : /\ jobs'[k].status = "COMPLETED" <=> jobs[k].status = "COMPLETED"
                             /\ jobs'[k].status = "FAILED" <=> jobs[k].status = "FAILED"
    BY <2>1 DEF ChildRows, Present, IsPartition
  <2>3. CASE j = <<r, 0>>
    <3>1. ChildRows(r)' = {}
      BY <1>1, <2>1, <2>2, <2>3
    <3> QED
      BY <3>1 DEF WorkLeft
  <2>4. CASE j # <<r, 0>>
    BY <1>1, <2>1, <2>2, <2>4 DEF WorkLeft
  <2> QED
    BY <2>3, <2>4
<1>5. CASE FanOutOf(r)
  <2>1. /\ PartitionIds(r) # {} /\ PartitionIds(r) \subseteq JobIds
        /\ \A j \in PartitionIds(r) : j[1] = r /\ IsPartition(j)
        /\ ChildRows(r) = {}
        /\ jobs' = [j \in JobIds |-> IF j \in PartitionIds(r) THEN NewRow(now) ELSE jobs[j]]
    BY <1>1, <1>5, FanOutShape, FamilyFacts DEF FanOutOf
  <2>2. \A j \in PartitionIds(r) : jobs'[j].status = "PENDING"
    BY <2>1 DEF NewRow
  <2>3. ChildRows(r)' = PartitionIds(r)
    BY <2>1, <2>2 DEF ChildRows, Present, IsPartition
  <2> QED
    BY <2>1, <2>2, <2>3 DEF WorkLeft
<1>6. CASE SaveIn(r)
  BY <1>6, WorkSaved DEF SaveIn
<1> QED
  BY <1>2, <1>3, <1>4, <1>5, <1>6, FamilyCases

WorkInv == FamilyInv /\ \A r \in Roots : WorkLeft(r)

LEMMA WorkAlways == Spec => []WorkInv
<1>1. Init => WorkInv
  <2>1. Init => \A r \in Roots : ChildRows(r) = {}
    BY DEF Init, InitTable, NoRow, ChildRows, Present
  <2> QED
    BY <2>1, FamilyInit DEF WorkInv, WorkLeft
<1>2. WorkInv /\ [Next]_vars => WorkInv'
  BY FamilyStep, WorkStep DEF WorkInv
<1> QED
  BY <1>1, <1>2, PTL DEF Spec

(* An integration that is fanned out and RUNNING has a partition yet to be  *)
(* run, whatever fails, is retried, rejected, lost or run twice.            *)
THEOREM RunningIntegrationAlwaysHasWork == Spec => []RunningIntegrationHasWork
<1>1. WorkInv => RunningIntegrationHasWork
  <2> SUFFICES ASSUME WorkInv, NEW r \in Roots,
                      jobs[<<r, 0>>].status = "RUNNING", ChildRows(r) # {}
               PROVE  \E j \in ChildRows(r) : jobs[j].status \in {"PENDING", "RUNNING"}
    BY DEF RunningIntegrationHasWork
  <2>1. PICK j \in ChildRows(r) : jobs[j].status # "COMPLETED"
    BY DEF WorkInv, WorkLeft
  <2>2. jobs[j].status \notin {"ABSENT", "FAILED"} /\ jobs[j] \in Row
    BY DEF WorkInv, WorkLeft, ChildRows, Present, FamilyInv, TypeInv, TypeOK
  <2>3. jobs[j].status \in {"PENDING", "RUNNING"}
    BY <2>1, <2>2 DEF Row, Statuses
  <2> QED
    BY <2>3
<1> QED
  BY <1>1, WorkAlways, PTL

-----------------------------------------------------------------------------
(* Orphans: RUNNING rows that nobody holds and no partition will decide.    *)

HeldBySome(j) == \E a \in Agents : pc[a] # "idle" /\ job[a] = j
Abandoned(j)  == jobs[j].status = "RUNNING" /\ ~FannedOut(j) /\ ~HeldBySome(j)

(* A step makes no orphans but those of `lost' if every other RUNNING row   *)
(* it leaves was one, or is held, or is a parent that was fanned out.       *)
LEMMA OrphansKept ==
    ASSUME NEW lost,
           \A j \in JobIds : j \notin lost =>
              \/ jobs'[j].status # "RUNNING"
              \/ HeldBySome(j)' \/ FannedOut(j)' \/ Abandoned(j)
    PROVE  Orphans' \subseteq Orphans \cup lost
  BY DEF Orphans, HeldBySome, FannedOut, Abandoned, Busy, IsPartition

(* Whether a parent is fanned out depends on which rows are there.          *)
LEMMA FannedOutKept ==
    ASSUME NEW j \in JobIds,
           \A k \in JobIds : k[1] = j[1] =>
              (jobs[k].status # "ABSENT" => jobs'[k].status # "ABSENT")
    PROVE  FannedOut(j) => FannedOut(j)'
<1>1. ChildRows(j[1]) \subseteq ChildRows(j[1])'
  BY DEF ChildRows, Present, IsPartition
<1> QED
  BY <1>1 DEF FannedOut, IsPartition

(* An agent that lets go of its job is the only one that does.              *)
LEMMA OthersHold ==
    ASSUME TypeInv, NEW a \in Agents, pc[a] # "idle", Release(a) \/ GoReset(a),
           NEW j, HeldBySome(j), j # job[a]
    PROVE  HeldBySome(j)'
<1>1. PICK b \in Agents : pc[b] # "idle" /\ job[b] = j
  BY DEF HeldBySome
<1>2. pc'[b] # "idle" /\ job'[b] = j
  BY <1>1 DEF TypeInv, TypeOK, Release, GoReset
<1> QED
  BY <1>2 DEF HeldBySome

(* No step but a fault lets go of a RUNNING row, unless it fanned it out.   *)
LEMMA OrphansOfClients ==
    ASSUME FamilyInv,
           \/ \E r \in Roots, q \in Requests : CreateJob(r, q) \/ CreateFailingJob(r, q)
           \/ ClearJobs \/ ClearJobsFails
    PROVE  Orphans' \subseteq Orphans
<1>1. jobs \in [JobIds -> Row]
  BY DEF FamilyInv, TypeInv, TypeOK
<1> DEFINE Kept == /\ pc' = pc /\ job' = job
                   /\ \A j \in JobIds : jobs'[j].status = "RUNNING" =>
                         /\ jobs[j].status = "RUNNING"
                         /\ \A k \in JobIds : k[1] = j[1] =>
                               (jobs[k].status # "ABSENT" => jobs'[k].status # "ABSENT")
<1>2. Kept
  <2>1. ASSUME NEW r \in Roots, NEW q \in Requests, CreateJob(r, q) \/ CreateFailingJob(r, q)
        PROVE  Kept
    BY <1>1, <2>1 DEF CreateJob, CreateFailingJob, InsertJob, agentVars, NewRow
  <2>2. CASE ClearJobs \/ ClearJobsFails
    BY <1>1, <2>2 DEF ClearJobs, ClearJobsFails, StartDelete, FinishDelete, agentVars, NoRow
  <2> QED
    BY <2>1, <2>2
<1>3. \A j \in JobIds : jobs'[j].status = "RUNNING" =>
         HeldBySome(j)' \/ FannedOut(j)' \/ Abandoned(j)
  BY <1>2, FannedOutKept DEF HeldBySome, Abandoned
<1> QED
  BY <1>3, OrphansKept

LEMMA OrphansOfClaims ==
    ASSUME FamilyInv, NEW a \in Agents, NEW k \in JobIds, Claim(k), Take(a, k)
    PROVE  Orphans' \subseteq Orphans
<1>1. /\ jobs \in [JobIds -> Row] /\ DOMAIN pc = Agents /\ DOMAIN job = Agents
      /\ jobs' = [jobs EXCEPT ![k] = [@ EXCEPT !.status = "RUNNING", !.error = "none"]]
      /\ pc[a] = "idle" /\ pc' = [pc EXCEPT ![a] = "running"] /\ job' = [job EXCEPT ![a] = k]
  BY DEF FamilyInv, TypeInv, TypeOK, Claim, Take
<1>2. HeldBySome(k)'
  BY <1>1 DEF HeldBySome
<1>3. \A j : HeldBySome(j) => HeldBySome(j)'
  BY <1>1 DEF HeldBySome
<1>4. \A j \in JobIds : j # k => jobs'[j] = jobs[j]
  BY <1>1
<1>5. \A j \in JobIds : jobs[j].status # "ABSENT" => jobs'[j].status # "ABSENT"
  BY <1>1 DEF Row
<1>6. \A j \in JobIds : jobs'[j].status = "RUNNING" =>
         HeldBySome(j)' \/ FannedOut(j)' \/ Abandoned(j)
  BY <1>2, <1>3, <1>4, <1>5, FannedOutKept DEF Abandoned
<1> QED
  BY <1>6, OrphansKept

LEMMA OrphansOfAgents ==
    ASSUME FamilyInv, NEW a \in Agents, Step(a) \/ AgentFault(a)
    PROVE  Orphans' \subseteq Orphans \cup (IF Abandon(a) THEN {job[a]} ELSE {})
<1> DEFINE lost == IF Abandon(a) THEN {job[a]} ELSE {}
<1>1. /\ jobs \in [JobIds -> Row] /\ TypeInv /\ job[a] \in JobIds
      /\ pc[a] # "idle" /\ (Release(a) \/ GoReset(a))
  BY TurnGoesOn DEF FamilyInv, TypeInv, TypeOK
<1>2. \A j \in JobIds : j # job[a] /\ HeldBySome(j) => HeldBySome(j)'
  BY <1>1, OthersHold
<1>3. GoReset(a) => HeldBySome(job[a])'
  <2>1. GoReset(a) => pc'[a] # "idle" /\ job'[a] = job[a]
    BY <1>1 DEF GoReset, TypeInv, TypeOK
  <2>2. ASSUME NEW j, pc'[a] # "idle" /\ job'[a] = j PROVE HeldBySome(j)'
    BY <2>2 DEF HeldBySome
  <2> QED
    BY <2>1, <2>2 DEF HeldBySome
(* It is enough that the other rows that are RUNNING were so, that none is  *)
(* removed, and that the one let go of is not RUNNING, or fanned out.       *)
<1>4. ASSUME \A j \in JobIds \ {job[a]} : jobs'[j].status = "RUNNING" => jobs[j].status = "RUNNING",
             \A j \in JobIds : jobs[j].status # "ABSENT" => jobs'[j].status # "ABSENT",
             \/ jobs'[job[a]].status # "RUNNING" \/ GoReset(a) \/ Abandon(a)
             \/ \E r \in Roots : job[a] = <<r, 0>> /\ ChildRows(r)' # {}
      PROVE  Orphans' \subseteq Orphans \cup lost
  <2>1. \A r \in Roots : job[a] = <<r, 0>> /\ ChildRows(r)' # {} =>
           \A j : j = <<r, 0>> => FannedOut(j)'
    BY DEF FannedOut, IsPartition
  <2>2. ASSUME NEW j \in JobIds, j \notin lost, jobs'[j].status = "RUNNING"
        PROVE  HeldBySome(j)' \/ FannedOut(j)' \/ Abandoned(j)
    <3>1. CASE j # job[a]
      BY <1>2, <1>4, <2>2, <3>1, FannedOutKept DEF Abandoned
    <3>2. CASE j = job[a]
      <4>1. CASE GoReset(a)
        <5>1. pc'[a] # "idle" /\ job'[a] = j
          BY <1>1, <3>2, <4>1 DEF GoReset, TypeInv, TypeOK
        <5> QED
          BY <5>1 DEF HeldBySome
      <4> QED
        BY <1>4, <2>1, <2>2, <3>2, <4>1
    <3> QED
      BY <3>1, <3>2
  <2> QED
    BY <2>2, OrphansKept
<1> HIDE DEF lost
<1>5. CASE SaveJobResult(a) \/ SavePartitionResult(a) \/ SavePartitionReplyLost(a)
  <2>1. \A j \in JobIds : jobs'[j].status # "ABSENT" <=> jobs[j].status # "ABSENT"
    BY <1>1, <1>5, SaveShape
  <2>2. Written(Update(a)).status # "RUNNING"
    BY <1>1, UpdateTells
  <2>3. /\ jobs'[job[a]].status # "RUNNING" \/ GoReset(a)
        /\ \A j \in JobIds \ {job[a]} :
              jobs'[j].status = "RUNNING" => jobs[j].status = "RUNNING"
    <3>1. CASE SaveJobResult(a)
      <4>1. Update(a).id = job[a]
        BY <1>1, UpdateFacts
      <4> HIDE DEF Update, Written
      <4> QED
        BY <1>1, <2>2, <3>1, <4>1 DEF SaveJobResult, UpdateJobResult, Present
    <3>2. CASE SavePartitionResult(a) \/ SavePartitionReplyLost(a)
      <4>1. IsPartition(job[a]) /\ UpdateIntegrationPartitionResult(Update(a))
        BY <3>2 DEF SavePartitionResult, SavePartitionReplyLost
      <4>2. /\ jobs'[job[a]] = Written(Update(a))
            /\ Recorded(a) \/ GivenUp(a) \/ OneOfMany(a) \/ LastOfAll(a)
        BY <1>1, <4>1, PartitionSaved
      <4>3. CASE Recorded(a) \/ OneOfMany(a)
        BY <2>2, <4>2, <4>3 DEF Recorded, OneOfMany
      <4>4. CASE GivenUp(a)
        BY <2>2, <4>2, <4>4 DEF GivenUp, FailedWith
      <4>5. CASE LastOfAll(a)
        BY <2>2, <4>2, <4>5 DEF LastOfAll
      <4> QED
        BY <4>2, <4>3, <4>4, <4>5
    <3> QED
      BY <1>5, <3>1, <3>2
  <2> QED
    BY <1>4, <2>1, <2>3 DEF lost
<1>6. CASE RejectPartitionResult(a) \/ SavePartitionFails(a) \/ Abandon(a)
  BY <1>4, <1>6 DEF RejectPartitionResult, SavePartitionFails, Abandon, tableVars, lost
<1>7. CASE FanOutRejected(a)
  <2>1. jobs' = jobs /\ jobs[job[a]].status = "ABSENT"
    BY <1>7 DEF FanOutRejected, tableVars, Present
  <2> QED
    BY <1>4, <2>1 DEF lost
<1>8. CASE ResetPartition(a)
  <2>1. \/ jobs' = jobs /\ jobs[job[a]].status # "RUNNING"
        \/ jobs' = [jobs EXCEPT ![job[a]] = [@ EXCEPT !.status = "PENDING",
                                                      !.error = "save_failed"]]
    BY <1>8 DEF ResetPartition, ResetRunningJobToPending
  <2>2. \/ jobs' = jobs /\ jobs[job[a]].status # "RUNNING"
        \/ /\ jobs'[job[a]].status = "PENDING"
           /\ \A j \in JobIds \ {job[a]} : jobs'[j] = jobs[j]
    BY <1>1, <2>1, ResetWrites
  <2> QED
    BY <1>4, <2>2 DEF lost
<1>9. CASE FanOut(a)
  <2> DEFINE r == job[a][1]
  <2>1. /\ r \in Roots /\ job[a] = <<r, 0>> /\ PartitionIds(r) # {}
        /\ jobs' = [j \in JobIds |-> IF j \in PartitionIds(r) THEN NewRow(now) ELSE jobs[j]]
    BY <1>9, FanOutShape
  <2> HIDE DEF r
  <2>2. /\ PartitionIds(r) \subseteq JobIds
        /\ \A j \in PartitionIds(r) : j[1] = r /\ IsPartition(j)
    BY <1>1, <2>1, FamilyFacts
  <2>3. ASSUME NEW s \in Roots, s = r PROVE ChildRows(s)' # {}
    <3>1. PICK j \in PartitionIds(s) : jobs'[j].status = "PENDING"
      BY <2>1, <2>2, <2>3 DEF NewRow
    <3>2. j \in ChildRows(s)'
      BY <2>2, <2>3, <3>1 DEF ChildRows, Present, IsPartition
    <3> QED
      BY <3>2
  <2>4. \E s \in Roots : job[a] = <<s, 0>> /\ ChildRows(s)' # {}
    BY <2>1, <2>3
  <2> QED
    BY <1>1, <1>4, <2>1, <2>2, <2>4 DEF NewRow, lost
<1> QED
  BY <1>5, <1>6, <1>7, <1>8, <1>9 DEF Step, AgentFault, lost

(* Counting them: a step that is not a fault adds none, a fault one.        *)
OrphanInv == FamilyInv /\ IsFiniteSet(Orphans) /\ Cardinality(Orphans) <= faults

LEMMA OrphanCount ==
    ASSUME IsFiniteSet(Orphans), NEW x, Orphans' \subseteq Orphans \cup {x}
    PROVE  IsFiniteSet(Orphans') /\ Cardinality(Orphans') <= Cardinality(Orphans) + 1
<1>1. /\ IsFiniteSet(Orphans \cup {x}) /\ Cardinality(Orphans \cup {x}) <= Cardinality(Orphans) + 1
      /\ Cardinality(Orphans \cup {x}) \in Nat /\ Cardinality(Orphans) \in Nat
  BY FS_AddElement, FS_CardinalityType
<1>2. IsFiniteSet(Orphans') /\ Cardinality(Orphans') <= Cardinality(Orphans \cup {x})
  BY <1>1, FS_Subset
<1> QED
  BY <1>1, <1>2, FS_CardinalityType

LEMMA OrphanStep == OrphanInv /\ [Next]_vars => OrphanInv'
<1> SUFFICES ASSUME OrphanInv, [Next]_vars
             PROVE  IsFiniteSet(Orphans') /\ Cardinality(Orphans') <= faults'
  BY FamilyStep DEF OrphanInv
<1>1. FamilyInv /\ faults \in Nat /\ IsFiniteSet(Orphans) /\ Cardinality(Orphans) <= faults
  BY DEF OrphanInv, FamilyInv, TypeInv, TypeOK
<1>2. Cardinality(Orphans) \in Nat
  BY <1>1, FS_CardinalityType
<1>3. ASSUME Orphans' \subseteq Orphans, faults' \in {faults, faults + 1}
      PROVE  IsFiniteSet(Orphans') /\ Cardinality(Orphans') <= faults'
  <2>1. IsFiniteSet(Orphans') /\ Cardinality(Orphans') <= Cardinality(Orphans)
    BY <1>1, <1>3, FS_Subset
  <2> QED
    BY <1>1, <1>2, <1>3, <2>1, FS_CardinalityType
<1>4. ASSUME NEW x, Orphans' \subseteq Orphans \cup {x}, faults' = faults + 1
      PROVE  IsFiniteSet(Orphans') /\ Cardinality(Orphans') <= faults'
  <2>1. IsFiniteSet(Orphans') /\ Cardinality(Orphans') <= Cardinality(Orphans) + 1
    BY <1>1, <1>4, OrphanCount
  <2> QED
    BY <1>1, <1>2, <1>4, <2>1, FS_CardinalityType
<1>5. ASSUME \/ \E r \in Roots, q \in Requests : CreateJob(r, q) \/ CreateFailingJob(r, q)
             \/ ClearJobs \/ ClearJobsFails
      PROVE  IsFiniteSet(Orphans') /\ Cardinality(Orphans') <= faults'
  BY <1>1, <1>3, <1>5, OrphansOfClients
  DEF CreateJob, CreateFailingJob, ClearJobs, ClearJobsFails, Fault, agentVars
<1>6. ASSUME NEW w \in Workers, NEW j \in JobIds, Receive(w, j)
      PROVE  IsFiniteSet(Orphans') /\ Cardinality(Orphans') <= faults'
  BY <1>1, <1>3, <1>6, OrphansOfClaims DEF Receive, ClaimNextPendingJob, Agents, Take
<1>7. ASSUME NEW c \in Runners, NEW j \in JobIds, RunById(c, j)
      PROVE  IsFiniteSet(Orphans') /\ Cardinality(Orphans') <= faults'
  BY <1>1, <1>3, <1>7, OrphansOfClaims DEF RunById, ClaimJobById, Agents, Take
<1>8. ASSUME NEW a \in Agents, Step(a) \/ AgentFault(a)
      PROVE  IsFiniteSet(Orphans') /\ Cardinality(Orphans') <= faults'
  <2>1. Orphans' \subseteq Orphans \cup (IF Abandon(a) THEN {job[a]} ELSE {})
    BY <1>1, <1>8, OrphansOfAgents
  <2>2. CASE Abandon(a)
    <3>1. faults' = faults + 1
      BY <2>2 DEF Abandon, Fault
    <3> QED
      BY <1>4, <2>1, <2>2, <3>1
  <2>3. CASE ~Abandon(a)
    <3>1. CASE Step(a)
      <4>1. faults' = faults
        BY <3>1 DEF Step, SaveJobResult, SavePartitionResult, RejectPartitionResult,
                    ResetPartition, FanOut, FanOutRejected
      <4> QED
        BY <1>3, <2>1, <2>3, <4>1
    <3>2. CASE AgentFault(a)
      <4>1. faults' = faults + 1
        BY <2>3, <3>2 DEF AgentFault, SavePartitionFails, SavePartitionReplyLost, Fault
      <4> QED
        BY <1>3, <2>1, <2>3, <4>1
    <3> QED
      BY <1>8, <3>1, <3>2
  <2> QED
    BY <2>2, <2>3
<1>9. ASSUME UNCHANGED vars
      PROVE  IsFiniteSet(Orphans') /\ Cardinality(Orphans') <= faults'
  <2>1. Orphans' = Orphans /\ faults' = faults
    BY <1>9 DEF vars, tableVars, agentVars, Orphans, FannedOut, ChildRows, Present, Busy,
                IsPartition
  <2> QED
    BY <1>1, <2>1
<1> QED
  BY <1>5, <1>6, <1>7, <1>8, <1>9 DEF Next

LEMMA OrphanAlways == Spec => []OrphanInv
<1>1. Init => OrphanInv
  <2> SUFFICES ASSUME Init PROVE OrphanInv
    OBVIOUS
  <2>1. Orphans = {}
    BY DEF Init, InitTable, NoRow, Orphans
  <2> QED
    BY <2>1, FamilyInit, FS_EmptySet DEF Init, OrphanInv
<1> QED
  BY <1>1, OrphanStep, PTL DEF Spec

(* Every path through the worker loop without a fault lets go of the row it *)
(* claimed, saved, reset or waiting for its partitions: a fault costs at    *)
(* most one row, of however many jobs and agents there are.                 *)
THEOREM OrphansAlwaysNeedFaults == Spec => []OrphansNeedFaults
  BY OrphanAlways, PTL DEF OrphanInv, OrphansNeedFaults

-----------------------------------------------------------------------------
(* Both together: where nothing failed, what is RUNNING is being worked on. *)

Attended(j) ==
    \/ HeldBySome(j)
    \/ \E k \in ChildRows(j[1]) : \/ jobs[k].status = "PENDING"
                                  \/ jobs[k].status = "RUNNING" /\ HeldBySome(k)

(* As long as no fault struck, every RUNNING job is held by an agent, or is *)
(* a parent with a partition that waits to be claimed or is held: no path   *)
(* through the service forgets a job that it left undecided.                *)
THEOREM RunningIsAttended ==
    Spec => [](faults = 0 =>
                  \A j \in JobIds : jobs[j].status = "RUNNING" => Attended(j))
<1>1. OrphanInv /\ faults = 0 => Orphans = {}
  <2> SUFFICES ASSUME OrphanInv, faults = 0 PROVE Orphans = {}
    OBVIOUS
  <2>1. IsFiniteSet(Orphans) /\ Cardinality(Orphans) <= 0 /\ Cardinality(Orphans) \in Nat
    BY FS_CardinalityType DEF OrphanInv
  <2> QED
    BY <2>1, FS_EmptySet
<1>2. ASSUME WorkInv, Orphans = {}, NEW j \in JobIds, jobs[j].status = "RUNNING"
      PROVE  Attended(j)
  <2>1. \A k \in JobIds : jobs[k].status = "RUNNING" => FannedOut(k) \/ HeldBySome(k)
    BY <1>2 DEF Orphans, HeldBySome, Busy
  <2>2. CASE HeldBySome(j)
    BY <2>2 DEF Attended
  <2>3. CASE FannedOut(j)
    <3>1. PICK r \in Roots : j = <<r, 0>> /\ j[1] = r /\ ChildRows(r) # {}
      BY <2>3, JobIdFacts, ParentFacts DEF FannedOut
    <3>2. PICK k \in ChildRows(r) : jobs[k].status \in {"PENDING", "RUNNING"}
      <4>1. PICK k \in ChildRows(r) : jobs[k].status # "COMPLETED"
        BY <1>2, <3>1 DEF WorkInv, WorkLeft
      <4>2. jobs[k].status \notin {"ABSENT", "FAILED"} /\ jobs[k] \in Row
        BY <1>2, <3>1 DEF WorkInv, WorkLeft, ChildRows, Present, FamilyInv, TypeInv, TypeOK
      <4>3. jobs[k].status \in {"PENDING", "RUNNING"}
        BY <4>1, <4>2 DEF Row, Statuses
      <4> QED
        BY <4>3
    <3>3. k \in JobIds /\ IsPartition(k)
      BY DEF ChildRows
    <3>4. jobs[k].status = "RUNNING" => HeldBySome(k)
      BY <2>1, <3>3 DEF FannedOut
    <3> QED
      BY <3>1, <3>2, <3>4 DEF Attended
  <2> QED
    BY <1>2, <2>1, <2>2, <2>3
<1>3. WorkInv /\ OrphanInv =>
         (faults = 0 => \A j \in JobIds : jobs[j].status = "RUNNING" => Attended(j))
  BY <1>1, <1>2
<1> QED
  BY <1>3, WorkAlways, OrphanAlways, PTL

=============================================================================
