------------------------ MODULE PostgresWorkers_proofs ------------------------
(***************************************************************************)
(* Proofs about PostgresWorkers, for any jobs, workers, budgets and        *)
(* faults: its types, and that claims are exclusive.                       *)
(***************************************************************************)
EXTENDS PostgresWorkers, TLAPS

-----------------------------------------------------------------------------
(* Type correctness.  A row and a claim are of a job that was posted, and a *)
(* partition of one that has as many: what run_job is given exists.         *)

Posted(j)    == /\ input[j[1]] # NoRequest
                /\ IsPartition(j) => j[2] \in Partitions(j[1])
RowsPosted   == \A j \in JobIds : Present(j) => Posted(j)
ClaimsPosted == \A a \in Agents : pc[a] # "idle" => Posted(job[a])

TypeInv == TypeOK /\ RowsPosted /\ ClaimsPosted

(* Job identifiers are pairs.                                               *)
LEMMA JobIdFacts ==
    ASSUME NEW j \in JobIds
    PROVE  /\ j[1] \in Roots /\ j[2] \in 0..MaxPartitions /\ j = <<j[1], j[2]>>
           /\ Parent(j) \in JobIds
  BY MaxPartitionsAssumption DEF JobIds, Parent

(* The rows that are inserted are rows.                                     *)
LEMMA RowFacts == NoRow \in Row /\ \A t \in Nat : NewRow(t) \in Row
  BY DEF NoRow, NewRow, Row, Statuses, Results, Errors

(* run_job gives a busy agent one of the outcomes.                          *)
LEMMA OutcomeFacts ==
    ASSUME TypeInv, NEW a \in Agents, pc[a] # "idle"
    PROVE  Outcome(job[a]) \in Outcomes
<1>1. job[a] \in JobIds /\ Posted(job[a])
  BY DEF TypeInv, TypeOK, ClaimsPosted
<1> DEFINE q == input[job[a][1]]
           n == IF IsPartition(job[a]) THEN job[a][2] ELSE 1
<1>2. q \in Requests
  BY <1>1, JobIdFacts DEF TypeInv, TypeOK, Posted
<1>3. q.outcomes \in Seq(Outcomes) /\ Len(q.outcomes) \in 1..MaxPartitions
  BY <1>2, RequestsAssumption
<1>4. n \in 1..Len(q.outcomes)
  BY <1>1, <1>3, JobIdFacts DEF Posted, Partitions, IsPartition
<1> QED
  BY <1>3, <1>4 DEF Outcome

(* What a save writes.                                                      *)
LEMMA UpdateFacts ==
    ASSUME TypeInv, NEW a \in Agents, pc[a] # "idle"
    PROVE  /\ Update(a).id = job[a] /\ job[a] \in JobIds
           /\ Update(a).status \in {"PENDING", "COMPLETED", "FAILED"}
           /\ Update(a).result \in Results
           /\ Update(a).error \in {"none", "attempt"}
           /\ Update(a).retry_count \in Nat
           /\ Written(Update(a)) \in Row
<1>1. job[a] \in JobIds /\ seen[a] \in Nat /\ jobs[job[a]] \in Row
  BY DEF TypeInv, TypeOK
<1>2. Outcome(job[a]) \in Outcomes
  BY OutcomeFacts
<1>3. /\ Update(a).id = job[a]
      /\ Update(a).status \in {"PENDING", "COMPLETED", "FAILED"}
      /\ Update(a).result \in Results
      /\ Update(a).error \in {"none", "attempt"}
      /\ Update(a).retry_count \in Nat
  BY <1>1, <1>2 DEF Update, Outcomes, Results
<1>4. Written(Update(a)) \in Row
  BY <1>1, <1>3 DEF Written, Row, Statuses, Errors
<1> QED
  BY <1>1, <1>3, <1>4

(* Nobody's posting is undone, and a table whose rows were there before or  *)
(* are of posted jobs has only rows of posted jobs.                         *)
LEMMA PostedKept ==
    ASSUME TypeInv, input' = input
    PROVE  /\ (\A j \in JobIds : Present(j)' => Present(j)) => RowsPosted'
           /\ (\A a \in Agents : pc'[a] # "idle" => pc[a] # "idle" /\ job'[a] = job[a])
                 => ClaimsPosted'
  BY DEF TypeInv, RowsPosted, ClaimsPosted, Posted, Partitions, Present, IsPartition

(* The table a save leaves is a table, with no row that was not there.      *)
LEMMA SavedTable ==
    ASSUME TypeInv, NEW a \in Agents, pc[a] # "idle",
           \/ UpdateJobResult(Update(a))
           \/ UpdateIntegrationPartitionResult(Update(a))
    PROVE  /\ jobs' \in [JobIds -> Row]
           /\ \A j \in JobIds : jobs'[j].status # "ABSENT" => Present(j)
           /\ UNCHANGED <<input, now, doomed>>
<1> DEFINE u == Update(a)
<1>1. /\ u.id \in JobIds /\ Written(u) \in Row /\ Parent(u.id) \in JobIds
      /\ jobs \in [JobIds -> Row]
  BY UpdateFacts, JobIdFacts DEF TypeInv, TypeOK
<1> HIDE DEF u
<1>2. CASE UpdateJobResult(u)
  BY <1>1, <1>2 DEF UpdateJobResult, Present
<1>3. CASE UpdateIntegrationPartitionResult(u)
  <2>1. Present(u.id) /\ Present(Parent(u.id)) /\ UNCHANGED <<input, now, doomed>>
    BY <1>3 DEF UpdateIntegrationPartitionResult
  <2>2. CASE RecordOnly(u) \/ RecordPart(u)
    BY <1>1, <2>1, <2>2 DEF RecordOnly, RecordPart, Present
  <2>3. CASE RecordFailure(u)
    <3>1. PICK dropped \in SUBSET PendingSiblings(u) : jobs' = FailureWritten(u, dropped)
      BY <2>3 DEF RecordFailure
    <3>2. \A j \in JobIds : j \in dropped => Present(j)
      BY <3>1 DEF PendingSiblings, Present
    <3> QED
      BY <1>1, <2>1, <3>1, <3>2 DEF FailureWritten, Present, Row, Statuses, Errors
  <2>4. CASE RecordLast(u)
    <3>1. PICK aggregate \in {"value", "non_finite"} :
             jobs' = [jobs EXCEPT ![u.id] = Written(u),
                                  ![Parent(u.id)] = [@ EXCEPT !.status = "COMPLETED",
                                                              !.result = aggregate,
                                                              !.error  = "none"]]
      BY <2>4 DEF RecordLast
    <3> QED
      BY <1>1, <2>1, <3>1 DEF Present, Row, Statuses, Results, Errors
  <2> QED
    BY <1>3, <2>2, <2>3, <2>4 DEF UpdateIntegrationPartitionResult
<1> QED
  BY <1>2, <1>3 DEF u

(* It holds at the start.                                                   *)
LEMMA TypeInit == Init => TypeInv
<1> SUFFICES ASSUME Init PROVE TypeInv
  OBVIOUS
<1>1. TypeOK
  BY RowFacts DEF Init, InitTable, TypeOK
<1>2. RowsPosted /\ ClaimsPosted
  BY DEF Init, InitTable, RowsPosted, ClaimsPosted, Present, NoRow
<1> QED
  BY <1>1, <1>2 DEF TypeInv

(* A client posts a job.                                                    *)
LEMMA TypePost ==
    ASSUME TypeInv, NEW r \in Roots, NEW q \in Requests,
           CreateJob(r, q) \/ CreateFailingJob(r, q)
    PROVE  TypeInv'
<1> USE DEF TypeInv
<1>1. /\ input[r] = NoRequest /\ q # NoRequest
      /\ input' = [input EXCEPT ![r] = q]
      /\ jobs' = [jobs EXCEPT ![<<r, 0>>] = NewRow(now)]
      /\ now' = now + 1 /\ doomed' = doomed
      /\ pc' = pc /\ job' = job /\ seen' = seen /\ faults' = faults
  BY RequestsAssumption
  DEF CreateJob, CreateFailingJob, InsertJob, NoRequest, Tasks, agentVars
<1>2. <<r, 0>> \in JobIds
  BY MaxPartitionsAssumption DEF JobIds
<1>3. TypeOK'
  BY <1>1, <1>2, RowFacts DEF TypeOK
<1>4. RowsPosted'
  <2> SUFFICES ASSUME NEW j \in JobIds, jobs'[j].status # "ABSENT"
               PROVE  Posted(j)'
    BY DEF RowsPosted, Present
  <2>1. CASE j = <<r, 0>>
    BY <2>1, <1>1, <1>2 DEF TypeOK, Posted, IsPartition
  <2>2. CASE j # <<r, 0>>
    <3>1. Posted(j) /\ j[1] # r /\ j[1] \in Roots
      BY <2>2, <1>1, <1>2, JobIdFacts DEF TypeOK, RowsPosted, Posted, Present
    <3> QED
      BY <3>1, <1>1 DEF TypeOK, Posted, Partitions, IsPartition
  <2> QED
    BY <2>1, <2>2
<1>5. ClaimsPosted'
  <2> SUFFICES ASSUME NEW a \in Agents, pc[a] # "idle"
               PROVE  Posted(job[a])'
    BY <1>1 DEF ClaimsPosted
  <2>1. Posted(job[a]) /\ job[a][1] # r /\ job[a][1] \in Roots
    BY <1>1, JobIdFacts DEF TypeOK, ClaimsPosted, Posted
  <2> QED
    BY <2>1, <1>1 DEF TypeOK, Posted, Partitions, IsPartition
<1> QED
  BY <1>3, <1>4, <1>5

(* A DELETE begins, ends or fails.                                          *)
LEMMA TypeClear ==
    ASSUME TypeInv, ClearJobs \/ ClearJobsFails
    PROVE  TypeInv'
<1> USE DEF TypeInv
<1>1. /\ input' = input /\ now' = now /\ pc' = pc /\ job' = job /\ seen' = seen
      /\ faults' \in Nat /\ doomed' \in SUBSET Roots
  <2>1. CASE ClearJobs
    <3>1. CASE StartDelete
      BY <2>1, <3>1 DEF ClearJobs, StartDelete, TypeOK, agentVars
    <3>2. CASE FinishDelete
      BY <2>1, <3>2 DEF ClearJobs, FinishDelete, TypeOK, agentVars
    <3> QED
      BY <2>1, <3>1, <3>2 DEF ClearJobs
  <2>2. CASE ClearJobsFails
    BY <2>2 DEF ClearJobsFails, Fault, TypeOK
  <2> QED
    BY <2>1, <2>2
<1>2. jobs' = jobs \/ jobs' = [j \in JobIds |-> IF j[1] \in doomed THEN NoRow ELSE jobs[j]]
  BY DEF ClearJobs, ClearJobsFails, StartDelete, FinishDelete
<1>3. /\ jobs' \in [JobIds -> Row]
      /\ \A j \in JobIds : jobs'[j].status # "ABSENT" => jobs[j].status # "ABSENT"
  BY <1>2, RowFacts DEF TypeOK, NoRow
<1>4. TypeOK'
  BY <1>1, <1>3 DEF TypeOK
<1> QED
  BY <1>1, <1>3, <1>4, PostedKept DEF Present

(* What a reset writes.                                                     *)
LEMMA ResetWrites ==
    ASSUME jobs \in [JobIds -> Row], NEW j \in JobIds,
           jobs' = [jobs EXCEPT ![j] = [@ EXCEPT !.status = "PENDING", !.error = "save_failed"]]
    PROVE  /\ jobs'[j].status = "PENDING" /\ jobs'[j].error = "save_failed"
           /\ \A k \in JobIds \ {j} : jobs'[k] = jobs[k]
<1>1. PICK row : row = [jobs[j] EXCEPT !.status = "PENDING", !.error = "save_failed"]
  OBVIOUS
<1>2. jobs' = [jobs EXCEPT ![j] = row]
  BY <1>1
<1>3. row.status = "PENDING" /\ row.error = "save_failed"
  <2>1. jobs[j] \in Row
    OBVIOUS
  <2> QED
    BY <1>1, <2>1 DEF Row
<1> QED
  BY <1>2, <1>3

(* An agent claims a job.                                                   *)
LEMMA TypeClaim ==
    ASSUME TypeInv, NEW a \in Agents, NEW j \in JobIds, Claim(j), Take(a, j)
    PROVE  TypeInv'
<1> USE DEF TypeInv
<1>1. /\ input' = input /\ now' = now /\ doomed' = doomed /\ faults' = faults
      /\ jobs[j].status = "PENDING"
      /\ jobs' = [jobs EXCEPT ![j].status = "RUNNING", ![j].error = "none"]
      /\ pc' = [pc EXCEPT ![a] = "running"] /\ job' = [job EXCEPT ![a] = j]
      /\ seen' = [seen EXCEPT ![a] = jobs[j].retry_count]
  BY DEF Claim, Take
<1>2. /\ jobs' \in [JobIds -> Row]
      /\ \A k \in JobIds : jobs'[k].status # "ABSENT" => jobs[k].status # "ABSENT"
  <2>1. PICK row : row = [jobs[j] EXCEPT !.status = "RUNNING", !.error = "none"]
    OBVIOUS
  <2>2. jobs \in [JobIds -> Row] /\ jobs[j] \in Row
    BY DEF TypeOK
  <2>3. row \in Row
    BY <2>1, <2>2 DEF Row, Statuses, Errors
  <2>4. jobs' = [jobs EXCEPT ![j] = row]
    BY <1>1, <2>1
  <2> QED
    BY <1>1, <2>2, <2>3, <2>4
<1>3. TypeOK'
  BY <1>1, <1>2 DEF TypeOK, Row
<1>4. RowsPosted'
  BY <1>1, <1>2, PostedKept DEF Present
<1>5. ClaimsPosted'
  <2>1. Posted(j)
    BY <1>1 DEF RowsPosted, Present
  <2> QED
    BY <2>1, <1>1 DEF TypeOK, ClaimsPosted, Posted, Partitions, IsPartition
<1> QED
  BY <1>3, <1>4, <1>5

(* A save commits.                                                          *)
LEMMA TypeSave ==
    ASSUME TypeInv, NEW a \in Agents,
           SaveJobResult(a) \/ SavePartitionResult(a) \/ SavePartitionReplyLost(a)
    PROVE  TypeInv'
<1> USE DEF TypeInv
<1>1. /\ pc[a] = "running"
      /\ \/ UpdateJobResult(Update(a))
         \/ UpdateIntegrationPartitionResult(Update(a))
  BY DEF SaveJobResult, SavePartitionResult, SavePartitionReplyLost, Running
<1>2. /\ jobs' \in [JobIds -> Row]
      /\ \A j \in JobIds : jobs'[j].status # "ABSENT" => Present(j)
      /\ input' = input /\ now' = now /\ doomed' = doomed
  BY <1>1, SavedTable
<1>3. /\ faults' \in Nat
      /\ \/ Release(a)
         \/ GoReset(a)
  BY DEF SaveJobResult, SavePartitionResult, SavePartitionReplyLost, Fault, TypeOK
<1>4. TypeOK'
  BY <1>1, <1>2, <1>3 DEF TypeOK, Release, GoReset
<1>5. \A b \in Agents : pc'[b] # "idle" => pc[b] # "idle" /\ job'[b] = job[b]
  BY <1>1, <1>3 DEF TypeOK, Release, GoReset
<1> QED
  BY <1>2, <1>4, <1>5, PostedKept DEF Present

(* An agent goes on, or stops, and the table stays as it is.                *)
LEMMA TypeLeave ==
    ASSUME TypeInv, NEW a \in Agents,
           \/ RejectPartitionResult(a) \/ FanOutRejected(a)
           \/ Abandon(a) \/ SavePartitionFails(a)
    PROVE  TypeInv'
<1> USE DEF TypeInv
<1>1. /\ jobs' = jobs /\ input' = input /\ now' = now /\ doomed' = doomed /\ faults' \in Nat
      /\ pc[a] # "idle"
      /\ Release(a) \/ GoReset(a)
  BY DEF RejectPartitionResult, FanOutRejected, Abandon, SavePartitionFails, Fault, TypeOK,
         Running, tableVars
<1>2. TypeOK'
  BY <1>1 DEF TypeOK, Release, GoReset
<1>3. \A b \in Agents : pc'[b] # "idle" => pc[b] # "idle" /\ job'[b] = job[b]
  BY <1>1 DEF TypeOK, Release, GoReset
<1> QED
  BY <1>1, <1>2, <1>3, PostedKept DEF Present

(* A partition is reset.                                                    *)
LEMMA TypeReset ==
    ASSUME TypeInv, NEW a \in Agents, ResetPartition(a)
    PROVE  TypeInv'
<1> USE DEF TypeInv
<1>1. /\ input' = input /\ now' = now /\ doomed' = doomed /\ faults' = faults
      /\ pc[a] = "resetting" /\ job[a] \in JobIds
      /\ Release(a)
  BY DEF ResetPartition, ResetRunningJobToPending, TypeOK
<1>2. /\ jobs' \in [JobIds -> Row]
      /\ \A k \in JobIds : jobs'[k].status # "ABSENT" => jobs[k].status # "ABSENT"
  <2>1. \/ jobs' = jobs
        \/ jobs' = [jobs EXCEPT ![job[a]] = [@ EXCEPT !.status = "PENDING",
                                                     !.error = "save_failed"]]
           /\ jobs[job[a]].status = "RUNNING"
    BY DEF ResetPartition, ResetRunningJobToPending
  <2>2. \A row \in Row : [row EXCEPT !.status = "PENDING", !.error = "save_failed"] \in Row
    BY DEF Row, Statuses, Errors
  <2>3. jobs \in [JobIds -> Row] /\ job[a] \in JobIds
    BY <1>1 DEF TypeOK
  <2>4. CASE jobs' = jobs
    BY <2>3, <2>4
  <2>5. CASE /\ jobs' = [jobs EXCEPT ![job[a]] = [@ EXCEPT !.status = "PENDING",
                                                          !.error = "save_failed"]]
             /\ jobs[job[a]].status = "RUNNING"
    BY <2>2, <2>3, <2>5
  <2> QED
    BY <2>1, <2>4, <2>5
<1>3. TypeOK'
  BY <1>1, <1>2 DEF TypeOK, Release
<1>4. \A b \in Agents : pc'[b] # "idle" => pc[b] # "idle" /\ job'[b] = job[b]
  BY <1>1 DEF TypeOK, Release
<1> QED
  BY <1>1, <1>2, <1>3, <1>4, PostedKept DEF Present

(* An integration is fanned out.                                            *)
LEMMA TypeFanOut ==
    ASSUME TypeInv, NEW a \in Agents, FanOut(a)
    PROVE  TypeInv'
<1> USE DEF TypeInv
<1> DEFINE r == job[a][1]
<1>1. /\ input' = input /\ now' = now + 1 /\ doomed' = doomed /\ faults' = faults
      /\ pc[a] = "running" /\ Posted(job[a])
      /\ jobs' = [j \in JobIds |-> IF j \in PartitionIds(r) /\ ~Present(j)
                                   THEN NewRow(now) ELSE jobs[j]]
      /\ Release(a)
  BY DEF FanOut, EnsureJobPartitions, Running, ClaimsPosted
<1>2. jobs' \in [JobIds -> Row]
  BY <1>1, RowFacts DEF TypeOK
<1>3. TypeOK'
  BY <1>1, <1>2 DEF TypeOK, Release
<1>4. RowsPosted'
  <2> SUFFICES ASSUME NEW j \in JobIds, jobs'[j].status # "ABSENT"
               PROVE  Posted(j)
    BY <1>1 DEF RowsPosted, Present, Posted, Partitions, IsPartition
  <2>1. CASE j \in PartitionIds(r)
    BY <2>1, <1>1 DEF Posted, PartitionIds
  <2>2. CASE j \notin PartitionIds(r)
    BY <2>2, <1>1 DEF RowsPosted, Present
  <2> QED
    BY <2>1, <2>2
<1>5. \A b \in Agents : pc'[b] # "idle" => pc[b] # "idle" /\ job'[b] = job[b]
  BY <1>1 DEF TypeOK, Release
<1> QED
  BY <1>1, <1>3, <1>4, <1>5, PostedKept

(* Every step keeps it.                                                     *)
LEMMA TypeStep == TypeInv /\ [Next]_vars => TypeInv'
<1> SUFFICES ASSUME TypeInv, [Next]_vars
             PROVE  TypeInv'
  OBVIOUS
<1>1. ASSUME NEW w \in Workers, NEW j \in JobIds, Receive(w, j)
      PROVE  TypeInv'
  BY <1>1, TypeClaim DEF Receive, ClaimNextPendingJob, Agents
<1>2. ASSUME NEW c \in Runners, NEW j \in JobIds, RunById(c, j)
      PROVE  TypeInv'
  BY <1>2, TypeClaim DEF RunById, ClaimJobById, Agents
<1>3. ASSUME NEW a \in Agents, Step(a) \/ AgentFault(a)
      PROVE  TypeInv'
  BY <1>3, TypeSave, TypeLeave, TypeReset, TypeFanOut DEF Step, AgentFault
<1>4. CASE UNCHANGED vars
  BY <1>4 DEF vars, tableVars, agentVars, TypeInv, TypeOK, RowsPosted, ClaimsPosted,
              Posted, Partitions, Present, IsPartition
<1> QED
  BY <1>1, <1>2, <1>3, <1>4, TypePost, TypeClear DEF Next

(* The table, the requests and every agent's view of its claim keep their   *)
(* types: in particular run_job is only ever given inputs it has.           *)
THEOREM TypeCorrect == Spec => []TypeOK
<1>1. Spec => []TypeInv
  BY TypeInit, TypeStep, PTL DEF Spec
<1> QED
  BY <1>1, PTL DEF TypeInv

-----------------------------------------------------------------------------
(***************************************************************************)
(* A claimed job is its claimer's alone, as long as no commit is reported  *)
(* to a worker as a failure: for any jobs, workers, budgets and other      *)
(* faults.  From it, that a decided job stays decided and that no failed   *)
(* attempt is forgotten, though saves write rows without looking at them.  *)
(*                                                                         *)
(* Exclusive claims alone are not inductive.  A partition's save writes    *)
(* its parent's row, so nobody may hold a parent that has partitions; that *)
(* takes that such a parent is never PENDING, and that a fan-out never     *)
(* brings back a partition somebody still holds.                           *)
(***************************************************************************)

NoLostReply == "reply" \notin FaultKinds

(* A partition in the table has its parent there, fanned out and let go.    *)
ParentsFannedOut ==
    \A j \in JobIds : IsPartition(j) /\ jobs[j].status # "ABSENT" =>
        /\ jobs[Parent(j)].status \notin {"ABSENT", "PENDING"}
        /\ \A a \in Agents : pc[a] # "idle" => job[a] # Parent(j)

(* A partition somebody holds is gone only with its parent.                 *)
ClaimedWithParent ==
    \A a \in Agents :
        pc[a] # "idle" /\ IsPartition(job[a]) /\ jobs[Parent(job[a])].status # "ABSENT"
            => jobs[job[a]].status # "ABSENT"

OnlyPartitionsReset == \A a \in Agents : pc[a] = "resetting" => IsPartition(job[a])

(* ClaimIsExclusive, in two parts.                                          *)
Distinct == \A a, b \in Agents : pc[a] # "idle" /\ pc[b] # "idle" /\ job[a] = job[b] => a = b
Current  == \A a \in Agents : pc[a] # "idle" /\ jobs[job[a]].status # "ABSENT" =>
                /\ jobs[job[a]].status = "RUNNING"
                /\ jobs[job[a]].retry_count = seen[a]

Held == Distinct /\ Current /\ ParentsFannedOut /\ ClaimedWithParent /\ OnlyPartitionsReset

ClaimInv == TypeInv /\ Held

(* The two parts are ClaimIsExclusive.                                      *)
LEMMA ClaimIsExclusiveParts == ClaimIsExclusive <=> Distinct /\ Current
  BY DEF ClaimIsExclusive, Distinct, Current, Busy, Present

(* Parents are roots of the same family.                                    *)
LEMMA ParentFacts ==
    ASSUME NEW j \in JobIds
    PROVE  /\ Parent(j) \in JobIds /\ Parent(j)[1] = j[1] /\ ~IsPartition(Parent(j))
           /\ ~IsPartition(j) => j = Parent(j) /\ j = <<j[1], 0>>
  BY JobIdFacts DEF Parent, IsPartition

(* What a save does to the rows other than the claimed one: nothing, or a   *)
(* PENDING partition is cancelled, or the RUNNING parent is decided.        *)
LEMMA SavedRows ==
    ASSUME TypeInv, NEW a \in Agents, pc[a] # "idle",
           \/ UpdateJobResult(Update(a))
           \/ UpdateIntegrationPartitionResult(Update(a)) /\ IsPartition(job[a])
    PROVE  /\ jobs[job[a]].status = "ABSENT" => jobs' = jobs
           /\ jobs[job[a]].status # "ABSENT" => jobs'[job[a]] = Written(Update(a))
           /\ \A j \in JobIds \ {job[a]} :
                 \/ jobs'[j] = jobs[j]
                 \/ /\ IsPartition(j) /\ jobs[j].status = "PENDING"
                    /\ jobs'[j].status = "FAILED"
                    /\ jobs'[j].retry_count = jobs[j].retry_count
                 \/ /\ IsPartition(job[a]) /\ jobs[job[a]].status # "ABSENT"
                    /\ j = Parent(job[a]) /\ jobs[j].status = "RUNNING"
                    /\ jobs'[j].status \in Terminal
                    /\ jobs'[j].retry_count = jobs[j].retry_count
<1> DEFINE u == Update(a)
<1>1. /\ u.id = job[a] /\ u.id \in JobIds /\ Written(u) \in Row
      /\ jobs \in [JobIds -> Row]
  BY UpdateFacts DEF TypeInv, TypeOK
<1>2. Parent(u.id) \in JobIds /\ (IsPartition(u.id) => u.id # Parent(u.id))
  BY <1>1, ParentFacts
<1> HIDE DEF u
<1>3. CASE UpdateJobResult(u)
  BY <1>1, <1>3 DEF UpdateJobResult, Present, u
<1>4. CASE UpdateIntegrationPartitionResult(u) /\ IsPartition(job[a])
  <2>1. jobs[u.id].status # "ABSENT" /\ IsPartition(u.id) /\ u.id # Parent(u.id)
    BY <1>1, <1>2, <1>4 DEF UpdateIntegrationPartitionResult, Present
  <2>2. CASE RecordOnly(u) \/ RecordPart(u)
    BY <1>1, <2>1, <2>2 DEF RecordOnly, RecordPart, u
  <2>3. CASE RecordFailure(u)
    <3>1. PICK dropped \in SUBSET PendingSiblings(u) : jobs' = FailureWritten(u, dropped)
      BY <2>3 DEF RecordFailure
    <3>2. jobs[Parent(u.id)].status = "RUNNING"
      BY <2>3 DEF RecordFailure, ParentRunning
    <3>3. \A j \in dropped : /\ j \in JobIds /\ IsPartition(j) /\ j # u.id
                             /\ jobs[j].status = "PENDING"
      BY <3>1 DEF PendingSiblings, ChildRows
    <3>4. jobs'[u.id] = Written(u)
      BY <1>1, <2>1, <3>1, <3>3 DEF FailureWritten
    <3>5. /\ jobs'[Parent(u.id)].status = "FAILED"
          /\ jobs'[Parent(u.id)].retry_count = jobs[Parent(u.id)].retry_count
      BY <1>1, <1>2, <2>1, <3>1 DEF FailureWritten, Row
    <3>6. ASSUME NEW j \in JobIds, j # u.id, j # Parent(u.id)
          PROVE  \/ jobs'[j] = jobs[j]
                 \/ /\ IsPartition(j) /\ jobs[j].status = "PENDING"
                    /\ jobs'[j].status = "FAILED"
                    /\ jobs'[j].retry_count = jobs[j].retry_count
      BY <1>1, <3>1, <3>3, <3>6 DEF FailureWritten, Row
    <3> QED
      BY <1>1, <2>1, <3>2, <3>4, <3>5, <3>6 DEF Terminal, u
  <2>4. CASE RecordLast(u)
    <3>1. PICK aggregate \in {"value", "non_finite"} :
             jobs' = [jobs EXCEPT ![u.id] = Written(u),
                                  ![Parent(u.id)] = [@ EXCEPT !.status = "COMPLETED",
                                                              !.result = aggregate,
                                                              !.error  = "none"]]
      BY <2>4 DEF RecordLast
    <3>2. jobs[Parent(u.id)].status = "RUNNING"
      BY <2>4 DEF RecordLast, ParentRunning
    <3>3. jobs'[u.id] = Written(u)
      BY <1>1, <1>2, <2>1, <3>1
    <3>4. /\ jobs'[Parent(u.id)].status = "COMPLETED"
          /\ jobs'[Parent(u.id)].retry_count = jobs[Parent(u.id)].retry_count
      BY <1>1, <1>2, <2>1, <3>1 DEF Row
    <3>5. \A j \in JobIds : j # u.id /\ j # Parent(u.id) => jobs'[j] = jobs[j]
      BY <1>1, <1>2, <3>1
    <3> QED
      BY <1>1, <2>1, <3>2, <3>3, <3>4, <3>5 DEF Terminal, u
  <2> QED
    BY <1>4, <2>2, <2>3, <2>4 DEF UpdateIntegrationPartitionResult, u
<1> QED
  BY <1>3, <1>4 DEF u

-----------------------------------------------------------------------------
(* Each action keeps Held.                                                  *)

(* Nothing is held at the start.                                            *)
LEMMA HeldInit == Init => Held
  BY DEF Init, InitTable, NoRow, Held, Distinct, Current, ParentsFannedOut,
         ClaimedWithParent, OnlyPartitionsReset

(* The row of a job just posted is nobody's, and no partition's parent.     *)
LEMMA HeldPost ==
    ASSUME ClaimInv, NEW r \in Roots, NEW q \in Requests,
           CreateJob(r, q) \/ CreateFailingJob(r, q)
    PROVE  Held'
<1>1. /\ input[r] = NoRequest
      /\ jobs' = [jobs EXCEPT ![<<r, 0>>] = NewRow(now)]
      /\ pc' = pc /\ job' = job /\ seen' = seen
  BY DEF CreateJob, CreateFailingJob, InsertJob, agentVars
<1>2. jobs \in [JobIds -> Row] /\ \A a \in Agents : pc[a] # "idle" => job[a] \in JobIds
  BY DEF ClaimInv, TypeInv, TypeOK
<1>3. \A a \in Agents : pc[a] # "idle" => job[a][1] # r
  BY <1>1 DEF ClaimInv, TypeInv, ClaimsPosted, Posted
<1>4. \A j \in JobIds : jobs[j].status # "ABSENT" => j[1] # r
  BY <1>1 DEF ClaimInv, TypeInv, RowsPosted, Posted, Present
<1>5. \A j \in JobIds : j[1] # r => jobs'[j] = jobs[j]
  BY <1>1, <1>2
<1>6. \A j \in JobIds : IsPartition(j) => jobs'[j] = jobs[j]
  BY <1>1, <1>2 DEF IsPartition
<1>7. Distinct' /\ OnlyPartitionsReset'
  BY <1>1 DEF ClaimInv, Held, Distinct, OnlyPartitionsReset, IsPartition
<1>8. Current'
  BY <1>1, <1>2, <1>3, <1>5 DEF ClaimInv, Held, Current
<1>9. ParentsFannedOut'
  <2> SUFFICES ASSUME NEW j \in JobIds, IsPartition(j), jobs'[j].status # "ABSENT"
               PROVE  /\ jobs'[Parent(j)].status \notin {"ABSENT", "PENDING"}
                      /\ \A a \in Agents : pc[a] # "idle" => job[a] # Parent(j)
    BY <1>1 DEF ParentsFannedOut, IsPartition, Parent
  <2>1. jobs[j].status # "ABSENT" /\ j[1] # r
    BY <1>4, <1>6
  <2>2. jobs'[Parent(j)] = jobs[Parent(j)]
    BY <2>1, <1>5, ParentFacts
  <2> QED
    BY <2>1, <2>2 DEF ClaimInv, Held, ParentsFannedOut
<1>10. ClaimedWithParent'
  <2> SUFFICES ASSUME NEW a \in Agents, pc[a] # "idle", IsPartition(job[a]),
                      jobs'[Parent(job[a])].status # "ABSENT"
               PROVE  jobs'[job[a]].status # "ABSENT"
    BY <1>1 DEF ClaimedWithParent, IsPartition, Parent
  <2>1. /\ jobs'[job[a]] = jobs[job[a]]
        /\ jobs'[Parent(job[a])] = jobs[Parent(job[a])]
    BY <1>2, <1>3, <1>5, ParentFacts
  <2> QED
    BY <2>1 DEF ClaimInv, Held, ClaimedWithParent
<1> QED
  BY <1>7, <1>8, <1>9, <1>10 DEF Held

(* A DELETE takes whole families.                                           *)
LEMMA HeldClear ==
    ASSUME ClaimInv, ClearJobs \/ ClearJobsFails
    PROVE  Held'
<1>1. /\ pc' = pc /\ job' = job /\ seen' = seen
      /\ \/ jobs' = jobs
         \/ jobs' = [j \in JobIds |-> IF j[1] \in doomed THEN NoRow ELSE jobs[j]]
  BY DEF ClearJobs, ClearJobsFails, StartDelete, FinishDelete, agentVars
<1> DEFINE gone == IF jobs' = jobs THEN {} ELSE doomed
<1>2. jobs \in [JobIds -> Row] /\ \A a \in Agents : pc[a] # "idle" => job[a] \in JobIds
  BY DEF ClaimInv, TypeInv, TypeOK
<1>3. /\ \A j \in JobIds : j[1] \notin gone => jobs'[j] = jobs[j]
      /\ \A j \in JobIds : j[1] \in gone => jobs'[j].status = "ABSENT"
  BY <1>1, <1>2 DEF NoRow
<1> HIDE DEF gone
<1>4. Distinct' /\ OnlyPartitionsReset'
  BY <1>1 DEF ClaimInv, Held, Distinct, OnlyPartitionsReset, IsPartition
<1>5. Current'
  BY <1>1, <1>2, <1>3 DEF ClaimInv, Held, Current
<1>6. ParentsFannedOut'
  <2> SUFFICES ASSUME NEW j \in JobIds, IsPartition(j), jobs'[j].status # "ABSENT"
               PROVE  /\ jobs'[Parent(j)].status \notin {"ABSENT", "PENDING"}
                      /\ \A a \in Agents : pc[a] # "idle" => job[a] # Parent(j)
    BY <1>1 DEF ParentsFannedOut, IsPartition, Parent
  <2>1. jobs'[j] = jobs[j] /\ jobs'[Parent(j)] = jobs[Parent(j)]
    BY <1>3, ParentFacts
  <2> QED
    BY <2>1 DEF ClaimInv, Held, ParentsFannedOut
<1>7. ClaimedWithParent'
  <2> SUFFICES ASSUME NEW a \in Agents, pc[a] # "idle", IsPartition(job[a]),
                      jobs'[Parent(job[a])].status # "ABSENT"
               PROVE  jobs'[job[a]].status # "ABSENT"
    BY <1>1 DEF ClaimedWithParent, IsPartition, Parent
  <2>1. /\ jobs'[job[a]] = jobs[job[a]]
        /\ jobs'[Parent(job[a])] = jobs[Parent(job[a])]
    BY <1>2, <1>3, ParentFacts
  <2> QED
    BY <2>1 DEF ClaimInv, Held, ClaimedWithParent
<1> QED
  BY <1>4, <1>5, <1>6, <1>7 DEF Held

(* A PENDING row is nobody's, and a parent that was fanned out is not one.  *)
LEMMA HeldClaim ==
    ASSUME ClaimInv, NEW a \in Agents, NEW j \in JobIds, Claim(j), Take(a, j)
    PROVE  Held'
<1>1. /\ jobs[j].status = "PENDING" /\ pc[a] = "idle"
      /\ jobs' = [jobs EXCEPT ![j] = [@ EXCEPT !.status = "RUNNING", !.error = "none"]]
      /\ pc' = [pc EXCEPT ![a] = "running"] /\ job' = [job EXCEPT ![a] = j]
      /\ seen' = [seen EXCEPT ![a] = jobs[j].retry_count]
  BY DEF Claim, Take
<1>2. /\ jobs \in [JobIds -> Row] /\ DOMAIN pc = Agents /\ DOMAIN job = Agents
      /\ DOMAIN seen = Agents
      /\ pc'[a] = "running" /\ job'[a] = j /\ seen'[a] = jobs[j].retry_count
      /\ \A b \in Agents \ {a} : pc'[b] = pc[b] /\ job'[b] = job[b] /\ seen'[b] = seen[b]
      /\ \A b \in Agents : pc[b] # "idle" => job[b] \in JobIds
  BY <1>1 DEF ClaimInv, TypeInv, TypeOK
<1>3. /\ jobs'[j].status = "RUNNING" /\ jobs'[j].retry_count = jobs[j].retry_count
      /\ \A k \in JobIds \ {j} : jobs'[k] = jobs[k]
  BY <1>1, <1>2 DEF Row
<1>4. \A b \in Agents : pc[b] # "idle" => job[b] # j
  BY <1>1 DEF ClaimInv, Held, Current
<1>5. \A k \in JobIds : IsPartition(k) /\ jobs[k].status # "ABSENT" => Parent(k) # j
  BY <1>1 DEF ClaimInv, Held, ParentsFannedOut
<1>6. \A k \in JobIds : jobs'[k].status # "ABSENT" <=> jobs[k].status # "ABSENT"
  BY <1>1, <1>3
<1>7. Distinct'
  BY <1>2, <1>4 DEF ClaimInv, Held, Distinct
<1>8. Current'
  BY <1>2, <1>3, <1>4 DEF ClaimInv, Held, Current
<1>9. ParentsFannedOut'
  <2> SUFFICES ASSUME NEW k \in JobIds, IsPartition(k), jobs'[k].status # "ABSENT"
               PROVE  /\ jobs'[Parent(k)].status \notin {"ABSENT", "PENDING"}
                      /\ \A b \in Agents : pc'[b] # "idle" => job'[b] # Parent(k)
    BY DEF ParentsFannedOut, IsPartition, Parent
  <2>1. jobs[k].status # "ABSENT" /\ Parent(k) # j /\ jobs'[Parent(k)] = jobs[Parent(k)]
    BY <1>3, <1>5, <1>6, ParentFacts
  <2> QED
    BY <2>1, <1>2 DEF ClaimInv, Held, ParentsFannedOut
<1>10. ClaimedWithParent'
  <2> SUFFICES ASSUME NEW b \in Agents, pc'[b] # "idle", IsPartition(job'[b]),
                      jobs'[Parent(job'[b])].status # "ABSENT"
               PROVE  jobs'[job'[b]].status # "ABSENT"
    BY DEF ClaimedWithParent, IsPartition, Parent
  <2>1. CASE b = a
    BY <2>1, <1>2, <1>3
  <2>2. CASE b # a
    BY <2>2, <1>2, <1>6, ParentFacts DEF ClaimInv, Held, ClaimedWithParent
  <2> QED
    BY <2>1, <2>2
<1>11. OnlyPartitionsReset'
  BY <1>2 DEF ClaimInv, Held, OnlyPartitionsReset, IsPartition
<1> QED
  BY <1>7, <1>8, <1>9, <1>10, <1>11 DEF Held

(* A save writes its own row, and lets go of it; of the others it cancels   *)
(* those nobody holds and decides a parent nobody holds.                    *)
LEMMA HeldSave ==
    ASSUME ClaimInv, NEW a \in Agents, SaveJobResult(a) \/ SavePartitionResult(a)
    PROVE  Held'
<1>1. /\ pc[a] # "idle" /\ Release(a)
      /\ \/ UpdateJobResult(Update(a))
         \/ UpdateIntegrationPartitionResult(Update(a)) /\ IsPartition(job[a])
  BY DEF SaveJobResult, SavePartitionResult, Running
<1>2. /\ job[a] \in JobIds /\ jobs \in [JobIds -> Row]
      /\ pc'[a] = "idle"
      /\ \A b \in Agents : pc'[b] # "idle" =>
            b # a /\ pc'[b] = pc[b] /\ job'[b] = job[b] /\ seen'[b] = seen[b]
      /\ \A b \in Agents : pc[b] # "idle" => job[b] \in JobIds
  BY <1>1 DEF ClaimInv, TypeInv, TypeOK, Release
<1>3. \A j \in JobIds : jobs'[j].status # "ABSENT" => jobs[j].status # "ABSENT"
  BY <1>1, SavedTable DEF ClaimInv, Present
<1>4. \A j \in JobIds \ {job[a]} :
         \/ jobs'[j] = jobs[j]
         \/ /\ jobs[j].status = "PENDING" /\ IsPartition(j)
            /\ jobs'[j].status = "FAILED"
         \/ /\ IsPartition(job[a]) /\ jobs[job[a]].status # "ABSENT"
            /\ j = Parent(job[a]) /\ jobs'[j].status \in Terminal
  BY <1>1, SavedRows DEF ClaimInv
<1>5. \A b \in Agents : pc'[b] # "idle" =>
         /\ job[b] # job[a]
         /\ IsPartition(job[a]) /\ jobs[job[a]].status # "ABSENT" => job[b] # Parent(job[a])
  BY <1>1, <1>2 DEF ClaimInv, Held, Distinct, ParentsFannedOut
<1>6. Distinct' /\ OnlyPartitionsReset'
  BY <1>2 DEF ClaimInv, Held, Distinct, OnlyPartitionsReset, IsPartition
<1>7. \A b \in Agents : pc'[b] # "idle" /\ jobs[job[b]].status # "ABSENT"
         => jobs'[job[b]] = jobs[job[b]]
  BY <1>2, <1>4, <1>5 DEF ClaimInv, Held, Current
<1>8. Current'
  BY <1>2, <1>3, <1>7 DEF ClaimInv, Held, Current
<1>9. ParentsFannedOut'
  <2> SUFFICES ASSUME NEW j \in JobIds, IsPartition(j), jobs'[j].status # "ABSENT"
               PROVE  /\ jobs'[Parent(j)].status \notin {"ABSENT", "PENDING"}
                      /\ \A b \in Agents : pc'[b] # "idle" => job'[b] # Parent(j)
    BY DEF ParentsFannedOut, IsPartition, Parent
  <2>1. /\ jobs[Parent(j)].status \notin {"ABSENT", "PENDING"}
        /\ \A b \in Agents : pc[b] # "idle" => job[b] # Parent(j)
    BY <1>3 DEF ClaimInv, Held, ParentsFannedOut
  <2>2. Parent(j) \in JobIds \ {job[a]}
    BY <2>1, <1>1, ParentFacts
  <2>3. jobs'[Parent(j)] = jobs[Parent(j)] \/ jobs'[Parent(j)].status \in Terminal
    BY <2>2, <1>4 DEF Terminal
  <2> QED
    BY <2>1, <2>3, <1>2 DEF Terminal
<1>10. ClaimedWithParent'
  <2> SUFFICES ASSUME NEW b \in Agents, pc'[b] # "idle", IsPartition(job[b]),
                      jobs'[Parent(job[b])].status # "ABSENT"
               PROVE  jobs'[job[b]].status # "ABSENT"
    BY <1>2 DEF ClaimedWithParent, IsPartition, Parent
  <2>1. jobs[Parent(job[b])].status # "ABSENT" /\ pc[b] # "idle"
    BY <1>2, <1>3, ParentFacts
  <2> QED
    BY <2>1, <1>7 DEF ClaimInv, Held, ClaimedWithParent
<1> QED
  BY <1>6, <1>8, <1>9, <1>10 DEF Held

(* Agents that leave the table as it is only let go of what they hold, or   *)
(* hold on to a partition to reset it.                                      *)
LEMMA HeldLeave ==
    ASSUME ClaimInv, NEW a \in Agents,
           \/ RejectPartitionResult(a) \/ FanOutRejected(a)
           \/ Abandon(a) \/ SavePartitionFails(a)
    PROVE  Held'
<1>1. /\ jobs' = jobs /\ pc[a] # "idle"
      /\ Release(a) \/ (GoReset(a) /\ IsPartition(job[a]))
  <2>1. CASE RejectPartitionResult(a) \/ SavePartitionFails(a)
    BY <2>1 DEF RejectPartitionResult, SavePartitionFails, Running, tableVars
  <2>2. CASE FanOutRejected(a) \/ Abandon(a)
    BY <2>2 DEF FanOutRejected, Abandon, Running, tableVars
  <2> QED
    BY <2>1, <2>2
<1>2. \A b \in Agents : pc'[b] # "idle" =>
         /\ pc[b] # "idle" /\ job'[b] = job[b] /\ seen'[b] = seen[b]
         /\ pc'[b] = "resetting" => pc[b] = "resetting" \/ IsPartition(job[b])
  BY <1>1 DEF ClaimInv, TypeInv, TypeOK, Release, GoReset
<1>3. Distinct' /\ OnlyPartitionsReset'
  BY <1>2 DEF ClaimInv, Held, Distinct, OnlyPartitionsReset, IsPartition
<1>4. Current'
  BY <1>1, <1>2 DEF ClaimInv, Held, Current
<1>5. ParentsFannedOut'
  BY <1>1, <1>2 DEF ClaimInv, Held, ParentsFannedOut, IsPartition, Parent
<1>6. ClaimedWithParent'
  BY <1>1, <1>2 DEF ClaimInv, Held, ClaimedWithParent, IsPartition, Parent
<1> QED
  BY <1>3, <1>4, <1>5, <1>6 DEF Held

(* A reset puts back a partition that nobody else holds.                    *)
LEMMA HeldReset ==
    ASSUME ClaimInv, NEW a \in Agents, ResetPartition(a)
    PROVE  Held'
<1>1. /\ pc[a] # "idle" /\ IsPartition(job[a]) /\ Release(a)
      /\ \/ jobs' = jobs
         \/ /\ jobs[job[a]].status = "RUNNING"
            /\ jobs' = [jobs EXCEPT ![job[a]] = [@ EXCEPT !.status = "PENDING",
                                                          !.error = "save_failed"]]
  BY DEF ResetPartition, ResetRunningJobToPending, ClaimInv, Held, OnlyPartitionsReset
<1>2. /\ job[a] \in JobIds /\ jobs \in [JobIds -> Row]
      /\ \A b \in Agents : pc'[b] # "idle" =>
            b # a /\ pc'[b] = pc[b] /\ job'[b] = job[b] /\ seen'[b] = seen[b]
      /\ \A b \in Agents : pc[b] # "idle" => job[b] \in JobIds
  BY <1>1 DEF ClaimInv, TypeInv, TypeOK, Release
<1>3. /\ \A j \in JobIds \ {job[a]} : jobs'[j] = jobs[j]
      /\ \A j \in JobIds : jobs'[j].status # "ABSENT" <=> jobs[j].status # "ABSENT"
  BY <1>1, <1>2 DEF Row
<1>4. \A j \in JobIds : jobs'[Parent(j)] = jobs[Parent(j)]
  BY <1>1, <1>3, ParentFacts
<1>5. \A b \in Agents : pc'[b] # "idle" => job[b] # job[a]
  BY <1>1, <1>2 DEF ClaimInv, Held, Distinct
<1>6. Distinct' /\ OnlyPartitionsReset'
  BY <1>2 DEF ClaimInv, Held, Distinct, OnlyPartitionsReset, IsPartition
<1>7. Current'
  BY <1>2, <1>3, <1>5 DEF ClaimInv, Held, Current
<1>8. ParentsFannedOut'
  <2> SUFFICES ASSUME NEW j \in JobIds, IsPartition(j), jobs'[j].status # "ABSENT"
               PROVE  /\ jobs'[Parent(j)].status \notin {"ABSENT", "PENDING"}
                      /\ \A b \in Agents : pc'[b] # "idle" => job'[b] # Parent(j)
    BY DEF ParentsFannedOut, IsPartition, Parent
  <2> QED
    BY <1>2, <1>3, <1>4 DEF ClaimInv, Held, ParentsFannedOut
<1>9. ClaimedWithParent'
  <2> SUFFICES ASSUME NEW b \in Agents, pc'[b] # "idle", IsPartition(job[b]),
                      jobs'[Parent(job[b])].status # "ABSENT"
               PROVE  jobs'[job[b]].status # "ABSENT"
    BY <1>2 DEF ClaimedWithParent, IsPartition, Parent
  <2> QED
    BY <1>2, <1>3, <1>4 DEF ClaimInv, Held, ClaimedWithParent
<1> QED
  BY <1>6, <1>7, <1>8, <1>9 DEF Held

(* A fan-out inserts partitions that nobody holds, under a parent that only *)
(* the agent fanning out holds and lets go of.                              *)
LEMMA HeldFanOut ==
    ASSUME ClaimInv, NEW a \in Agents, FanOut(a)
    PROVE  Held'
<1> DEFINE r == job[a][1]
           new == {j \in PartitionIds(r) : jobs[j].status = "ABSENT"}
<1>1. /\ pc[a] # "idle" /\ Release(a) /\ job[a] \in JobIds
      /\ ~IsPartition(job[a]) /\ jobs[<<r, 0>>].status # "ABSENT"
      /\ jobs' = [j \in JobIds |-> IF j \in new THEN NewRow(now) ELSE jobs[j]]
  BY DEF FanOut, EnsureJobPartitions, Running, Present, IsCoordinator, ClaimInv, TypeInv, TypeOK
<1>2. job[a] = <<r, 0>> /\ jobs[job[a]].status = "RUNNING"
  BY <1>1, ParentFacts DEF ClaimInv, Held, Current
<1>3. \A j \in new : IsPartition(j) /\ Parent(j) = job[a]
  BY <1>2 DEF PartitionIds, Partitions, IsPartition, Parent
<1> HIDE DEF new
<1>4. /\ jobs \in [JobIds -> Row]
      /\ \A b \in Agents : pc'[b] # "idle" =>
            b # a /\ pc'[b] = pc[b] /\ job'[b] = job[b] /\ seen'[b] = seen[b]
      /\ \A b \in Agents : pc[b] # "idle" => job[b] \in JobIds
  BY <1>1 DEF ClaimInv, TypeInv, TypeOK, Release
<1>5. /\ \A j \in JobIds : j \notin new => jobs'[j] = jobs[j]
      /\ \A j \in JobIds : j \in new => jobs'[j].status = "PENDING"
  BY <1>1 DEF NewRow
<1>6. \A j \in new : jobs[j].status = "ABSENT"
  BY DEF new
<1>7. \A b \in Agents : pc[b] # "idle" => job[b] \notin new
  BY <1>1, <1>2, <1>3, <1>6 DEF ClaimInv, Held, ClaimedWithParent
<1>8. \A j \in JobIds : Parent(j) \notin new
  BY <1>3, ParentFacts
<1>9. Distinct' /\ OnlyPartitionsReset'
  BY <1>4 DEF ClaimInv, Held, Distinct, OnlyPartitionsReset, IsPartition
<1>10. Current'
  BY <1>4, <1>5, <1>7 DEF ClaimInv, Held, Current
<1>11. ParentsFannedOut'
  <2> SUFFICES ASSUME NEW j \in JobIds, IsPartition(j), jobs'[j].status # "ABSENT"
               PROVE  /\ jobs'[Parent(j)].status \notin {"ABSENT", "PENDING"}
                      /\ \A b \in Agents : pc'[b] # "idle" => job'[b] # Parent(j)
    BY DEF ParentsFannedOut, IsPartition, Parent
  <2>1. jobs'[Parent(j)] = jobs[Parent(j)]
    BY <1>5, <1>8, ParentFacts
  <2>2. CASE j \in new
    BY <2>1, <2>2, <1>1, <1>2, <1>3, <1>4 DEF ClaimInv, Held, Distinct
  <2>3. CASE j \notin new
    BY <2>1, <2>3, <1>4, <1>5 DEF ClaimInv, Held, ParentsFannedOut
  <2> QED
    BY <2>2, <2>3
<1>12. ClaimedWithParent'
  <2> SUFFICES ASSUME NEW b \in Agents, pc'[b] # "idle", IsPartition(job[b]),
                      jobs'[Parent(job[b])].status # "ABSENT"
               PROVE  jobs'[job[b]].status # "ABSENT"
    BY <1>4 DEF ClaimedWithParent, IsPartition, Parent
  <2>1. /\ jobs'[job[b]] = jobs[job[b]] /\ pc[b] # "idle"
        /\ jobs'[Parent(job[b])] = jobs[Parent(job[b])]
    BY <1>4, <1>5, <1>7, <1>8, ParentFacts
  <2> QED
    BY <2>1 DEF ClaimInv, Held, ClaimedWithParent
<1> QED
  BY <1>9, <1>10, <1>11, <1>12 DEF Held

(* Every step keeps the invariant, unless a commit is reported as a failure.*)
LEMMA ClaimStep == NoLostReply /\ ClaimInv /\ [Next]_vars => ClaimInv'
<1> SUFFICES ASSUME NoLostReply, ClaimInv, [Next]_vars
             PROVE  ClaimInv'
  OBVIOUS
<1>1. ASSUME NEW w \in Workers, NEW j \in JobIds, Receive(w, j)
      PROVE  Held'
  BY <1>1, HeldClaim DEF Receive, ClaimNextPendingJob, Agents
<1>2. ASSUME NEW c \in Runners, NEW j \in JobIds, RunById(c, j)
      PROVE  Held'
  BY <1>2, HeldClaim DEF RunById, ClaimJobById, Agents
<1>3. ASSUME NEW a \in Agents, Step(a) \/ AgentFault(a)
      PROVE  Held'
  <2>1. ~SavePartitionReplyLost(a)
    BY DEF NoLostReply, SavePartitionReplyLost, Fault
  <2> QED
    BY <1>3, <2>1, HeldSave, HeldLeave, HeldReset, HeldFanOut DEF Step, AgentFault
<1>4. ASSUME UNCHANGED vars
      PROVE  Held'
  BY <1>4 DEF vars, tableVars, agentVars, ClaimInv, Held, Distinct, Current,
              ParentsFannedOut, ClaimedWithParent, OnlyPartitionsReset, IsPartition, Parent
<1>5. Held'
  BY <1>1, <1>2, <1>3, <1>4, HeldPost, HeldClear DEF Next
<1>6. TypeInv'
  BY TypeStep DEF ClaimInv
<1> QED
  BY <1>5, <1>6 DEF ClaimInv

(* The invariant holds in every reachable state.                            *)
LEMMA ClaimAlways == ASSUME NoLostReply PROVE Spec => []ClaimInv
<1>1. Init => ClaimInv
  BY TypeInit, HeldInit DEF ClaimInv
<1>2. ClaimInv /\ [Next]_vars => ClaimInv'
  BY ClaimStep
<1> QED
  BY <1>1, <1>2, PTL DEF Spec

(* A claimed job is its claimer's alone, RUNNING and with the retry count   *)
(* the claimer will save from, or it was cleared: whoever polls, runs jobs  *)
(* by id, crashes or fails to save.                                         *)
THEOREM ClaimsAreExclusive == ASSUME NoLostReply PROVE Spec => []ClaimIsExclusive
<1>1. ClaimInv => ClaimIsExclusive
  BY ClaimIsExclusiveParts DEF ClaimInv, Held
<1> QED
  BY <1>1, ClaimAlways, PTL

-----------------------------------------------------------------------------
(* What one step does to one row, under the invariant: the rows that saves  *)
(* and resets write unseen are RUNNING and counted from what they hold.     *)
RowStep(j) ==
    \/ jobs'[j] = jobs[j]
    \/ jobs[j].status = "ABSENT" \/ jobs'[j].status = "ABSENT"
    \/ /\ jobs[j].status \in {"PENDING", "RUNNING"}
       /\ \/ jobs'[j].retry_count = jobs[j].retry_count
          \/ /\ jobs'[j].retry_count = jobs[j].retry_count + 1
             /\ jobs[j].status = "RUNNING"
             /\ jobs'[j].error = "attempt"

(* What an agent that saves read at its claim still is so.                  *)
StillCurrent(a) ==
    jobs[job[a]].status # "ABSENT" =>
        jobs[job[a]].status = "RUNNING" /\ jobs[job[a]].retry_count = seen[a]
SavesAreCurrent ==
    \A a \in Agents : SaveJobResult(a) \/ SavePartitionResult(a) => StillCurrent(a)

(* A save of a row counts at most one attempt more than the row did.        *)
LEMMA RowSaved ==
    ASSUME TypeInv, NEW a \in Agents, SaveJobResult(a) \/ SavePartitionResult(a),
           StillCurrent(a), NEW j \in JobIds
    PROVE  RowStep(j)
<1>1. /\ pc[a] # "idle"
      /\ \/ UpdateJobResult(Update(a))
         \/ UpdateIntegrationPartitionResult(Update(a)) /\ IsPartition(job[a])
  BY DEF SaveJobResult, SavePartitionResult, Running
<1>2. CASE j # job[a]
  BY <1>1, <1>2, SavedRows DEF RowStep
<1>3. CASE j = job[a] /\ jobs[j].status = "ABSENT"
  BY <1>3 DEF RowStep
<1>4. CASE j = job[a] /\ jobs[j].status # "ABSENT"
  <2>1. jobs[j].status = "RUNNING" /\ jobs[j].retry_count = seen[a]
    BY <1>1, <1>4 DEF StillCurrent
  <2>2. jobs'[j] = Written(Update(a))
    BY <1>1, <1>4, SavedRows
  <2>3. Update(a).id = j /\ jobs[j] \in Row
    BY <1>1, <1>4, UpdateFacts DEF TypeInv, TypeOK
  <2>4. \/ Update(a).retry_count = seen[a]
        \/ Update(a).retry_count = seen[a] + 1 /\ Update(a).error = "attempt"
    BY DEF Update
  <2>5. /\ Written(Update(a)).retry_count = Update(a).retry_count
        /\ Written(Update(a)).error = Update(a).error
    BY <2>3 DEF Written, Row
  <2> QED
    BY <2>1, <2>2, <2>4, <2>5 DEF RowStep
<1> QED
  BY <1>2, <1>3, <1>4

(* Every step does only that, if what is saved is current.                  *)
LEMMA RowStepsIfCurrent ==
    ASSUME NoLostReply, TypeInv, SavesAreCurrent, [Next]_vars, NEW j \in JobIds
    PROVE  RowStep(j)
<1>1. jobs \in [JobIds -> Row] /\ jobs[j] \in Row
  BY DEF TypeInv, TypeOK
<1>2. ASSUME NEW r \in Roots, NEW q \in Requests, CreateJob(r, q) \/ CreateFailingJob(r, q)
      PROVE  RowStep(j)
  <2>1. input[r] = NoRequest /\ jobs' = [jobs EXCEPT ![<<r, 0>>] = NewRow(now)]
    BY <1>2 DEF CreateJob, CreateFailingJob, InsertJob
  <2>2. j = <<r, 0>> => jobs[j].status = "ABSENT"
    BY <2>1 DEF TypeInv, RowsPosted, Posted, Present
  <2> QED
    BY <1>1, <2>1, <2>2 DEF RowStep
<1>3. ASSUME ClearJobs \/ ClearJobsFails
      PROVE  RowStep(j)
  BY <1>1, <1>3 DEF ClearJobs, ClearJobsFails, StartDelete, FinishDelete, NoRow, RowStep
<1>4. ASSUME NEW k \in JobIds, Claim(k)
      PROVE  RowStep(j)
  <2>1. /\ jobs[k].status = "PENDING"
        /\ jobs' = [jobs EXCEPT ![k] = [@ EXCEPT !.status = "RUNNING", !.error = "none"]]
    BY <1>4 DEF Claim
  <2>2. j = k => jobs'[j].retry_count = jobs[j].retry_count
    BY <1>1, <2>1 DEF Row
  <2> QED
    BY <1>1, <2>1, <2>2 DEF RowStep
<1>5. ASSUME NEW a \in Agents, ResetPartition(a)
      PROVE  RowStep(j)
  <2>1. \/ jobs' = jobs
        \/ /\ jobs[job[a]].status = "RUNNING"
           /\ jobs' = [jobs EXCEPT ![job[a]] = [@ EXCEPT !.status = "PENDING",
                                                         !.error = "save_failed"]]
    BY <1>5 DEF ResetPartition, ResetRunningJobToPending
  <2>2. CASE j = job[a] /\ jobs' # jobs
    <3>1. jobs'[j] = [jobs[j] EXCEPT !.status = "PENDING", !.error = "save_failed"]
      BY <1>1, <2>1, <2>2
    <3>2. jobs'[j].retry_count = jobs[j].retry_count
      BY <1>1, <3>1 DEF Row
    <3> QED
      BY <2>1, <2>2, <3>2 DEF RowStep
  <2>3. CASE j # job[a] \/ jobs' = jobs
    BY <1>1, <2>1, <2>3 DEF RowStep
  <2> QED
    BY <2>2, <2>3
<1>6. ASSUME NEW a \in Agents, FanOut(a)
      PROVE  RowStep(j)
  BY <1>1, <1>6 DEF FanOut, EnsureJobPartitions, Present, RowStep
<1>7. ASSUME NEW a \in Agents,
             \/ RejectPartitionResult(a) \/ FanOutRejected(a)
             \/ Abandon(a) \/ SavePartitionFails(a)
      PROVE  RowStep(j)
  BY <1>7 DEF RejectPartitionResult, FanOutRejected, Abandon, SavePartitionFails,
              tableVars, RowStep
<1>8. ASSUME NEW a \in Agents, Step(a) \/ AgentFault(a)
      PROVE  RowStep(j)
  <2>1. ~SavePartitionReplyLost(a)
    BY DEF NoLostReply, SavePartitionReplyLost, Fault
  <2> QED
    BY <1>5, <1>6, <1>7, <1>8, <2>1, RowSaved DEF Step, AgentFault, SavesAreCurrent
<1>9. CASE UNCHANGED vars
  BY <1>9 DEF vars, tableVars, RowStep
<1> QED
  BY <1>2, <1>3, <1>4, <1>8, <1>9 DEF Next, Receive, RunById, ClaimNextPendingJob, ClaimJobById

LEMMA RowSteps ==
    ASSUME NoLostReply, ClaimInv, [Next]_vars, NEW j \in JobIds
    PROVE  RowStep(j)
<1>1. SavesAreCurrent
  BY DEF SavesAreCurrent, StillCurrent, SaveJobResult, SavePartitionResult, Running,
         ClaimInv, Held, Current
<1> QED
  BY <1>1, RowStepsIfCurrent DEF ClaimInv

(* A decided job stays as it was decided, although update_job_result and    *)
(* the partition update write rows by id alone.                             *)
THEOREM DecidedStaysDecided == ASSUME NoLostReply PROVE Spec => TerminalIsFinal
<1>1. ClaimInv /\ [Next]_vars =>
         [\A j \in JobIds : jobs[j].status \in Terminal
             => jobs'[j].status \in {jobs[j].status, "ABSENT"}]_vars
  <2> SUFFICES ASSUME ClaimInv, [Next]_vars, NEW j \in JobIds, jobs[j].status \in Terminal
               PROVE  jobs'[j].status \in {jobs[j].status, "ABSENT"}
    OBVIOUS
  <2> QED
    BY RowSteps DEF RowStep, Terminal
<1> QED
  BY <1>1, ClaimAlways, PTL DEF Spec, TerminalIsFinal

(* Failed attempts are counted one by one and never forgotten, although a   *)
(* save counts from what its agent read at the claim.                       *)
THEOREM AttemptsNeverForgotten == ASSUME NoLostReply PROVE Spec => AttemptsAreCounted
<1>1. ClaimInv /\ [Next]_vars =>
         [\A j \in JobIds : Present(j) /\ Present(j)'
             => \/ jobs'[j].retry_count = jobs[j].retry_count
                \/ /\ jobs'[j].retry_count = jobs[j].retry_count + 1
                   /\ jobs[j].status = "RUNNING"
                   /\ jobs'[j].error = "attempt"]_vars
  <2> SUFFICES ASSUME ClaimInv, [Next]_vars, NEW j \in JobIds, Present(j), Present(j)'
               PROVE  \/ jobs'[j].retry_count = jobs[j].retry_count
                      \/ /\ jobs'[j].retry_count = jobs[j].retry_count + 1
                         /\ jobs[j].status = "RUNNING"
                         /\ jobs'[j].error = "attempt"
    OBVIOUS
  <2> QED
    BY RowSteps DEF RowStep, Present
<1> QED
  BY <1>1, ClaimAlways, PTL DEF Spec, AttemptsAreCounted
=============================================================================
