------------------------ MODULE PostgresContract_proofs ------------------------
(***************************************************************************)
(* What clients can know of their jobs: the table and its workers          *)
(* implement JobContract, step by step, for any jobs, workers, budgets and *)
(* faults, and a client that polls never sees progress go back.            *)
(***************************************************************************)
EXTENDS PostgresOutcomes_proofs, JobReads, FunctionTheorems

-----------------------------------------------------------------------------
(* The contract's variables are read off each job by itself.                *)

DoneOf(r) == {i \in 1..MaxPartitions : jobs[<<r, i>>].status = "COMPLETED"}
Same(r)   == /\ PhaseOf(r)' = PhaseOf(r) /\ DoneOf(r)' = DoneOf(r)
             /\ Partitions(r)' = Partitions(r)

(* A DELETE takes jobs that were posted.                                    *)
ContractInv == FamilyInv /\ \A r \in doomed : input[r] # NoRequest

LEMMA StepsThatStutter ==
    ASSUME \A r \in Roots : Same(r)
    PROVE  UNCHANGED Contract!vars
  BY DEF Same, DoneOf, Contract!vars

(* A step that decides a job, or records a partition of it, and changes     *)
(* nothing else, is one of the contract's.                                  *)
LEMMA StepsThatDecide ==
    ASSUME NEW r \in Roots, \A s \in Roots : s # r => Same(s),
           Partitions(r)' = Partitions(r),
           \/ /\ PhaseOf(r) = "open" /\ PhaseOf(r)' = "failed" /\ DoneOf(r)' = DoneOf(r)
           \/ /\ PhaseOf(r) = "open" /\ PhaseOf(r)' = "completed" /\ DoneOf(r)' = DoneOf(r)
              /\ Partitions(r) = {}
           \/ \E i \in Partitions(r) \ DoneOf(r) :
                 /\ i \in 1..MaxPartitions
                 /\ PhaseOf(r) \in {"open", "failed"} /\ DoneOf(r)' = DoneOf(r) \cup {i}
                 /\ PhaseOf(r)' = IF PhaseOf(r) = "open" /\ DoneOf(r)' = Partitions(r)
                                  THEN "completed" ELSE PhaseOf(r)
    PROVE  Contract!Next
<1> DEFINE phase == [s \in Roots |-> PhaseOf(s)]
           need  == [s \in Roots |-> Partitions(s)]
           done  == [s \in Roots |-> DoneOf(s)]
<1>1. /\ need' = need
      /\ phase' = [phase EXCEPT ![r] = PhaseOf(r)']
      /\ done' = [done EXCEPT ![r] = DoneOf(r)']
      /\ phase[r] = PhaseOf(r) /\ need[r] = Partitions(r) /\ done[r] = DoneOf(r)
      /\ done'[r] = DoneOf(r)'
  BY DEF Same
<1>2. CASE PhaseOf(r) = "open" /\ PhaseOf(r)' = "failed" /\ DoneOf(r)' = DoneOf(r)
  <2>1. done' = done
    BY <1>1, <1>2
  <2>2. Contract!Fail(r)
    BY <1>1, <1>2, <2>1 DEF Contract!Fail, DoneOf
  <2> QED
    BY <2>2 DEF Contract!Next
<1>3. CASE /\ PhaseOf(r) = "open" /\ PhaseOf(r)' = "completed" /\ DoneOf(r)' = DoneOf(r)
           /\ Partitions(r) = {}
  <2>1. done' = done
    BY <1>1, <1>3
  <2>2. Contract!CompleteSimple(r)
    BY <1>1, <1>3, <2>1 DEF Contract!CompleteSimple, DoneOf
  <2> QED
    BY <2>2 DEF Contract!Next
<1>4. CASE \E i \in Partitions(r) \ DoneOf(r) :
              /\ i \in 1..MaxPartitions
              /\ PhaseOf(r) \in {"open", "failed"} /\ DoneOf(r)' = DoneOf(r) \cup {i}
              /\ PhaseOf(r)' = IF PhaseOf(r) = "open" /\ DoneOf(r)' = Partitions(r)
                               THEN "completed" ELSE PhaseOf(r)
  <2>1. PICK i \in Partitions(r) \ DoneOf(r) :
              /\ i \in 1..MaxPartitions
              /\ PhaseOf(r) \in {"open", "failed"} /\ DoneOf(r)' = DoneOf(r) \cup {i}
              /\ PhaseOf(r)' = IF PhaseOf(r) = "open" /\ DoneOf(r)' = Partitions(r)
                               THEN "completed" ELSE PhaseOf(r)
    BY <1>4
  <2>2. /\ phase[r] \in {"open", "failed"}
        /\ i \in need[r] \ done[r]
        /\ done' = [done EXCEPT ![r] = @ \cup {i}]
        /\ phase' = [phase EXCEPT ![r] = IF @ = "open" /\ done'[r] = need[r]
                                         THEN "completed" ELSE @]
        /\ need' = need
    BY <1>1, <2>1
  <2>3. Contract!RecordPartition(r, i)
    BY <2>2 DEF Contract!RecordPartition, DoneOf
  <2> QED
    BY <2>1, <2>3 DEF Contract!Next, Contract!Indexes
<1> QED
  BY <1>2, <1>3, <1>4

(* A step changes nothing of a job whose input and rows it leaves alone, or *)
(* whose rows it moves without deciding them.                               *)
LEMMA SameIf ==
    ASSUME ContractInv, NEW r \in Roots, input'[r] = input[r],
           \A j \in JobIds : j[1] = r =>
              \/ jobs'[j].status = jobs[j].status
              \/ /\ jobs[j].status \in {"PENDING", "RUNNING"}
                 /\ jobs'[j].status \in {"PENDING", "RUNNING"}
              \/ IsPartition(j) /\ jobs[j].status # "COMPLETED" /\ jobs'[j].status # "COMPLETED"
    PROVE  Same(r)
<1>1. /\ <<r, 0>> \in JobIds /\ ~IsPartition(<<r, 0>>)
      /\ \A i \in 1..MaxPartitions : <<r, i>> \in JobIds
  BY MaxPartitionsAssumption DEF JobIds, IsPartition
<1>2. DoneOf(r)' = DoneOf(r)
  BY <1>1 DEF DoneOf
<1>3. PhaseOf(r)' = PhaseOf(r)
  BY <1>1 DEF PhaseOf, Present
<1> QED
  BY <1>2, <1>3 DEF Same, Partitions

(* A job that has rows was posted, and its decided rows are decided as its  *)
(* phase tells.                                                             *)
LEMMA PhaseFacts ==
    ASSUME ContractInv, NEW r \in Roots
    PROVE  /\ \A j \in JobIds : j[1] = r /\ jobs[j].status # "ABSENT" => input[r] # NoRequest
           /\ input[r] # NoRequest => input[r] \in Requests
           /\ DoneOf(r) \subseteq Partitions(r) /\ Partitions(r) \subseteq 1..MaxPartitions
           /\ DoneOf(r) # {} => ChildRows(r) # {}
           /\ \A i \in Partitions(r) : <<r, i>> \in PartitionIds(r)
<1>1. TypeInv
  BY DEF ContractInv, FamilyInv
<1>2. \A j \in JobIds : j[1] = r /\ jobs[j].status # "ABSENT" => input[r] # NoRequest
  BY <1>1 DEF TypeInv, RowsPosted, Posted, Present
<1>3. input[r] # NoRequest => input[r] \in Requests
  BY <1>1 DEF TypeInv, TypeOK
<1>4. Partitions(r) \subseteq 1..MaxPartitions
  <2>1. CASE input[r] = NoRequest
    BY <2>1 DEF NoRequest, Partitions
  <2>2. CASE input[r] \in Requests
    BY <2>2, RequestsAssumption, MaxPartitionsAssumption DEF Partitions
  <2> QED
    BY <1>3, <2>1, <2>2
<1>5. ASSUME NEW i \in DoneOf(r) PROVE i \in Partitions(r) /\ ChildRows(r) # {}
  <2>1. <<r, i>> \in JobIds /\ i > 0 /\ jobs[<<r, i>>].status = "COMPLETED"
    BY MaxPartitionsAssumption DEF DoneOf, JobIds
  <2>2. <<r, i>> \in ChildRows(r)
    BY <2>1 DEF ChildRows, Present, IsPartition
  <2>3. i \in Partitions(r)
    BY <1>1, <2>1 DEF TypeInv, RowsPosted, Posted, Present, IsPartition
  <2> QED
    BY <2>2, <2>3
<1> QED
  BY <1>2, <1>3, <1>4, <1>5 DEF PartitionIds

LEMMA ContractPost ==
    ASSUME ContractInv, NEW r \in Roots, NEW q \in Requests,
           CreateJob(r, q) \/ CreateFailingJob(r, q)
    PROVE  Contract!Next
<1> DEFINE n == IF q.task = "monte_carlo_integration" THEN Len(q.outcomes) ELSE 0
<1>1. /\ input[r] = NoRequest /\ input' = [input EXCEPT ![r] = q]
      /\ jobs' = [jobs EXCEPT ![<<r, 0>>] = NewRow(now)]
      /\ input \in [Roots -> Requests \cup {NoRequest}] /\ jobs \in [JobIds -> Row]
  BY DEF CreateJob, CreateFailingJob, InsertJob, ContractInv, FamilyInv, TypeInv, TypeOK
<1>2. /\ <<r, 0>> \in JobIds /\ \A i \in 1..MaxPartitions : <<r, i>> \in JobIds
      /\ \A i \in 1..MaxPartitions : <<r, i>> # <<r, 0>>
  BY MaxPartitionsAssumption DEF JobIds
<1>3. \A s \in Roots : s # r => Same(s)
  BY <1>1, SameIf
<1>4. PhaseOf(r) = "none"
  <2>1. jobs[<<r, 0>>].status = "ABSENT"
    BY <1>1, <1>2, PhaseFacts
  <2> QED
    BY <1>1, <2>1 DEF PhaseOf
<1>5. PhaseOf(r)' = "open"
  <2>1. input'[r] # NoRequest /\ jobs'[<<r, 0>>].status = "PENDING"
    BY <1>1, <1>2, RequestsAssumption DEF NoRequest, Tasks, NewRow
  <2> QED
    BY <2>1 DEF PhaseOf, Present
<1>6. DoneOf(r)' = DoneOf(r)
  BY <1>1, <1>2 DEF DoneOf
<1>7. Partitions(r)' = 1..n /\ n \in 0..MaxPartitions
  BY <1>1, RequestsAssumption, MaxPartitionsAssumption DEF Partitions
<1> HIDE DEF n
<1> DEFINE phase == [s \in Roots |-> PhaseOf(s)]
           need  == [s \in Roots |-> Partitions(s)]
           done  == [s \in Roots |-> DoneOf(s)]
<1>8. /\ phase[r] = "none" /\ phase' = [phase EXCEPT ![r] = "open"]
      /\ need' = [need EXCEPT ![r] = 1..n] /\ done' = done
  BY <1>3, <1>4, <1>5, <1>6, <1>7 DEF Same
<1>9. Contract!Submit(r, n)
  BY <1>8 DEF Contract!Submit, DoneOf
<1> QED
  BY <1>7, <1>9 DEF Contract!Next

LEMMA ContractClear ==
    ASSUME ContractInv, ClearJobs \/ ClearJobsFails
    PROVE  Contract!Next \/ UNCHANGED Contract!vars
<1>1. CASE jobs' = jobs /\ input' = input
  BY <1>1, SameIf, StepsThatStutter
<1>2. CASE FinishDelete
  <2>1. /\ input' = input
        /\ jobs' = [j \in JobIds |-> IF j[1] \in doomed THEN NoRow ELSE jobs[j]]
        /\ doomed \in SUBSET Roots /\ \A r \in doomed : input[r] # NoRequest
    BY <1>2 DEF FinishDelete, ContractInv, FamilyInv, TypeInv, TypeOK
  <2>2. \A r \in Roots : r \notin doomed => Same(r)
    BY <2>1, SameIf
  <2>3. ASSUME NEW r \in doomed
        PROVE  PhaseOf(r) # "none" /\ PhaseOf(r)' = "removed" /\ DoneOf(r)' = {}
    <3>1. /\ <<r, 0>> \in JobIds /\ jobs'[<<r, 0>>].status = "ABSENT"
          /\ \A i \in 1..MaxPartitions : jobs'[<<r, i>>].status = "ABSENT"
      BY <2>1, MaxPartitionsAssumption DEF JobIds, NoRow
    <3>2. PhaseOf(r) # "none"
      BY <2>1 DEF PhaseOf
    <3> QED
      BY <2>1, <3>1, <3>2 DEF PhaseOf, DoneOf, Present
  <2> DEFINE phase == [s \in Roots |-> PhaseOf(s)]
             need  == [s \in Roots |-> Partitions(s)]
             done  == [s \in Roots |-> DoneOf(s)]
  <2>4. /\ \A r \in doomed : phase[r] # "none"
        /\ phase' = [r \in Roots |-> IF r \in doomed THEN "removed" ELSE phase[r]]
        /\ done'  = [r \in Roots |-> IF r \in doomed THEN {} ELSE done[r]]
    BY <2>1, <2>2, <2>3 DEF Same
  <2>5. need' = need
    BY <2>1 DEF Partitions
  <2>6. ASSUME NEW cleared \in SUBSET Roots, cleared = doomed
        PROVE  Contract!Remove(cleared)
    BY <2>4, <2>5, <2>6 DEF Contract!Remove, DoneOf
  <2> QED
    BY <2>1, <2>6 DEF Contract!Next
<1> QED
  BY <1>1, <1>2 DEF ClearJobs, ClearJobsFails, StartDelete

(* Claims, resets, fan-outs, faults and rejections are not seen.            *)
LEMMA ContractUnseen ==
    ASSUME ContractInv, NEW a \in Agents,
           \/ \E j \in JobIds : Claim(j) /\ Take(a, j)
           \/ RejectPartitionResult(a) \/ FanOutRejected(a) \/ ResetPartition(a)
           \/ FanOut(a) \/ Abandon(a) \/ SavePartitionFails(a)
    PROVE  UNCHANGED Contract!vars
<1>1. jobs \in [JobIds -> Row]
  BY DEF ContractInv, FamilyInv, TypeInv, TypeOK
<1>2. ASSUME NEW j \in JobIds, Claim(j)
      PROVE  UNCHANGED Contract!vars
  <2>1. /\ jobs[j].status = "PENDING" /\ input' = input
        /\ jobs' = [jobs EXCEPT ![j] = [@ EXCEPT !.status = "RUNNING", !.error = "none"]]
    BY <1>2 DEF Claim
  <2>2. jobs'[j].status = "RUNNING" /\ \A k \in JobIds \ {j} : jobs'[k] = jobs[k]
    BY <1>1, <2>1 DEF Row
  <2> QED
    BY <2>1, <2>2, SameIf, StepsThatStutter
<1>3. CASE FanOut(a)
  <2>1. /\ job[a][1] \in Roots /\ input' = input /\ ChildRows(job[a][1]) = {}
        /\ jobs' = [j \in JobIds |-> IF j \in PartitionIds(job[a][1])
                                     THEN NewRow(now) ELSE jobs[j]]
    BY <1>3, FanOutShape DEF ContractInv
  <2>2. \A j \in PartitionIds(job[a][1]) : IsPartition(j) /\ j[1] = job[a][1]
    BY <2>1, FamilyFacts DEF ContractInv, FamilyInv
  <2>3. \A j \in JobIds : j \in PartitionIds(job[a][1]) =>
           jobs[j].status = "ABSENT" /\ jobs'[j].status = "PENDING"
    BY <2>1, <2>2 DEF ChildRows, Present, NewRow
  <2>4. \A j \in JobIds : j \notin PartitionIds(job[a][1]) => jobs'[j] = jobs[j]
    BY <2>1
  <2> QED
    BY <2>1, <2>2, <2>3, <2>4, SameIf, StepsThatStutter
<1>4. CASE ResetPartition(a)
  <2>1. /\ input' = input
        /\ \/ jobs' = jobs
           \/ /\ jobs[job[a]].status = "RUNNING"
              /\ jobs' = [jobs EXCEPT ![job[a]] = [@ EXCEPT !.status = "PENDING",
                                                            !.error = "save_failed"]]
    BY <1>4 DEF ResetPartition, ResetRunningJobToPending
  <2>2. \A j \in JobIds : \/ jobs'[j].status = jobs[j].status
                          \/ jobs[j].status = "RUNNING" /\ jobs'[j].status = "PENDING"
    BY <1>1, <2>1 DEF Row
  <2> QED
    BY <2>1, <2>2, SameIf, StepsThatStutter
<1>5. CASE jobs' = jobs /\ input' = input
  BY <1>5, SameIf, StepsThatStutter
<1> QED
  BY <1>2, <1>3, <1>4, <1>5
  DEF RejectPartitionResult, FanOutRejected, Abandon, SavePartitionFails, tableVars

(* The phase of a job that is there.                                        *)
LEMMA OpenFacts ==
    ASSUME ContractInv, NEW r \in Roots, jobs[<<r, 0>>].status # "ABSENT"
    PROVE  /\ input[r] # NoRequest
           /\ jobs[<<r, 0>>].status = "RUNNING" => PhaseOf(r) = "open"
           /\ jobs[<<r, 0>>].status = "FAILED" => PhaseOf(r) = "failed"
           /\ input'[r] = input[r] /\ jobs'[<<r, 0>>].status = "FAILED"
                 => PhaseOf(r)' = "failed"
           /\ input'[r] = input[r] /\ jobs'[<<r, 0>>].status = "COMPLETED"
                 => PhaseOf(r)' = "completed"
<1>1. <<r, 0>> \in JobIds /\ <<r, 0>>[1] = r
  BY MaxPartitionsAssumption DEF JobIds
<1>2. input[r] # NoRequest
  BY <1>1, PhaseFacts
<1> QED
  BY <1>2 DEF PhaseOf, Present

LEMMA ContractSave ==
    ASSUME ContractInv, NEW a \in Agents, SaveJobResult(a)
    PROVE  Contract!Next \/ UNCHANGED Contract!vars
<1>1. /\ TypeInv /\ pc[a] # "idle" /\ job[a] \in JobIds /\ jobs \in [JobIds -> Row]
      /\ ~IsPartition(job[a]) /\ ~IsCoordinator(job[a])
  BY DEF SaveJobResult, Running, ContractInv, FamilyInv, TypeInv, TypeOK
<1>2. PICK r \in Roots : job[a] = <<r, 0>> /\ Partitions(r) = {}
  BY <1>1, JobIdFacts, ParentFacts DEF IsCoordinator
<1>3. CASE jobs[<<r, 0>>].status = "ABSENT"
  <2>1. jobs' = jobs /\ input' = input
    BY <1>1, <1>2, <1>3, UpdateFacts DEF SaveJobResult, UpdateJobResult, Present
  <2> QED
    BY <2>1, SameIf, StepsThatStutter
<1>4. CASE jobs[<<r, 0>>].status # "ABSENT"
  <2>1. /\ jobs' = [jobs EXCEPT ![<<r, 0>>] = Written(Update(a))] /\ input' = input
    BY <1>1, <1>2, <1>4, UpdateFacts DEF SaveJobResult, UpdateJobResult, Present
  <2>2. Written(Update(a)).status \in {"PENDING", "COMPLETED", "FAILED"}
    BY <1>1, UpdateTells
  <2>3. jobs[<<r, 0>>].status = "RUNNING"
    BY <1>1, <1>2, <1>4 DEF ContractInv, FamilyInv, ParentsFree, RootsHeld
  <2> DEFINE w == Written(Update(a))
  <2> HIDE DEF w
  <2>4. /\ jobs'[<<r, 0>>].status = w.status
        /\ \A j \in JobIds : j # <<r, 0>> => jobs'[j] = jobs[j]
    BY <1>1, <1>2, <2>1 DEF w
  <2>5. \A s \in Roots : s # r => Same(s)
    <3>1. \A s \in Roots : s # r => \A j \in JobIds : j[1] = s => jobs'[j] = jobs[j]
      BY <2>4
    <3> QED
      BY <2>1, <3>1, SameIf
  <2>6. DoneOf(r)' = DoneOf(r)
    <3>1. \A i \in 1..MaxPartitions : <<r, i>> \in JobIds /\ <<r, i>> # <<r, 0>>
      BY MaxPartitionsAssumption DEF JobIds
    <3> QED
      BY <2>4, <3>1 DEF DoneOf
  <2>7. Partitions(r)' = Partitions(r)
    BY <2>1 DEF Partitions
  <2>8. CASE w.status = "PENDING"
    <3>1. Same(r)
      BY <2>1, <2>3, <2>4, <2>8, SameIf
    <3> QED
      BY <2>5, <3>1, StepsThatStutter
  <2>9. CASE w.status \in {"COMPLETED", "FAILED"}
    BY <1>2, <1>4, <2>1, <2>3, <2>4, <2>5, <2>6, <2>7, <2>9, OpenFacts, StepsThatDecide
  <2> QED
    BY <2>2, <2>8, <2>9 DEF w
<1> QED
  BY <1>3, <1>4

(* A partition is recorded once: saved again, after a lost reply, it is     *)
(* what it was; and it is the last exactly when it completes the parent.    *)
LEMMA ContractSavePartition ==
    ASSUME ContractInv, NEW a \in Agents, SavePartitionResult(a) \/ SavePartitionReplyLost(a),
           NEW c \in JobIds, c = job[a], NEW r \in Roots, r = c[1],
           NEW i \in 1..MaxPartitions, c = <<r, i>>
    PROVE  Contract!Next \/ UNCHANGED Contract!vars
<1> DEFINE u == Update(a)
<1>1. /\ TypeInv /\ FamilyInv /\ pc[a] # "idle" /\ IsPartition(c)
      /\ jobs \in [JobIds -> Row] /\ UpdateIntegrationPartitionResult(u)
  BY DEF SavePartitionResult, SavePartitionReplyLost, Running, ContractInv, FamilyInv, TypeInv,
         TypeOK
<1>2. /\ jobs[c].status # "ABSENT" /\ jobs[Parent(c)].status # "ABSENT"
      /\ jobs'[c] = Written(u)
      /\ Recorded(a) \/ GivenUp(a) \/ OneOfMany(a) \/ LastOfAll(a)
  BY <1>1, PartitionSaved
<1>3. /\ Parent(c) = <<r, 0>> /\ <<r, 0>> \in JobIds /\ c \in ChildRows(r) /\ c # <<r, 0>>
      /\ \A k \in 1..MaxPartitions : <<r, k>> \in JobIds /\ <<r, k>> # <<r, 0>>
      /\ \A k \in 1..MaxPartitions : <<r, k>> = c => k = i
      /\ \A k \in 1..MaxPartitions : IsPartition(<<r, k>>) /\ <<r, k>>[1] = r
  BY <1>1, <1>2, FamilyFacts, MaxPartitionsAssumption DEF Parent, JobIds, IsPartition
<1>4. /\ ChildRows(r) = PartitionIds(r) /\ i \in Partitions(r)
      /\ jobs[<<r, 0>>].status \in {"RUNNING", "COMPLETED", "FAILED"}
      /\ jobs[c].status = "COMPLETED" => jobs[c].result = Outcome(c)
      /\ (jobs[<<r, 0>>].status = "COMPLETED") <=> (\A j \in PartitionIds(r) : Complete(j))
      /\ \A k \in Partitions(r) : k \in 1..MaxPartitions /\ <<r, k>> \in PartitionIds(r)
  <2>1. ChildRows(r) = PartitionIds(r)
    BY <1>1, <1>3 DEF FamilyInv, FamilyOK
  <2>2. i \in Partitions(r)
    BY <1>3, <2>1 DEF PartitionIds
  <2> QED
    BY <1>1, <1>3, <2>1, <2>2, PhaseFacts DEF FamilyInv, FamilyOK
<1>5. /\ input' = input
      /\ \A j \in JobIds : j[1] # r => jobs'[j] = jobs[j]
  BY <1>1, SaveShape
<1>6. /\ Written(u).status = u.status
      /\ \/ u.status = "COMPLETED" /\ Outcome(c) # "error" /\ u.result = Outcome(c)
         \/ u.status \in {"PENDING", "FAILED"} /\ Outcome(c) = "error"
  BY <1>1, UpdateTells
<1>7. jobs[c].status = "COMPLETED" =>
         u.status = "COMPLETED" /\ jobs[c].result = u.result
  BY <1>1, <1>4, <1>6 DEF Row, Results
<1>8. \A s \in Roots : s # r => Same(s)
  BY <1>5, SameIf
<1>9. Partitions(r)' = Partitions(r)
  BY <1>5 DEF Partitions
<1> HIDE DEF u
<1>10. jobs'[c].status = u.status
  BY <1>2, <1>6
(* Only the saved partition may be recorded.                                *)
<1>11. ASSUME \A k \in 1..MaxPartitions : k # i =>
                (jobs'[<<r, k>>].status = "COMPLETED" <=> jobs[<<r, k>>].status = "COMPLETED")
       PROVE  DoneOf(r)' = IF u.status = "COMPLETED" THEN DoneOf(r) \cup {i} ELSE DoneOf(r)
  <2>1. ASSUME NEW k \in 1..MaxPartitions, k # i
        PROVE  k \in DoneOf(r)' <=> k \in DoneOf(r)
    BY <1>11, <2>1 DEF DoneOf
  <2>2. i \in DoneOf(r)' <=> u.status = "COMPLETED"
    BY <1>10 DEF DoneOf
  <2>3. i \in DoneOf(r) => u.status = "COMPLETED"
    BY <1>7 DEF DoneOf
  <2>4. DoneOf(r) \subseteq 1..MaxPartitions /\ DoneOf(r)' \subseteq 1..MaxPartitions
    BY DEF DoneOf
  <2> QED
    BY <2>1, <2>2, <2>3, <2>4
<1>12. CASE Recorded(a)
  <2>1. /\ u.status = "PENDING" \/ jobs[<<r, 0>>].status # "RUNNING"
        /\ \A j \in JobIds \ {c} : jobs'[j] = jobs[j]
    BY <1>3, <1>12 DEF Recorded, u
  <2>2. DoneOf(r)' = IF u.status = "COMPLETED" THEN DoneOf(r) \cup {i} ELSE DoneOf(r)
    <3>1. \A k \in 1..MaxPartitions : k # i => jobs'[<<r, k>>] = jobs[<<r, k>>]
      BY <1>3, <2>1
    <3> QED
      BY <1>11, <3>1
  <2>3. jobs'[<<r, 0>>] = jobs[<<r, 0>>]
    BY <1>3, <2>1
  <2>4. PhaseOf(r)' = PhaseOf(r)
    BY <1>5, <2>3 DEF PhaseOf, Present
  <2>5. CASE DoneOf(r)' = DoneOf(r)
    <3>1. Same(r)
      BY <1>9, <2>4, <2>5 DEF Same
    <3> QED
      BY <1>8, <3>1, StepsThatStutter
  <2>6. CASE DoneOf(r)' # DoneOf(r)
    <3>1. u.status = "COMPLETED" /\ i \notin DoneOf(r)
      BY <2>2, <2>6
    <3>2. jobs[<<r, 0>>].status # "COMPLETED"
      <4>1. jobs[c].status # "COMPLETED"
        BY <3>1 DEF DoneOf
      <4> QED
        BY <1>3, <1>4, <4>1 DEF Complete
    <3>3. PhaseOf(r) = "failed"
      BY <1>3, <1>4, <2>1, <3>1, <3>2, OpenFacts
    <3> QED
      BY <1>4, <1>8, <1>9, <2>2, <2>4, <3>1, <3>3, StepsThatDecide
  <2> QED
    BY <2>5, <2>6
<1>13. CASE GivenUp(a)
  <2>1. /\ u.status = "FAILED"
        /\ jobs[<<r, 0>>].status = "RUNNING" /\ jobs'[<<r, 0>>].status = "FAILED"
        /\ \A j \in JobIds \ {c, <<r, 0>>} :
              \/ jobs'[j] = jobs[j]
              \/ jobs[j].status = "PENDING" /\ jobs'[j].status = "FAILED"
    BY <1>3, <1>13 DEF GivenUp, FailedWith, u
  <2>2. DoneOf(r)' = DoneOf(r)
    <3>1. \A k \in 1..MaxPartitions : k # i =>
             (jobs'[<<r, k>>].status = "COMPLETED" <=> jobs[<<r, k>>].status = "COMPLETED")
      BY <1>3, <2>1
    <3> QED
      BY <1>11, <2>1, <3>1
  <2>3. PhaseOf(r) = "open" /\ PhaseOf(r)' = "failed"
    BY <1>5, <2>1, OpenFacts
  <2> QED
    BY <1>8, <1>9, <2>2, <2>3, StepsThatDecide
<1>14. CASE OneOfMany(a)
  <2>1. PICK j \in ChildRows(r) : j # c /\ jobs[j].status # "COMPLETED"
    BY <1>14 DEF OneOfMany
  <2>2. /\ u.status = "COMPLETED" /\ jobs[<<r, 0>>].status = "RUNNING"
        /\ \A k \in JobIds \ {c} : jobs'[k] = jobs[k]
    BY <1>3, <1>14 DEF OneOfMany, u
  <2>3. DoneOf(r)' = DoneOf(r) \cup {i}
    <3>1. \A k \in 1..MaxPartitions : k # i => jobs'[<<r, k>>] = jobs[<<r, k>>]
      BY <1>3, <2>2
    <3> QED
      BY <1>11, <2>2, <3>1
  <2>4. jobs'[<<r, 0>>] = jobs[<<r, 0>>]
    BY <1>3, <2>2
  <2>5. PhaseOf(r)' = PhaseOf(r) /\ PhaseOf(r) = "open"
    BY <1>5, <2>2, <2>4, OpenFacts DEF PhaseOf, Present
  <2>6. DoneOf(r)' # Partitions(r)
    <3>1. PICK k \in Partitions(r) : j = <<r, k>>
      BY <1>4, <2>1 DEF PartitionIds
    <3>2. k # i /\ k \notin DoneOf(r)
      BY <2>1, <3>1 DEF DoneOf
    <3> QED
      BY <2>3, <3>2
  <2>7. CASE i \in DoneOf(r)
    <3>1. Same(r)
      BY <1>9, <2>3, <2>5, <2>7 DEF Same
    <3> QED
      BY <1>8, <3>1, StepsThatStutter
  <2>8. CASE i \notin DoneOf(r)
    BY <1>4, <1>8, <1>9, <2>3, <2>5, <2>6, <2>8, StepsThatDecide
  <2> QED
    BY <2>7, <2>8
<1>15. CASE LastOfAll(a)
  <2>1. /\ u.status = "COMPLETED" /\ u.result = "value"
        /\ jobs[<<r, 0>>].status = "RUNNING" /\ jobs'[<<r, 0>>].status = "COMPLETED"
        /\ \A j \in PartitionIds(r) : j # c => Complete(j)
        /\ \A j \in JobIds \ {c, <<r, 0>>} : jobs'[j] = jobs[j]
    BY <1>3, <1>4, <1>15 DEF LastOfAll, Complete, u
  <2>2. DoneOf(r)' = DoneOf(r) \cup {i}
    <3>1. \A k \in 1..MaxPartitions : k # i => jobs'[<<r, k>>] = jobs[<<r, k>>]
      BY <1>3, <2>1
    <3> QED
      BY <1>11, <2>1, <3>1
  <2>3. i \notin DoneOf(r)
    <3>1. ~Complete(c)
      BY <1>4, <2>1
    <3> QED
      BY <1>7, <2>1, <3>1 DEF DoneOf, Complete
  <2>4. DoneOf(r)' = Partitions(r)
    <3>1. \A k \in Partitions(r) : k # i => k \in DoneOf(r)
      BY <1>3, <1>4, <2>1 DEF DoneOf, Complete
    <3>2. DoneOf(r) \subseteq Partitions(r)
      BY PhaseFacts
    <3> QED
      BY <1>4, <2>2, <3>1, <3>2
  <2>5. PhaseOf(r) = "open" /\ PhaseOf(r)' = "completed"
    BY <1>5, <2>1, OpenFacts
  <2> QED
    BY <1>4, <1>8, <1>9, <2>2, <2>3, <2>4, <2>5, StepsThatDecide
<1> QED
  BY <1>2, <1>12, <1>13, <1>14, <1>15

(* The contract's step of each of the program's.                            *)
LEMMA ContractStep ==
    ASSUME ContractInv, [Next]_vars
    PROVE  Contract!Next \/ UNCHANGED Contract!vars
<1>1. ASSUME NEW w \in Workers, NEW j \in JobIds, Receive(w, j)
      PROVE  UNCHANGED Contract!vars
  BY <1>1, ContractUnseen DEF Receive, ClaimNextPendingJob, Agents
<1>2. ASSUME NEW k \in Runners, NEW j \in JobIds, RunById(k, j)
      PROVE  UNCHANGED Contract!vars
  BY <1>2, ContractUnseen DEF RunById, ClaimJobById, Agents
<1>3. ASSUME NEW a \in Agents, SavePartitionResult(a) \/ SavePartitionReplyLost(a)
      PROVE  Contract!Next \/ UNCHANGED Contract!vars
  <2>1. job[a] \in JobIds /\ IsPartition(job[a])
    BY <1>3 DEF SavePartitionResult, SavePartitionReplyLost, Running, ContractInv, FamilyInv,
                TypeInv, TypeOK
  <2>2. PICK c \in JobIds : c = job[a] /\ c[2] > 0
    BY <2>1 DEF IsPartition
  <2>3. c[1] \in Roots /\ c[2] \in 1..MaxPartitions /\ c = <<c[1], c[2]>>
    BY <2>2, JobIdFacts, MaxPartitionsAssumption
  <2> QED
    BY <1>3, <2>2, <2>3, ContractSavePartition
<1>4. ASSUME NEW a \in Agents, Step(a) \/ AgentFault(a)
      PROVE  Contract!Next \/ UNCHANGED Contract!vars
  BY <1>3, <1>4, ContractSave, ContractUnseen DEF Step, AgentFault
<1>5. ASSUME UNCHANGED vars
      PROVE  UNCHANGED Contract!vars
  BY <1>5, SameIf, StepsThatStutter DEF vars, tableVars
<1> QED
  BY <1>1, <1>2, <1>4, <1>5, ContractPost, ContractClear DEF Next

LEMMA ContractInvStep == ContractInv /\ [Next]_vars => ContractInv'
<1> SUFFICES ASSUME ContractInv, [Next]_vars
             PROVE  \A r \in doomed' : input'[r] # NoRequest
  BY FamilyStep DEF ContractInv
<1> DEFINE DoomedPosted == \A r \in doomed' : input'[r] # NoRequest
<1>1. /\ \A r \in doomed : input[r] # NoRequest
      /\ doomed \in SUBSET Roots /\ input \in [Roots -> Requests \cup {NoRequest}]
  BY DEF ContractInv, FamilyInv, TypeInv, TypeOK
<1>2. ASSUME NEW r \in Roots, NEW q \in Requests, CreateJob(r, q) \/ CreateFailingJob(r, q)
      PROVE  DoomedPosted
  BY <1>1, <1>2 DEF CreateJob, CreateFailingJob, InsertJob
<1>3. ASSUME ClearJobs \/ ClearJobsFails
      PROVE  DoomedPosted
  <2>1. CASE StartDelete
    <3>1. doomed' = {r \in Roots : jobs[<<r, 0>>].status # "ABSENT"} /\ input' = input
      BY <2>1 DEF StartDelete, Present
    <3> QED
      BY <3>1, OpenFacts
  <2>2. CASE FinishDelete \/ ClearJobsFails
    BY <2>2 DEF FinishDelete, ClearJobsFails
  <2> QED
    BY <1>3, <2>1, <2>2 DEF ClearJobs
<1>4. ASSUME NEW a \in Agents,
             (\E j \in JobIds : Claim(j)) \/ Step(a) \/ AgentFault(a)
      PROVE  doomed' = doomed /\ input' = input
  BY <1>4
  DEF Claim, Step, AgentFault, SaveJobResult, UpdateJobResult, SavePartitionResult,
      SavePartitionReplyLost, UpdateIntegrationPartitionResult, RejectPartitionResult,
      ResetPartition, ResetRunningJobToPending, FanOut, EnsureJobPartitions, FanOutRejected,
      Abandon, SavePartitionFails, tableVars
<1>5. ASSUME NEW w \in Workers, NEW j \in JobIds, Receive(w, j)
      PROVE  doomed' = doomed /\ input' = input
  BY <1>4, <1>5 DEF Receive, ClaimNextPendingJob, Agents
<1>6. ASSUME NEW k \in Runners, NEW j \in JobIds, RunById(k, j)
      PROVE  doomed' = doomed /\ input' = input
  BY <1>4, <1>6 DEF RunById, ClaimJobById, Agents
<1>7. ASSUME UNCHANGED vars
      PROVE  doomed' = doomed /\ input' = input
  BY <1>7 DEF vars, tableVars
<1>8. ASSUME doomed' = doomed, input' = input
      PROVE  DoomedPosted
  BY <1>1, <1>8
<1> HIDE DEF DoomedPosted
<1>9. ASSUME NEW a \in Agents, Step(a) \/ AgentFault(a)
      PROVE  DoomedPosted
  BY <1>4, <1>8, <1>9
<1>10. ASSUME NEW w \in Workers, NEW j \in JobIds, Receive(w, j)
       PROVE  DoomedPosted
  BY <1>5, <1>8, <1>10
<1>11. ASSUME NEW k \in Runners, NEW j \in JobIds, RunById(k, j)
       PROVE  DoomedPosted
  BY <1>6, <1>8, <1>11
<1>12. ASSUME UNCHANGED vars
       PROVE  DoomedPosted
  BY <1>7, <1>8, <1>12
<1>13. DoomedPosted
  BY <1>2, <1>3, <1>9, <1>10, <1>11, <1>12 DEF Next
<1> QED
  BY <1>13 DEF DoomedPosted

LEMMA ContractAlways == Spec => []ContractInv
<1>1. Init => ContractInv
  BY FamilyInit DEF Init, InitTable, ContractInv
<1> QED
  BY <1>1, ContractInvStep, PTL DEF Spec

(* The table and the workers keep the contract with clients: a job is       *)
(* decided once, by the step that decides it, a partition is recorded once, *)
(* and the step that records the last one of an open integration completes  *)
(* it, whoever runs what, however often, and whatever fails.                *)
THEOREM ContractIsKept == Spec => ImplementsContract
<1>1. Init => Contract!Init
  <2> SUFFICES ASSUME Init PROVE Contract!Init
    OBVIOUS
  <2>1. \A r \in Roots : input[r] = NoRequest /\ jobs[<<r, 0>>].status = "ABSENT"
    BY MaxPartitionsAssumption DEF Init, InitTable, NoRow, JobIds
  <2>2. \A r \in Roots : PhaseOf(r) = "none"
    BY <2>1 DEF PhaseOf
  <2>3. ASSUME NEW r \in Roots PROVE Partitions(r) = {}
    <3>1. input[r] = NoRequest /\ NoRequest.task = "none"
      BY <2>1 DEF NoRequest
    <3> QED
      BY <3>1 DEF Partitions
  <2>4. \A r \in Roots : \A i \in 1..MaxPartitions : jobs[<<r, i>>].status # "COMPLETED"
    BY MaxPartitionsAssumption DEF Init, InitTable, NoRow, JobIds
  <2> QED
    BY <2>2, <2>3, <2>4 DEF Contract!Init
<1>2. ContractInv /\ [Next]_vars => [Contract!Next]_(Contract!vars)
  BY ContractStep
<1> QED
  BY <1>1, <1>2, ContractAlways, PTL DEF Spec, ImplementsContract, Contract!Spec

-----------------------------------------------------------------------------
(* Reads.  What the contract allows to happen to one job in a step.         *)

Keeps(r) == Same(r)
Opens(r) == PhaseOf(r) = "none" /\ PhaseOf(r)' = "open" /\ DoneOf(r)' = DoneOf(r)
Adds(r)  == /\ PhaseOf(r) \in {"open", "failed"} /\ Partitions(r)' = Partitions(r)
            /\ DoneOf(r) \subseteq DoneOf(r)'
            /\ PhaseOf(r)' = "completed" => DoneOf(r)' = Partitions(r) \/ Partitions(r) = {}
Goes(r)  == PhaseOf(r) # "none" /\ PhaseOf(r)' = "removed" /\ Partitions(r)' = Partitions(r)

LEMMA ContractMoves ==
    ASSUME ContractInv, [Next]_vars, NEW r \in Roots
    PROVE  Keeps(r) \/ Opens(r) \/ Adds(r) \/ Goes(r)
<1> DEFINE phase == [s \in Roots |-> PhaseOf(s)]
           need  == [s \in Roots |-> Partitions(s)]
           done  == [s \in Roots |-> DoneOf(s)]
           Goal  == Keeps(r) \/ Opens(r) \/ Adds(r) \/ Goes(r)
<1>1. /\ phase[r] = PhaseOf(r) /\ need[r] = Partitions(r) /\ done[r] = DoneOf(r)
      /\ phase'[r] = PhaseOf(r)' /\ need'[r] = Partitions(r)' /\ done'[r] = DoneOf(r)'
  OBVIOUS
<1>2. /\ phase = [s \in Roots |-> phase[s]] /\ need = [s \in Roots |-> need[s]]
      /\ done = [s \in Roots |-> done[s]]
  OBVIOUS
<1> HIDE DEF phase, need, done
<1>3. ASSUME NEW s \in Roots, NEW n \in 0..MaxPartitions, Contract!Submit(s, n)
      PROVE  Goal
  <2>1. /\ phase[s] = "none" /\ phase' = [phase EXCEPT ![s] = "open"]
        /\ need' = [need EXCEPT ![s] = 1..n] /\ done' = done
    BY <1>3 DEF Contract!Submit, phase, need, done, DoneOf
  <2>2. CASE s = r
    BY <1>1, <1>2, <2>1, <2>2 DEF Opens
  <2>3. CASE s # r
    BY <1>1, <1>2, <2>1, <2>3 DEF Keeps, Same
  <2> QED
    BY <2>2, <2>3
<1>4. ASSUME NEW s \in Roots, NEW i \in Contract!Indexes, Contract!RecordPartition(s, i)
      PROVE  Goal
  <2>1. /\ phase[s] \in {"open", "failed"} /\ need' = need
        /\ done' = [done EXCEPT ![s] = @ \cup {i}]
        /\ phase' = [phase EXCEPT ![s] = IF @ = "open" /\ done'[s] = need[s]
                                         THEN "completed" ELSE @]
    BY <1>4 DEF Contract!RecordPartition, phase, need, done, DoneOf
  <2>2. CASE s = r
    BY <1>1, <1>2, <2>1, <2>2 DEF Adds
  <2>3. CASE s # r
    BY <1>1, <1>2, <2>1, <2>3 DEF Keeps, Same
  <2> QED
    BY <2>2, <2>3
<1>5. ASSUME NEW s \in Roots, Contract!CompleteSimple(s) \/ Contract!Fail(s)
      PROVE  Goal
  <2>1. /\ phase[s] = "open" /\ need' = need /\ done' = done
        /\ \/ phase' = [phase EXCEPT ![s] = "completed"] /\ need[s] = {}
           \/ phase' = [phase EXCEPT ![s] = "failed"]
    BY <1>5 DEF Contract!CompleteSimple, Contract!Fail, phase, need, done, DoneOf
  <2>2. CASE s = r
    BY <1>1, <1>2, <2>1, <2>2 DEF Adds
  <2>3. CASE s # r
    BY <1>1, <1>2, <2>1, <2>3 DEF Keeps, Same
  <2> QED
    BY <2>2, <2>3
<1>6. ASSUME NEW cleared \in SUBSET Roots, Contract!Remove(cleared)
      PROVE  Goal
  <2>1. /\ \A s \in cleared : phase[s] # "none"
        /\ phase' = [s \in Roots |-> IF s \in cleared THEN "removed" ELSE phase[s]]
        /\ done'  = [s \in Roots |-> IF s \in cleared THEN {} ELSE done[s]]
        /\ need' = need
    BY <1>6 DEF Contract!Remove, phase, need, done, DoneOf
  <2>2. CASE r \in cleared
    BY <1>1, <2>1, <2>2 DEF Goes
  <2>3. CASE r \notin cleared
    BY <1>1, <2>1, <2>3 DEF Keeps, Same
  <2> QED
    BY <2>2, <2>3
<1>7. ASSUME UNCHANGED Contract!vars
      PROVE  Goal
  <2>1. phase' = phase /\ need' = need /\ done' = done
    BY <1>7 DEF Contract!vars, phase, need, done, DoneOf
  <2> QED
    BY <1>1, <2>1 DEF Keeps, Same
<1> HIDE DEF Goal
<1>8. Goal
  BY <1>3, <1>4, <1>5, <1>6, <1>7, ContractStep DEF Contract!Next
<1> QED
  BY <1>8 DEF Goal

(* What the reads of a job are taken of, and how that shows its phase.      *)
Shown(r) ==
    /\ ChildRows(r) # {} => ChildRows(r) = PartitionIds(r)
    /\ {j \in ChildRows(r) : jobs[j].status = "COMPLETED"} = {<<r, i>> : i \in DoneOf(r)}
    /\ PhaseOf(r) \in {"none", "removed"} =>
          ChildRows(r) = {} /\ jobs[<<r, 0>>].status = "ABSENT"
    /\ jobs[<<r, 0>>].status = "COMPLETED" => PhaseOf(r) = "completed"
    /\ DoneOf(r) \subseteq Partitions(r)
    /\ IsFiniteSet(PartitionIds(r))
    /\ Cardinality(PartitionIds(r)) = Cardinality(Partitions(r))

LEMMA ShownFacts ==
    ASSUME ContractInv, NEW r \in Roots
    PROVE  Shown(r)
<1>1. ChildRows(r) # {} => ChildRows(r) = PartitionIds(r) /\ jobs[<<r, 0>>].status # "ABSENT"
  BY DEF ContractInv, FamilyInv, FamilyOK
<1>2. {j \in ChildRows(r) : jobs[j].status = "COMPLETED"} = {<<r, i>> : i \in DoneOf(r)}
  <2>1. ASSUME NEW j \in ChildRows(r), jobs[j].status = "COMPLETED"
        PROVE  \E i \in DoneOf(r) : j = <<r, i>>
    <3>1. j \in JobIds /\ j[1] = r /\ j[2] > 0
      BY DEF ChildRows, IsPartition
    <3>2. j = <<r, j[2]>> /\ j[2] \in 1..MaxPartitions
      BY <3>1, JobIdFacts, MaxPartitionsAssumption
    <3> QED
      BY <2>1, <3>2 DEF DoneOf
  <2>2. ASSUME NEW i \in DoneOf(r)
        PROVE  <<r, i>> \in ChildRows(r) /\ jobs[<<r, i>>].status = "COMPLETED"
    <3>1. i \in 1..MaxPartitions /\ jobs[<<r, i>>].status = "COMPLETED"
      BY DEF DoneOf
    <3>2. <<r, i>> \in JobIds /\ i > 0
      BY <3>1, MaxPartitionsAssumption DEF JobIds
    <3> QED
      BY <3>1, <3>2 DEF ChildRows, IsPartition, Present
  <2> QED
    BY <2>1, <2>2
<1>3. PhaseOf(r) \in {"none", "removed"} => jobs[<<r, 0>>].status = "ABSENT"
  <2> SUFFICES ASSUME jobs[<<r, 0>>].status # "ABSENT"
               PROVE  PhaseOf(r) \notin {"none", "removed"}
    OBVIOUS
  <2>1. input[r] # NoRequest
    BY OpenFacts
  <2> QED
    BY <2>1 DEF PhaseOf, Present
<1>4. IsFiniteSet(Partitions(r))
  <2>1. Partitions(r) \subseteq 1..MaxPartitions
    BY PhaseFacts
  <2>2. IsFiniteSet(1..MaxPartitions)
    BY FS_Interval, MaxPartitionsAssumption
  <2> QED
    BY <2>1, <2>2, FS_Subset
<1>5. /\ IsFiniteSet(PartitionIds(r))
      /\ Cardinality(PartitionIds(r)) = Cardinality(Partitions(r))
  <2> DEFINE name == [i \in Partitions(r) |-> <<r, i>>]
  <2>1. name \in Bijection(Partitions(r), PartitionIds(r))
    <3>1. name \in [Partitions(r) -> PartitionIds(r)]
      BY DEF PartitionIds
    <3>2. \A i, k \in Partitions(r) : name[i] = name[k] => i = k
      OBVIOUS
    <3>3. \A j \in PartitionIds(r) : \E i \in Partitions(r) : name[i] = j
      BY DEF PartitionIds
    <3> HIDE DEF name
    <3> QED
      BY <3>1, <3>2, <3>3, Fun_IsBij
  <2>2. ExistsBijection(Partitions(r), PartitionIds(r))
    BY <2>1, Fun_ExistsBij
  <2> QED
    BY <1>4, <2>2, FS_Bijection
<1>6. jobs[<<r, 0>>].status = "COMPLETED" => PhaseOf(r) = "completed"
  <2> SUFFICES ASSUME jobs[<<r, 0>>].status = "COMPLETED" PROVE PhaseOf(r) = "completed"
    OBVIOUS
  <2>1. input[r] # NoRequest
    BY OpenFacts
  <2> QED
    BY <2>1 DEF PhaseOf, Present
<1> QED
  BY <1>1, <1>2, <1>3, <1>5, <1>6, PhaseFacts DEF Shown

(* A completed integration was recorded in full.                            *)
ReadInv == /\ ContractInv
           /\ \A r \in Roots : Shown(r) /\ (PhaseOf(r) = "completed" => DoneOf(r) = Partitions(r))

LEMMA ReadAlways == Spec => []ReadInv
<1> DEFINE Whole == \A r \in Roots : PhaseOf(r) = "completed" => DoneOf(r) = Partitions(r)
           AllShown == \A r \in Roots : Shown(r)
<1>1. Init => Whole
  <2> SUFFICES ASSUME Init, NEW r \in Roots PROVE PhaseOf(r) = "none"
    OBVIOUS
  <2> QED
    BY MaxPartitionsAssumption DEF Init, InitTable, NoRow, JobIds, PhaseOf, Present
<1>2. ContractInv => AllShown
  BY ShownFacts
<1>3. ContractInv /\ AllShown' /\ Whole /\ [Next]_vars => Whole'
  <2> SUFFICES ASSUME ContractInv, AllShown', Whole, [Next]_vars, NEW r \in Roots,
                      PhaseOf(r)' = "completed"
               PROVE  DoneOf(r)' = Partitions(r)'
    OBVIOUS
  <2>1. DoneOf(r)' \subseteq Partitions(r)'
    BY DEF Shown
  <2> QED
    BY <2>1, ContractMoves DEF Keeps, Same, Opens, Adds, Goes
<1>4. ContractInv /\ AllShown /\ Whole => ReadInv
  BY DEF ReadInv
<1> HIDE DEF Whole, AllShown
<1> QED
  BY <1>1, <1>2, <1>3, <1>4, ContractAlways, PTL DEF Spec

(* A client that polls a job never sees another number of partitions, nor   *)
(* fewer of them completed, whatever is retried, reset or fanned out again. *)
THEOREM ProgressOnlyGrows == Spec => ProgressNeverGoesBack
<1> DEFINE Grows(r) ==
      LET progress == get_job_progress(r) IN
      progress.total # 0 /\ progress.total' # 0 =>
          /\ progress.total' = progress.total
          /\ progress.completed' >= progress.completed
<1>1. ASSUME ReadInv, ReadInv', [Next]_vars, NEW r \in Roots
      PROVE  Grows(r)
  <2> DEFINE total     == Cardinality(ChildRows(r))
             completed == Cardinality({<<r, i>> : i \in DoneOf(r)})
  <2>1. Shown(r) /\ Shown(r)' /\ ContractInv
    BY <1>1 DEF ReadInv
  <2>2. /\ get_job_progress(r).total = total
        /\ get_job_progress(r).completed = completed
    BY <2>1 DEF get_job_progress, Count, Shown
  <2>3. /\ get_job_progress(r).total' = total'
        /\ get_job_progress(r).completed' = completed'
    BY <2>1 DEF get_job_progress, Count, Shown
  <2>4. SUFFICES ASSUME total # 0, total' # 0
                 PROVE  total' = total /\ completed' >= completed
    BY <2>2, <2>3
  <2>5. ChildRows(r) = PartitionIds(r) /\ ChildRows(r)' = PartitionIds(r)'
    BY <2>1, <2>4, FS_EmptySet DEF Shown
  <2>6. Partitions(r)' = Partitions(r) /\ DoneOf(r) \subseteq DoneOf(r)'
    BY <1>1, <2>1, <2>4, FS_EmptySet, ContractMoves DEF Keeps, Same, Opens, Adds, Goes, Shown
  <2>7. total' = total
    BY <2>5, <2>6 DEF PartitionIds
  <2>8. {<<r, i>> : i \in DoneOf(r)} \subseteq {<<r, i>> : i \in DoneOf(r)'}
    BY <2>6
  <2>9. {<<r, i>> : i \in DoneOf(r)'} \subseteq PartitionIds(r)' /\ IsFiniteSet(PartitionIds(r)')
    BY <2>1 DEF Shown, PartitionIds
  <2>10. IsFiniteSet({<<r, i>> : i \in DoneOf(r)'})
    BY <2>9, FS_Subset
  <2>11. completed <= completed' /\ completed \in Nat /\ completed' \in Nat
    BY <2>8, <2>10, FS_Subset, FS_CardinalityType
  <2> QED
    BY <2>7, <2>11
<1>2. ReadInv /\ ReadInv' /\ [Next]_vars => \A r \in Roots : Grows(r)
  BY <1>1
<1>3. ReadInv /\ ReadInv' /\ [Next]_vars =>
         [\A r \in Roots :
            LET progress == get_job_progress(r) IN
            progress.total # 0 /\ progress.total' # 0 =>
                /\ progress.total' = progress.total
                /\ progress.completed' >= progress.completed]_vars
  BY <1>2
<1> QED
  BY <1>3, ReadAlways, PTL DEF Spec, ProgressNeverGoesBack

(* Although GET /jobs/{id} reads the row and the progress apart, with a     *)
(* COMPLETED integration it shows every partition completed, unless the job *)
(* was cleared in between.                                                  *)
THEOREM CompletedIsShownWhole == Spec => CompletedShowsEveryPartition
<1> DEFINE Done(r)    == /\ PhaseOf(r) \in {"completed", "removed"}
                         /\ PhaseOf(r) = "completed" => DoneOf(r) = Partitions(r)
           Asked(r)   == get_job_by_id(<<r, 0>>).status = "COMPLETED" /\ Partitions(r) # {}
<1>1. ASSUME NEW r \in Roots
      PROVE  ReadInv /\ Asked(r) => Done(r)
  BY DEF ReadInv, Shown, get_job_by_id
<1>2. ASSUME NEW r \in Roots
      PROVE  ReadInv /\ ReadInv' /\ [Next]_vars /\ Done(r) => Done(r)'
  BY ContractMoves DEF ReadInv, Keeps, Same, Opens, Adds, Goes
<1>3. ASSUME NEW r \in Roots
      PROVE  ReadInv /\ Done(r) => ShowsEveryPartition(r)
  <2> SUFFICES ASSUME ReadInv, Done(r)
               PROVE  ShowsEveryPartition(r)
    OBVIOUS
  <2>1. Shown(r)
    BY DEF ReadInv
  <2>2. CASE PhaseOf(r) = "removed"
    BY <2>1, <2>2, FS_EmptySet
    DEF ShowsEveryPartition, get_job_progress, get_job_by_id, Shown
  <2>3. CASE PhaseOf(r) = "completed"
    <3>1. {j \in ChildRows(r) : jobs[j].status = "COMPLETED"} = PartitionIds(r)
      BY <2>1, <2>3 DEF Shown, PartitionIds
    <3>2. Cardinality(PartitionIds(r)) = Cardinality(Partitions(r))
      BY <2>1 DEF Shown
    <3> QED
      BY <3>1, <3>2 DEF ShowsEveryPartition, get_job_progress, Count
  <2> QED
    BY <2>2, <2>3
<1> HIDE DEF Done, Asked
<1>4. ASSUME NEW r \in Roots
      PROVE  Spec => [](Asked(r) => []ShowsEveryPartition(r))
  BY <1>1, <1>2, <1>3, ReadAlways, PTL DEF Spec
<1>5. Spec => \A r \in Roots : [](Asked(r) => []ShowsEveryPartition(r))
  BY <1>4
<1> QED
  BY <1>5 DEF CompletedShowsEveryPartition, Asked

=============================================================================
