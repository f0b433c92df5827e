--------------------- MODULE PartitionTransaction_proofs ---------------------
(***************************************************************************)
(* The row locks do what the rest of the project takes for granted, for    *)
(* any jobs, workers, budgets and faults: the partition transaction, taken *)
(* statement by statement, is the atomic step of PostgresWorkers, and      *)
(* every cycle of waits has the DELETE of clear_jobs in it.                *)
(***************************************************************************)
EXTENDS PartitionTransaction, PostgresOutcomes_proofs

-----------------------------------------------------------------------------
(* What holds between the statements of a transaction.                      *)

Holding == {"child", "cancel", "aggregate", "commit"}

Siblings(a) == {k \in JobIds : k[1] = job[a][1] /\ IsPartition(k) /\ k # job[a]}

(* A transaction is a running agent's, for its partition, and what it waits *)
(* for and holds is of that partition's family.                             *)
StageOK(a) ==
    /\ stage[a] # "delete"
    /\ stage[a] # "none" => pc[a] = "running" /\ IsPartition(job[a])
    /\ stage[a] \in {"none", "commit"} => want[a] = NoJob
    /\ stage[a] = "parent" => want[a] = Parent(job[a])
    /\ stage[a] = "child"  => want[a] = job[a]
    /\ stage[a] \in {"cancel", "aggregate"} =>
          todo[a] \subseteq Siblings(a) /\ want[a] \in todo[a] \cup {NoJob}
    /\ \A j \in JobIds : holder[j] = a => stage[a] \in Holding /\ j[1] = job[a][1]

(* From its parent's row on it holds that row, and neither row is cleared:  *)
(* the status it read there is still so.                                    *)
ParentHeld(a) ==
    /\ stage[a] = "parent" /\ Present(Parent(job[a])) => Present(job[a])
    /\ stage[a] \in Holding =>
          /\ holder[Parent(job[a])] = a
          /\ Present(Parent(job[a])) /\ Present(job[a])
          /\ parentSeen[a] = jobs[Parent(job[a])].status

(* The siblings that were PENDING when the cancelling UPDATE began, and     *)
(* still are, are those it has locked and those it has yet to look at; only *)
(* a reset makes one PENDING that it does not know of.                      *)
CancelOK(a) ==
    /\ stage[a] # "cancel" => cancelled[a] = {}
    /\ stage[a] = "cancel" =>
          /\ Update(a).status = "FAILED" /\ parentSeen[a] = "RUNNING"
          /\ \A k \in cancelled[a] : holder[k] = a /\ k \in PendingSiblings(Update(a))
          /\ \A k \in PendingSiblings(Update(a)) :
                k \in cancelled[a] \/ k \in todo[a] \/ jobs[k].error = "save_failed"

BranchOK(a) ==
    /\ stage[a] = "commit"    => Update(a).status = "PENDING" \/ parentSeen[a] # "RUNNING"
    /\ stage[a] = "aggregate" => Update(a).status = "COMPLETED" /\ parentSeen[a] = "RUNNING"

AgentOK(a) == StageOK(a) /\ ParentHeld(a) /\ CancelOK(a) /\ BranchOK(a)

(* The DELETE only takes rows of the roots in its snapshot.                 *)
ClearerOK ==
    /\ stage[Clearer] \in {"none", "delete"}
    /\ stage[Clearer] = "none" => want[Clearer] = NoJob
    /\ stage[Clearer] = "delete" =>
          /\ \A j \in todo[Clearer] : j[1] \in doomed
          /\ want[Clearer] \in todo[Clearer] \cup {NoJob}
    /\ \A j \in JobIds : holder[j] = Clearer => stage[Clearer] = "delete" /\ j[1] \in doomed

LockInv == TxTypeOK /\ (\A a \in Agents : AgentOK(a)) /\ ClearerOK

TxInv == FamilyInv /\ LockInv

LEMMA TxFacts ==
    /\ Clearer \notin Agents /\ Nobody \notin Txs /\ Clearer # Nobody
    /\ Clearer \in Txs /\ Agents \subseteq Txs
  BY ClearerAssumption DEF Txs

(* A running transaction's job and its parent are rows; both are posted.    *)
LEMMA TxJob ==
    ASSUME TxInv, NEW a \in Agents, stage[a] # "none"
    PROVE  /\ pc[a] = "running" /\ IsPartition(job[a])
           /\ job[a] \in JobIds /\ Parent(job[a]) \in JobIds
           /\ Parent(job[a])[1] = job[a][1] /\ Parent(job[a]) # job[a]
           /\ input[job[a][1]] # NoRequest /\ Update(a).id = job[a]
<1>1. pc[a] = "running" /\ IsPartition(job[a]) /\ pc[a] # "idle"
  BY DEF TxInv, LockInv, AgentOK, StageOK
<1>2. job[a] \in JobIds /\ input[job[a][1]] # NoRequest
  BY <1>1 DEF TxInv, FamilyInv, TypeInv, TypeOK, ClaimsPosted, Posted
<1>3. Update(a).id = job[a]
  BY DEF Update
<1>4. Parent(job[a])[1] = job[a][1]
  BY DEF Parent
<1> QED
  BY <1>1, <1>2, <1>3, <1>4, JobIdFacts, ParentFacts

(* Two transactions past their parents' rows are of different families.     *)
LEMMA OnePerFamily ==
    ASSUME TxInv, NEW a \in Agents, NEW b \in Agents,
           stage[a] \in Holding, stage[b] \in Holding, job[a][1] = job[b][1]
    PROVE  a = b
<1>1. holder[Parent(job[a])] = a /\ holder[Parent(job[b])] = b
  BY DEF TxInv, LockInv, AgentOK, ParentHeld
<1>2. Parent(job[a]) = Parent(job[b])
  BY DEF Parent
<1> QED
  BY <1>1, <1>2

-----------------------------------------------------------------------------
(* What a step does to a transaction that does not take it.                 *)

(* Its own statements stand still, and so do the rows it has locked.        *)
StandsStill(t) ==
    /\ stage'[t] = stage[t] /\ want'[t] = want[t] /\ todo'[t] = todo[t]
    /\ t \in Agents => parentSeen'[t] = parentSeen[t] /\ cancelled'[t] = cancelled[t]
    /\ \A j \in JobIds : holder'[j] = t <=> holder[j] = t

(* Of the rows of its family that it has not locked, some may be claimed or *)
(* reset, as long as it holds the parent's.                                 *)
ClaimedOrReset(j) ==
    \/ jobs[j].status = "PENDING" /\ jobs'[j].status = "RUNNING"
    \/ /\ jobs[j].status = "RUNNING" /\ jobs'[j].status = "PENDING"
       /\ jobs'[j].error = "save_failed"

FamilyMoves(a) ==
    /\ pc'[a] = pc[a] /\ job'[a] = job[a] /\ seen'[a] = seen[a]
    /\ input'[job[a][1]] = input[job[a][1]]
    /\ stage[a] = "parent" =>
          (jobs'[Parent(job[a])].status # "ABSENT" =>
              /\ jobs[Parent(job[a])].status # "ABSENT"
              /\ jobs[job[a]].status # "ABSENT" => jobs'[job[a]].status # "ABSENT")
    /\ stage[a] \in Holding =>
          \A j \in JobIds : j[1] = job[a][1] =>
              jobs'[j] = jobs[j] \/ (holder[j] # a /\ ClaimedOrReset(j))

(* What an agent will write depends on its claim and its job's input only.  *)
LEMMA SameUpdate ==
    ASSUME NEW a \in Agents, job'[a] = job[a], seen'[a] = seen[a],
           input'[job[a][1]] = input[job[a][1]]
    PROVE  Update(a)' = Update(a)
  BY DEF Update, Outcome, IsPartition, Budget

(* It keeps what is said of it.                                             *)
LEMMA StillOK ==
    ASSUME TxInv, NEW a \in Agents, StandsStill(a), stage[a] # "none" => FamilyMoves(a)
    PROVE  AgentOK(a)'
<1>1. CASE stage[a] = "none"
  <2>1. /\ stage'[a] = "none" /\ want'[a] = NoJob /\ cancelled'[a] = {}
        /\ \A j \in JobIds : holder'[j] # a
    BY <1>1 DEF TxInv, LockInv, AgentOK, StageOK, CancelOK, StandsStill, Holding
  <2> QED
    BY <2>1 DEF AgentOK, StageOK, ParentHeld, CancelOK, BranchOK, Holding
<1>2. CASE stage[a] # "none"
  <2>1. /\ StageOK(a) /\ ParentHeld(a) /\ CancelOK(a) /\ BranchOK(a)
        /\ FamilyMoves(a) /\ job'[a] = job[a] /\ pc'[a] = pc[a]
        /\ stage'[a] = stage[a] /\ want'[a] = want[a] /\ todo'[a] = todo[a]
        /\ parentSeen'[a] = parentSeen[a] /\ cancelled'[a] = cancelled[a]
        /\ \A j \in JobIds : holder'[j] = a <=> holder[j] = a
    BY <1>2 DEF TxInv, LockInv, AgentOK, FamilyMoves, StandsStill
  <2>2. Update(a)' = Update(a)
    BY <1>2, <2>1, SameUpdate DEF FamilyMoves
  <2>3. /\ job[a] \in JobIds /\ Parent(job[a]) \in JobIds
        /\ Parent(job[a])[1] = job[a][1] /\ Update(a).id = job[a]
    BY <1>2, TxJob
  <2>4. /\ Siblings(a)' = Siblings(a) /\ Parent(job[a])' = Parent(job[a])
        /\ IsPartition(job[a])' = IsPartition(job[a])
    BY <2>1 DEF Siblings, IsPartition, Parent
  <2>5. StageOK(a)'
    BY <2>1, <2>4 DEF StageOK
  <2>6. ASSUME stage[a] \in Holding, NEW j \in JobIds, j[1] = job[a][1]
        PROVE  /\ Present(j)' <=> Present(j)
               /\ holder[j] = a => jobs'[j] = jobs[j]
    BY <2>1, <2>6 DEF FamilyMoves, ClaimedOrReset, Present
  <2>7. ParentHeld(a)'
    <3>1. CASE stage[a] \in Holding
      <4>1. jobs'[Parent(job[a])] = jobs[Parent(job[a])]
        BY <2>1, <2>3, <2>6, <3>1 DEF ParentHeld
      <4>2. Present(job[a])' <=> Present(job[a])
        BY <2>1, <2>3, <2>6, <3>1 DEF Present
      <4> QED
        BY <2>1, <2>3, <2>4, <3>1, <4>1, <4>2 DEF ParentHeld, Present, Holding
    <3>2. CASE stage[a] \notin Holding
      BY <2>1, <2>3, <2>4, <3>2 DEF ParentHeld, FamilyMoves, Present
    <3> QED
      BY <3>1, <3>2
  <2>8. CancelOK(a)'
    <3>1. CASE stage[a] # "cancel"
      BY <2>1, <3>1 DEF CancelOK
    <3>2. CASE stage[a] = "cancel"
      <4> DEFINE u == Update(a)
      <4>1. \A k \in JobIds :
               k \in PendingSiblings(u) <=>
                  k[1] = job[a][1] /\ IsPartition(k) /\ k # job[a] /\ jobs[k].status = "PENDING"
        BY <2>3 DEF PendingSiblings, ChildRows, Present
      <4>2. \A k \in JobIds :
               k \in PendingSiblings(u)' <=>
                  k[1] = job[a][1] /\ IsPartition(k) /\ k # job[a] /\ jobs'[k].status = "PENDING"
        BY <2>2, <2>3 DEF PendingSiblings, ChildRows, Present, IsPartition
      <4>3. PendingSiblings(u) \subseteq JobIds /\ PendingSiblings(u)' \subseteq JobIds
        BY DEF PendingSiblings, ChildRows
      <4>4. \A k \in cancelled[a] : k \in JobIds /\ holder[k] = a /\ jobs'[k] = jobs[k]
        BY <2>1, <2>6, <3>2, <4>1, <4>3 DEF CancelOK, Holding
      <4>5. \A k \in cancelled'[a] : holder'[k] = a /\ k \in PendingSiblings(u)'
        BY <2>1, <3>2, <4>1, <4>2, <4>3, <4>4 DEF CancelOK
      <4>6. ASSUME NEW k \in PendingSiblings(u)'
            PROVE  k \in cancelled'[a] \/ k \in todo'[a] \/ jobs'[k].error = "save_failed"
        <5>1. /\ k \in JobIds /\ k[1] = job[a][1] /\ IsPartition(k) /\ k # job[a]
              /\ jobs'[k].status = "PENDING"
          BY <4>2, <4>3, <4>6
        <5>2. CASE jobs'[k] = jobs[k]
          BY <2>1, <3>2, <4>1, <5>1, <5>2 DEF CancelOK
        <5>3. CASE ClaimedOrReset(k)
          BY <5>1, <5>3 DEF ClaimedOrReset
        <5> QED
          BY <2>1, <3>2, <5>1, <5>2, <5>3 DEF FamilyMoves, Holding
      <4> HIDE DEF u
      <4>7. u' = u
        BY <2>2 DEF u
      <4>8. u.status = "FAILED" /\ parentSeen[a] = "RUNNING"
        BY <2>1, <3>2 DEF CancelOK, u
      <4>9. /\ Update(a)'.status = "FAILED" /\ parentSeen'[a] = "RUNNING"
            /\ \A k \in cancelled'[a] : holder'[k] = a /\ k \in PendingSiblings(Update(a))'
            /\ \A k \in PendingSiblings(Update(a))' :
                  k \in cancelled'[a] \/ k \in todo'[a] \/ jobs'[k].error = "save_failed"
        BY <2>1, <4>5, <4>6, <4>7, <4>8 DEF u
      <4> QED
        BY <2>1, <3>2, <4>9 DEF CancelOK
    <3> QED
      BY <3>1, <3>2
  <2>9. BranchOK(a)'
    BY <2>1, <2>2 DEF BranchOK
  <2> QED
    BY <2>5, <2>7, <2>8, <2>9 DEF AgentOK
<1> QED
  BY <1>1, <1>2

(* The DELETE stands still while its snapshot does.                         *)
LEMMA ClearerStill ==
    ASSUME TxInv, StandsStill(Clearer), doomed' = doomed
    PROVE  ClearerOK'
  BY DEF TxInv, LockInv, ClearerOK, StandsStill

(* It is enough to look at the transaction that takes the step.             *)
LEMMA OneActs ==
    ASSUME TxInv, NEW t \in Txs, TxTypeOK',
           \A b \in Txs \ {t} : StandsStill(b),
           \A b \in Agents \ {t} : stage[b] # "none" => FamilyMoves(b),
           t \in Agents => AgentOK(t)' /\ doomed' = doomed,
           t = Clearer => ClearerOK'
    PROVE  LockInv'
<1>1. ASSUME NEW a \in Agents
      PROVE  AgentOK(a)'
  <2>1. CASE a = t
    BY <2>1
  <2>2. CASE a # t
    BY <2>2, TxFacts, StillOK
  <2> QED
    BY <2>1, <2>2
<1>2. ClearerOK'
  <2>1. CASE t = Clearer
    BY <2>1
  <2>2. CASE t # Clearer
    BY <2>2, TxFacts, ClearerStill DEF Txs
  <2> QED
    BY <2>1, <2>2
<1> QED
  BY <1>1, <1>2 DEF LockInv

(* Statements that only lock move no family.                                *)
LEMMA TableStill ==
    ASSUME UNCHANGED <<jobs, input, pc, job, seen>>, NEW a \in Agents
    PROVE  FamilyMoves(a)
  BY DEF FamilyMoves

LEMMA Locks ==
    ASSUME TxInv, NEW t \in Txs, want[t] \in JobIds, Lock(t)
    PROVE  /\ holder' \in [JobIds -> Txs \cup {Nobody}]
           /\ holder'[want[t]] = t
           /\ \A j \in JobIds : holder'[j] = t <=> holder[j] = t \/ j = want[t]
           /\ \A b \in Txs \ {t}, j \in JobIds : holder'[j] = b <=> holder[j] = b
<1>1. /\ holder \in [JobIds -> Txs \cup {Nobody}]
      /\ holder[want[t]] = Nobody \/ holder[want[t]] = t
      /\ holder' = [holder EXCEPT ![want[t]] = t]
  BY DEF TxInv, LockInv, TxTypeOK, Lock, Free
<1> QED
  BY <1>1, TxFacts

-----------------------------------------------------------------------------
(* The statements of a partition's transaction.                             *)

LEMMA BeginSaveKeeps ==
    ASSUME TxInv, NEW a \in Agents, BeginSave(a)
    PROVE  LockInv'
<1>1. /\ pc[a] = "running" /\ pc[a] # "idle" /\ IsPartition(job[a]) /\ stage[a] = "none"
      /\ Present(job[a])
      /\ stage' = [stage EXCEPT ![a] = "parent"]
      /\ want'  = [want EXCEPT ![a] = Parent(job[a])]
      /\ todo' = todo /\ parentSeen' = parentSeen /\ cancelled' = cancelled
      /\ holder' = holder
      /\ UNCHANGED <<jobs, input, pc, job, seen>> /\ doomed' = doomed
  BY DEF BeginSave, Running, vars, tableVars, agentVars
<1>2. job[a] \in JobIds /\ Parent(job[a]) \in JobIds
  BY <1>1, JobIdFacts DEF TxInv, FamilyInv, TypeInv, TypeOK
<1>3. TxTypeOK /\ AgentOK(a) /\ a \in Txs
  BY TxFacts DEF TxInv, LockInv
<1>4. TxTypeOK'
  BY <1>1, <1>2, <1>3 DEF TxTypeOK, Stages
<1>5. \A b \in Txs \ {a} : StandsStill(b)
  BY <1>1, <1>3 DEF TxTypeOK, StandsStill
<1>6. stage'[a] = "parent" /\ want'[a] = Parent(job[a])
  BY <1>1, <1>3 DEF TxTypeOK
<1>7. StageOK(a)'
  BY <1>1, <1>3, <1>6 DEF AgentOK, StageOK, Holding, IsPartition, Parent
<1>8. ParentHeld(a)' /\ CancelOK(a)' /\ BranchOK(a)'
  BY <1>1, <1>3, <1>6
  DEF AgentOK, ParentHeld, CancelOK, BranchOK, Holding, IsPartition, Parent, Present
<1> QED
  BY <1>1, <1>3, <1>4, <1>5, <1>7, <1>8, TableStill, TxFacts, OneActs DEF AgentOK

LEMMA LockParentKeeps ==
    ASSUME TxInv, NEW a \in Agents, LockParent(a)
    PROVE  LockInv'
<1>1. /\ stage[a] = "parent" /\ jobs[want[a]].status # "ABSENT" /\ Lock(a)
      /\ parentSeen' = [parentSeen EXCEPT ![a] = jobs[want[a]].status]
      /\ stage' = [stage EXCEPT ![a] = "child"]
      /\ want'  = [want EXCEPT ![a] = job[a]]
      /\ todo' = todo /\ cancelled' = cancelled
      /\ UNCHANGED <<jobs, input, pc, job, seen>> /\ doomed' = doomed
  BY DEF LockParent, vars, tableVars, agentVars, Present
<1>2. TxTypeOK /\ AgentOK(a) /\ a \in Txs
  BY TxFacts DEF TxInv, LockInv
<1>3. /\ pc[a] = "running" /\ IsPartition(job[a])
      /\ job[a] \in JobIds /\ Parent(job[a]) \in JobIds /\ Parent(job[a])[1] = job[a][1]
  BY <1>1, TxJob
<1>4. want[a] = Parent(job[a])
  BY <1>1, <1>2 DEF AgentOK, StageOK
<1>5. jobs[want[a]].status \in Statuses
  BY <1>1, <1>3, <1>4 DEF TxInv, FamilyInv, TypeInv, TypeOK, Row
<1>6. /\ holder' \in [JobIds -> Txs \cup {Nobody}]
      /\ holder'[Parent(job[a])] = a
      /\ \A j \in JobIds : holder'[j] = a <=> holder[j] = a \/ j = Parent(job[a])
      /\ \A b \in Txs \ {a}, j \in JobIds : holder'[j] = b <=> holder[j] = b
  BY <1>1, <1>2, <1>3, <1>4, Locks
<1>7. TxTypeOK'
  BY <1>1, <1>2, <1>3, <1>5, <1>6 DEF TxTypeOK, Stages
<1>8. \A b \in Txs \ {a} : StandsStill(b)
  BY <1>1, <1>2, <1>6 DEF TxTypeOK, StandsStill
<1>9. /\ stage'[a] = "child" /\ want'[a] = job[a]
      /\ parentSeen'[a] = jobs[Parent(job[a])].status
  BY <1>1, <1>2, <1>4 DEF TxTypeOK
<1>10. Parent(job[a])' = Parent(job[a]) /\ job'[a] = job[a]
  BY <1>1 DEF Parent
<1>11. StageOK(a)'
  BY <1>1, <1>2, <1>3, <1>6, <1>9, <1>10 DEF AgentOK, StageOK, Holding, IsPartition
<1>12. Present(job[a]) /\ jobs[Parent(job[a])].status # "ABSENT"
  BY <1>1, <1>2, <1>4 DEF AgentOK, ParentHeld, Present
<1>13. ParentHeld(a)'
  BY <1>1, <1>6, <1>9, <1>10, <1>12 DEF ParentHeld, Present
<1>14. CancelOK(a)' /\ BranchOK(a)'
  BY <1>1, <1>2, <1>9 DEF AgentOK, CancelOK, BranchOK
<1> QED
  BY <1>1, <1>2, <1>7, <1>8, <1>11, <1>13, <1>14, TableStill, TxFacts, OneActs DEF AgentOK

LEMMA WriteChildKeeps ==
    ASSUME TxInv, NEW a \in Agents, WriteChild(a)
    PROVE  LockInv'
<1> DEFINE u    == Update(a)
           next == IF u.status = "PENDING" \/ parentSeen[a] # "RUNNING" THEN "commit"
                   ELSE IF u.status = "FAILED" THEN "cancel" ELSE "aggregate"
           rows == CASE next = "cancel"    -> PendingSiblings(u)
                     [] next = "aggregate" -> ChildRows(job[a][1]) \ {job[a]}
                     [] OTHER              -> {}
<1>1. /\ stage[a] = "child" /\ Lock(a)
      /\ stage' = [stage EXCEPT ![a] = next]
      /\ todo'  = [todo EXCEPT ![a] = rows]
      /\ want' = [want EXCEPT ![a] = NoJob]
      /\ parentSeen' = parentSeen /\ cancelled' = cancelled
      /\ UNCHANGED <<jobs, input, pc, job, seen>> /\ doomed' = doomed
  BY DEF WriteChild, vars, tableVars, agentVars
<1>2. TxTypeOK /\ AgentOK(a) /\ a \in Txs
  BY TxFacts DEF TxInv, LockInv
<1>3. /\ pc[a] = "running" /\ IsPartition(job[a]) /\ u.id = job[a]
      /\ job[a] \in JobIds /\ Parent(job[a]) \in JobIds /\ Parent(job[a])[1] = job[a][1]
  BY <1>1, TxJob
<1>4. want[a] = job[a]
  BY <1>1, <1>2 DEF AgentOK, StageOK
<1>5. /\ holder' \in [JobIds -> Txs \cup {Nobody}]
      /\ \A j \in JobIds : holder'[j] = a <=> holder[j] = a \/ j = job[a]
      /\ \A b \in Txs \ {a}, j \in JobIds : holder'[j] = b <=> holder[j] = b
  BY <1>1, <1>2, <1>3, <1>4, Locks
<1>6. u.status \in {"PENDING", "FAILED", "COMPLETED"}
  BY DEF Update
<1>7. rows \subseteq Siblings(a)
  BY <1>3 DEF PendingSiblings, ChildRows, Siblings
<1>8. /\ next \in {"commit", "cancel", "aggregate"}
      /\ next = "commit" => u.status = "PENDING" \/ parentSeen[a] # "RUNNING"
      /\ next = "cancel" => /\ u.status = "FAILED" /\ parentSeen[a] = "RUNNING"
                            /\ rows = PendingSiblings(u)
      /\ next = "aggregate" => u.status = "COMPLETED" /\ parentSeen[a] = "RUNNING"
  BY <1>6
<1>9. rows \subseteq JobIds
  BY <1>7 DEF Siblings
<1> HIDE DEF u, next, rows
<1>10. TxTypeOK'
  BY <1>1, <1>2, <1>5, <1>8, <1>9 DEF TxTypeOK, Stages
<1>11. \A b \in Txs \ {a} : StandsStill(b)
  BY <1>1, <1>2, <1>5 DEF TxTypeOK, StandsStill
<1>12. stage'[a] = next /\ want'[a] = NoJob /\ todo'[a] = rows
  BY <1>1, <1>2 DEF TxTypeOK
<1>13. /\ Siblings(a)' = Siblings(a) /\ Parent(job[a])' = Parent(job[a])
       /\ job'[a] = job[a] /\ pc'[a] = pc[a]
  BY <1>1 DEF Siblings, Parent, IsPartition
<1>14. Update(a)' = u
  BY <1>1, SameUpdate DEF u
<1>15. StageOK(a)'
  BY <1>2, <1>3, <1>1, <1>5, <1>7, <1>8, <1>12, <1>13 DEF AgentOK, StageOK, Holding, IsPartition
<1>16. ParentHeld(a)'
  BY <1>1, <1>2, <1>3, <1>5, <1>8, <1>12, <1>13 DEF AgentOK, ParentHeld, Present, Holding
<1>17. PendingSiblings(u)' = PendingSiblings(u) /\ cancelled'[a] = {}
  BY <1>1, <1>2, <1>14 DEF PendingSiblings, ChildRows, Present, IsPartition, u, AgentOK, CancelOK
<1>18. PendingSiblings(Update(a))' = rows \/ stage'[a] # "cancel"
  BY <1>8, <1>12, <1>14, <1>17 DEF u
<1>19. CancelOK(a)' /\ BranchOK(a)'
  BY <1>1, <1>8, <1>12, <1>14, <1>17, <1>18 DEF CancelOK, BranchOK
<1> QED
  BY <1>1, <1>2, <1>10, <1>11, <1>15, <1>16, <1>19, TableStill, TxFacts, OneActs DEF AgentOK

LEMMA NextRowKeeps ==
    ASSUME TxInv, NEW t \in Txs, NextRow(t)
    PROVE  LockInv'
<1>1. PICK j \in todo[t] : want' = [want EXCEPT ![t] = j]
  BY DEF NextRow
<1>2. /\ stage[t] \in {"cancel", "aggregate", "delete"}
      /\ stage' = stage /\ todo' = todo /\ parentSeen' = parentSeen /\ cancelled' = cancelled
      /\ holder' = holder
      /\ UNCHANGED <<jobs, input, pc, job, seen>> /\ doomed' = doomed
  BY DEF NextRow, vars, tableVars, agentVars
<1>3. TxTypeOK /\ ClearerOK /\ \A a \in Agents : AgentOK(a)
  BY DEF TxInv, LockInv
<1>4. j \in JobIds /\ want'[t] = j
  BY <1>1, <1>3 DEF TxTypeOK
<1>5. TxTypeOK'
  BY <1>1, <1>2, <1>3, <1>4 DEF TxTypeOK
<1>6. \A b \in Txs \ {t} : StandsStill(b)
  BY <1>1, <1>2, <1>3 DEF TxTypeOK, StandsStill
<1>7. t = Clearer => ClearerOK'
  BY <1>1, <1>2, <1>3, <1>4 DEF ClearerOK
<1>8. ASSUME t \in Agents
      PROVE  AgentOK(t)'
  <2>1. StageOK(t) /\ ParentHeld(t) /\ CancelOK(t) /\ BranchOK(t)
    BY <1>3, <1>8 DEF AgentOK
  <2>2. stage'[t] \in {"cancel", "aggregate"}
    BY <1>2, <2>1 DEF StageOK
  <2>3. /\ Siblings(t)' = Siblings(t) /\ Parent(job[t])' = Parent(job[t])
        /\ Update(t)' = Update(t) /\ PendingSiblings(Update(t))' = PendingSiblings(Update(t))
    <3>1. Update(t)' = Update(t)
      BY <1>2, <1>8, SameUpdate
    <3>2. \A v : PendingSiblings(v)' = PendingSiblings(v)
      BY <1>2 DEF PendingSiblings, ChildRows, Present, IsPartition
    <3> QED
      BY <1>2, <3>1, <3>2 DEF Siblings, Parent, IsPartition, PendingSiblings, ChildRows, Present
  <2>4. StageOK(t)'
    BY <1>1, <1>2, <1>4, <2>1, <2>2, <2>3 DEF StageOK, IsPartition
  <2>5. ParentHeld(t)' /\ CancelOK(t)' /\ BranchOK(t)'
    BY <1>2, <2>1, <2>2, <2>3 DEF ParentHeld, CancelOK, BranchOK, Present
  <2> QED
    BY <2>4, <2>5 DEF AgentOK
<1> QED
  BY <1>2, <1>5, <1>6, <1>7, <1>8, TableStill, TxFacts, OneActs

LEMMA LockRowKeeps ==
    ASSUME TxInv, NEW t \in Txs, LockRow(t)
    PROVE  LockInv'
<1>1. /\ stage[t] \in {"cancel", "aggregate", "delete"} /\ want[t] # NoJob /\ Lock(t)
      /\ todo' = [todo EXCEPT ![t] = @ \ {want[t]}]
      /\ want' = [want EXCEPT ![t] = NoJob]
      /\ \/ /\ stage[t] = "cancel" /\ jobs[want[t]].status = "PENDING"
            /\ cancelled' = [cancelled EXCEPT ![t] = @ \cup {want[t]}]
         \/ /\ stage[t] # "cancel" \/ jobs[want[t]].status # "PENDING"
            /\ cancelled' = cancelled
      /\ stage' = stage /\ parentSeen' = parentSeen
      /\ UNCHANGED <<jobs, input, pc, job, seen>> /\ doomed' = doomed
  BY DEF LockRow, vars, tableVars, agentVars
<1>2. TxTypeOK /\ ClearerOK /\ \A a \in Agents : AgentOK(a)
  BY DEF TxInv, LockInv
<1>3. want[t] \in JobIds
  BY <1>1, <1>2 DEF TxTypeOK
<1>4. /\ holder' \in [JobIds -> Txs \cup {Nobody}]
      /\ holder'[want[t]] = t
      /\ \A j \in JobIds : holder'[j] = t <=> holder[j] = t \/ j = want[t]
      /\ \A b \in Txs \ {t}, j \in JobIds : holder'[j] = b <=> holder[j] = b
  BY <1>1, <1>3, Locks
<1>5. /\ todo'[t] = todo[t] \ {want[t]} /\ want'[t] = NoJob /\ stage'[t] = stage[t]
      /\ t \in Agents => cancelled'[t] = IF stage[t] = "cancel" /\ jobs[want[t]].status = "PENDING"
                                         THEN cancelled[t] \cup {want[t]} ELSE cancelled[t]
  BY <1>1, <1>2 DEF TxTypeOK
<1>6. TxTypeOK'
  <2>1. cancelled' \in [Agents -> SUBSET JobIds]
    BY <1>1, <1>2, <1>3 DEF TxTypeOK
  <2> QED
    BY <1>1, <1>2, <1>4, <2>1 DEF TxTypeOK
<1>7. \A b \in Txs \ {t} : StandsStill(b)
  BY <1>1, <1>2, <1>4 DEF TxTypeOK, StandsStill
<1>8. t = Clearer => ClearerOK'
  BY <1>1, <1>2, <1>3, <1>4, <1>5 DEF ClearerOK
<1>9. ASSUME t \in Agents
      PROVE  AgentOK(t)'
  <2>1. StageOK(t) /\ ParentHeld(t) /\ CancelOK(t) /\ BranchOK(t)
    BY <1>2, <1>9 DEF AgentOK
  <2>2. stage[t] \in {"cancel", "aggregate"} /\ want[t] \in todo[t] /\ want[t] \in Siblings(t)
    BY <1>1, <2>1 DEF StageOK
  <2>3. /\ Siblings(t)' = Siblings(t) /\ Parent(job[t])' = Parent(job[t])
        /\ Update(t)' = Update(t) /\ PendingSiblings(Update(t))' = PendingSiblings(Update(t))
    <3>1. Update(t)' = Update(t)
      BY <1>1, <1>9, SameUpdate
    <3> QED
      BY <1>1, <3>1 DEF Siblings, Parent, IsPartition, PendingSiblings, ChildRows, Present
  <2>4. /\ job[t] \in JobIds /\ Parent(job[t]) \in JobIds /\ Update(t).id = job[t]
    BY <2>2, <1>9, TxJob
  <2>5. StageOK(t)'
    <3>1. want[t][1] = job[t][1]
      BY <2>2 DEF Siblings
    <3> QED
      BY <1>1, <1>4, <1>5, <2>1, <2>2, <2>3, <3>1 DEF StageOK, IsPartition, Holding
  <2>6. ParentHeld(t)' /\ BranchOK(t)'
    BY <1>1, <1>4, <2>1, <2>3, <2>4 DEF ParentHeld, BranchOK, Present
  <2>7. jobs[want[t]].status = "PENDING" => want[t] \in PendingSiblings(Update(t))
    BY <2>2, <2>4 DEF Siblings, PendingSiblings, ChildRows, Present
  <2>8. \A k \in PendingSiblings(Update(t)) : k \in JobIds /\ jobs[k].status = "PENDING"
    BY DEF PendingSiblings, ChildRows
  <2>9. CancelOK(t)'
    <3>1. CASE stage[t] # "cancel"
      BY <1>1, <1>5, <2>1, <3>1, <1>9 DEF CancelOK
    <3>2. CASE stage[t] = "cancel"
      <4>1. \A k \in cancelled'[t] : holder'[k] = t /\ k \in PendingSiblings(Update(t))
        BY <1>4, <1>5, <1>9, <2>1, <2>7, <2>8, <3>2 DEF CancelOK
      <4>2. \A k \in PendingSiblings(Update(t)) :
               k \in cancelled'[t] \/ k \in todo'[t] \/ jobs[k].error = "save_failed"
        BY <1>5, <1>9, <2>1, <2>8, <3>2 DEF CancelOK
      <4> QED
        BY <1>1, <2>1, <2>3, <3>2, <4>1, <4>2 DEF CancelOK
    <3> QED
      BY <3>1, <3>2
  <2> QED
    BY <2>5, <2>6, <2>9 DEF AgentOK
<1> QED
  BY <1>1, <1>6, <1>7, <1>8, <1>9, TableStill, TxFacts, OneActs

-----------------------------------------------------------------------------
(* The end of a transaction: its locks are gone, and nothing is left to say *)
(* of it.                                                                   *)

LEMMA Ended ==
    ASSUME TxInv, NEW t \in Txs, EndTx(t)
    PROVE  /\ TxTypeOK' /\ \A b \in Txs \ {t} : StandsStill(b)
           /\ t \in Agents => AgentOK(t)'
           /\ t = Clearer => ClearerOK'
<1>1. TxTypeOK
  BY DEF TxInv, LockInv
<1>2. /\ stage'  = [stage EXCEPT ![t] = "none"]
      /\ want'   = [want EXCEPT ![t] = NoJob]
      /\ todo'   = [todo EXCEPT ![t] = {}]
      /\ holder' = [j \in JobIds |-> IF holder[j] = t THEN Nobody ELSE holder[j]]
      /\ \/ /\ t \in Agents
            /\ parentSeen' = [parentSeen EXCEPT ![t] = "none"]
            /\ cancelled'  = [cancelled EXCEPT ![t] = {}]
         \/ t \notin Agents /\ parentSeen' = parentSeen /\ cancelled' = cancelled
  BY DEF EndTx
<1>3. TxTypeOK'
  BY <1>1, <1>2 DEF TxTypeOK, Stages
<1>4. \A b \in Txs \ {t} : StandsStill(b)
  BY <1>1, <1>2, TxFacts DEF TxTypeOK, StandsStill
<1>5. /\ stage'[t] = "none" /\ want'[t] = NoJob
      /\ t \in Agents => cancelled'[t] = {}
      /\ \A j \in JobIds : holder'[j] # t
  BY <1>1, <1>2, TxFacts DEF TxTypeOK
<1>6. t \in Agents => AgentOK(t)'
  BY <1>5 DEF AgentOK, StageOK, ParentHeld, CancelOK, BranchOK, Holding
<1>7. t = Clearer => ClearerOK'
  BY <1>5 DEF ClearerOK
<1> QED
  BY <1>3, <1>4, <1>6, <1>7

(* Other agents' claims are not touched when one lets go or will reset.     *)
LEMMA OthersOn ==
    ASSUME TxInv, NEW a \in Agents, Release(a) \/ GoReset(a), NEW b \in Agents \ {a}
    PROVE  pc'[b] = pc[b] /\ job'[b] = job[b] /\ seen'[b] = seen[b]
  BY DEF TxInv, FamilyInv, TypeInv, TypeOK, Release, GoReset

(* An agent's transaction ends without a trace in the table.                *)
LEMMA LeaveKeeps ==
    ASSUME TxInv, NEW a \in Agents, EndTx(a), Release(a) \/ GoReset(a), UNCHANGED tableVars
    PROVE  LockInv'
<1>1. /\ TxTypeOK' /\ \A b \in Txs \ {a} : StandsStill(b)
      /\ AgentOK(a)' /\ a \in Txs /\ a # Clearer
  BY TxFacts, Ended
<1>2. jobs' = jobs /\ input' = input /\ doomed' = doomed
  BY DEF tableVars
<1>3. \A b \in Agents \ {a} : FamilyMoves(b)
  BY <1>2, OthersOn DEF FamilyMoves
<1> QED
  BY <1>1, <1>2, <1>3, OneActs
(* What a transaction has written when it commits is what                   *)
(* update_integration_partition_result writes in one step: the PENDING      *)
(* siblings it has not cancelled are ones a reset put back.                 *)
LEMMA CommitIsAtomic ==
    ASSUME TxInv, NEW a \in Agents, CommitWrites(a)
    PROVE  /\ stage[a] \in Holding /\ Running(a) /\ IsPartition(job[a])
           /\ UpdateIntegrationPartitionResult(Update(a))
           /\ EndTx(a) /\ doomed' = doomed
<1> DEFINE u == Update(a)
<1>1. /\ AgentOK(a) /\ StatementsDone(a) /\ EndTx(a)
      /\ input' = input /\ now' = now /\ doomed' = doomed
      /\ \/ /\ stage[a] = "commit"
            /\ jobs' = [jobs EXCEPT ![u.id] = Written(u)]
         \/ /\ stage[a] = "cancel"
            /\ jobs' = FailureWritten(u, cancelled[a])
         \/ stage[a] = "aggregate" /\ (RecordPart(u) \/ RecordLast(u))
  BY DEF CommitWrites, TxInv, LockInv
<1>2. stage[a] \in Holding /\ stage[a] # "none"
  BY <1>1 DEF Holding
<1>3. /\ pc[a] = "running" /\ IsPartition(job[a]) /\ u.id = job[a]
      /\ job[a] \in JobIds /\ Parent(job[a]) \in JobIds
  BY <1>2, TxJob
<1>4. /\ Present(u.id) /\ Present(Parent(u.id))
      /\ ParentRunning(u) <=> parentSeen[a] = "RUNNING"
  BY <1>1, <1>2, <1>3 DEF AgentOK, ParentHeld, ParentRunning
<1>5. CASE stage[a] = "commit"
  <2>1. u.status = "PENDING" \/ ~ParentRunning(u)
    BY <1>1, <1>4, <1>5 DEF AgentOK, BranchOK
  <2>2. RecordOnly(u)
    BY <1>1, <1>5, <2>1 DEF RecordOnly
  <2> QED
    BY <1>1, <1>2, <1>3, <1>4, <2>2 DEF UpdateIntegrationPartitionResult, Running
<1>6. CASE stage[a] = "cancel"
  <2> DEFINE missed == PendingSiblings(u) \ cancelled[a]
  <2>1. /\ u.status = "FAILED" /\ ParentRunning(u)
        /\ \A k \in cancelled[a] : k \in PendingSiblings(u)
        /\ \A k \in missed : k \in todo[a] \/ jobs[k].error = "save_failed"
    BY <1>1, <1>4, <1>6 DEF AgentOK, CancelOK
  <2>2. todo[a] = {} /\ jobs' = FailureWritten(u, cancelled[a])
    BY <1>1, <1>6 DEF StatementsDone
  <2>3. /\ missed \in SUBSET {k \in PendingSiblings(u) : jobs[k].error = "save_failed"}
        /\ PendingSiblings(u) \ missed = cancelled[a]
    BY <2>1, <2>2
  <2> HIDE DEF missed, u
  <2>4. RecordFailure(u)
    BY <2>1, <2>2, <2>3 DEF RecordFailure
  <2> QED
    BY <1>1, <1>2, <1>3, <1>4, <2>4 DEF UpdateIntegrationPartitionResult, Running, u
<1>7. CASE stage[a] = "aggregate"
  BY <1>1, <1>2, <1>3, <1>4, <1>7 DEF UpdateIntegrationPartitionResult, Running
<1> QED
  BY <1>1, <1>5, <1>6, <1>7

(* Nobody else is past the parent's row of the family that is written.      *)
LEMMA CommitKeeps ==
    ASSUME TxInv, NEW a \in Agents, CommitSave(a) \/ TxSaveReplyLost(a)
    PROVE  LockInv'
<1>1. CommitWrites(a) /\ (Release(a) \/ GoReset(a))
  BY DEF CommitSave, TxSaveReplyLost
<1>2. /\ stage[a] \in Holding /\ EndTx(a) /\ doomed' = doomed
      /\ SavePartitionResult(a) \/ SavePartitionReplyLost(a)
  BY <1>1, CommitIsAtomic
  DEF CommitSave, TxSaveReplyLost, SavePartitionResult, SavePartitionReplyLost, Fault
<1>3. /\ TxTypeOK' /\ \A b \in Txs \ {a} : StandsStill(b)
      /\ AgentOK(a)' /\ a \in Txs /\ a # Clearer
  BY <1>2, TxFacts, Ended
<1>4. /\ input' = input
      /\ \A j \in JobIds : jobs'[j].status # "ABSENT" <=> jobs[j].status # "ABSENT"
      /\ \A j \in JobIds : j[1] # job[a][1] => jobs'[j] = jobs[j]
  BY <1>2, SaveShape DEF TxInv, FamilyInv
<1>5. ASSUME NEW b \in Agents \ {a}, stage[b] # "none"
      PROVE  FamilyMoves(b)
  <2>1. job[b] \in JobIds /\ Parent(job[b]) \in JobIds
    BY <1>5, TxJob
  <2>2. pc'[b] = pc[b] /\ job'[b] = job[b] /\ seen'[b] = seen[b]
    BY <1>1, OthersOn
  <2>3. stage[b] \in Holding => job[b][1] # job[a][1]
    BY <1>2, OnePerFamily
  <2> QED
    BY <1>4, <2>1, <2>2, <2>3 DEF FamilyMoves
<1> QED
  BY <1>2, <1>3, <1>5, OneActs

-----------------------------------------------------------------------------
(* The DELETE.                                                              *)

LEMMA BeginClearKeeps ==
    ASSUME TxInv, BeginClear
    PROVE  LockInv'
<1>1. /\ stage[Clearer] = "none"
      /\ doomed' = {r \in Roots : Present(<<r, 0>>)}
      /\ stage' = [stage EXCEPT ![Clearer] = "delete"]
      /\ todo'  = [todo EXCEPT ![Clearer] = {j \in JobIds : Present(j)}]
      /\ want' = want /\ parentSeen' = parentSeen /\ cancelled' = cancelled
      /\ holder' = holder
      /\ UNCHANGED <<jobs, input, pc, job, seen>>
  BY DEF BeginClear, StartDelete, agentVars
<1>2. TxTypeOK /\ ClearerOK /\ Clearer \in Txs /\ Clearer \notin Agents
  BY TxFacts DEF TxInv, LockInv
<1>3. TxTypeOK'
  BY <1>1, <1>2 DEF TxTypeOK, Stages
<1>4. \A b \in Txs \ {Clearer} : StandsStill(b)
  BY <1>1, <1>2 DEF TxTypeOK, StandsStill
<1>5. ASSUME NEW j \in JobIds, Present(j)
      PROVE  j[1] \in doomed'
  <2>1. j[1] \in Roots /\ j = <<j[1], j[2]>> /\ j[2] \in 0..MaxPartitions
    BY JobIdFacts
  <2>2. CASE IsPartition(j)
    BY <1>1, <1>5, <2>1, <2>2
    DEF TxInv, FamilyInv, ParentsFree, ParentsFannedOut, Present, Parent
  <2>3. CASE ~IsPartition(j)
    <3>1. j[2] = 0
      BY <2>1, <2>3 DEF IsPartition
    <3> QED
      BY <1>1, <1>5, <2>1, <3>1
  <2> QED
    BY <2>2, <2>3
<1>6. ClearerOK'
  <2>1. stage'[Clearer] = "delete" /\ todo'[Clearer] = {j \in JobIds : Present(j)}
    BY <1>1, <1>2 DEF TxTypeOK
  <2>2. want'[Clearer] = NoJob /\ \A j \in JobIds : holder'[j] # Clearer
    BY <1>1, <1>2 DEF ClearerOK
  <2> QED
    BY <1>5, <2>1, <2>2 DEF ClearerOK
<1> QED
  BY <1>1, <1>2, <1>3, <1>4, <1>6, TableStill, OneActs

(* No family with a transaction past its parent's row is cleared.           *)
LEMMA CommitClearKeeps ==
    ASSUME TxInv, CommitClear \/ ClearFails
    PROVE  LockInv'
<1>1. /\ EndTx(Clearer) /\ input' = input /\ UNCHANGED <<pc, job, seen>>
      /\ \/ jobs' = jobs
         \/ /\ jobs' = [j \in JobIds |-> IF j[1] \in doomed THEN NoRow ELSE jobs[j]]
            /\ \A j \in JobIds : j[1] \in doomed => holder[j] \in {Clearer, Nobody}
  BY DEF CommitClear, ClearFails, FinishDelete, ClearJobsFails, agentVars
<1>2. /\ TxTypeOK' /\ \A b \in Txs \ {Clearer} : StandsStill(b)
      /\ ClearerOK' /\ Clearer \in Txs /\ Clearer \notin Agents
  BY <1>1, TxFacts, Ended
<1>3. ASSUME NEW b \in Agents, stage[b] # "none"
      PROVE  FamilyMoves(b)
  <2>1. job[b] \in JobIds /\ Parent(job[b]) \in JobIds /\ Parent(job[b])[1] = job[b][1]
    BY <1>3, TxJob
  <2>2. CASE jobs' = jobs
    BY <1>1, <2>2 DEF FamilyMoves
  <2>3. CASE /\ jobs' = [j \in JobIds |-> IF j[1] \in doomed THEN NoRow ELSE jobs[j]]
             /\ \A j \in JobIds : j[1] \in doomed => holder[j] \in {Clearer, Nobody}
    <3>1. stage[b] \in Holding => holder[Parent(job[b])] = b
      BY DEF TxInv, LockInv, AgentOK, ParentHeld
    <3>2. stage[b] \in Holding => job[b][1] \notin doomed
      BY <2>1, <2>3, <3>1, TxFacts
    <3>3. NoRow.status = "ABSENT"
      BY DEF NoRow
    <3> QED
      BY <1>1, <2>1, <2>3, <3>2, <3>3 DEF FamilyMoves
  <2> QED
    BY <1>1, <2>2, <2>3
<1> QED
  BY <1>1, <1>2, <1>3, OneActs

-----------------------------------------------------------------------------
(* The statements that are a transaction of their own.                      *)

(* They leave every lock where it is.                                       *)
LEMMA NoLockMoves ==
    ASSUME TxInv, UNCHANGED lockVars, doomed' = doomed,
           \A b \in Agents : stage[b] # "none" => FamilyMoves(b)
    PROVE  LockInv'
<1>1. \A t \in Txs : StandsStill(t)
  BY DEF lockVars, StandsStill
<1>2. \A a \in Agents : AgentOK(a)'
  BY <1>1, StillOK, TxFacts
<1>3. ClearerOK'
  BY <1>1, ClearerStill, TxFacts
<1>4. TxTypeOK'
  BY DEF TxInv, LockInv, TxTypeOK, lockVars
<1> QED
  BY <1>2, <1>3, <1>4 DEF LockInv

LEMMA PostKeeps ==
    ASSUME TxInv, NEW r \in Roots, NEW q \in Requests, Post(r, q)
    PROVE  LockInv'
<1>1. /\ input[r] = NoRequest
      /\ input' = [input EXCEPT ![r] = q]
      /\ jobs'  = [jobs EXCEPT ![<<r, 0>>] = NewRow(now)]
      /\ doomed' = doomed /\ UNCHANGED <<pc, job, seen>> /\ UNCHANGED lockVars
  BY DEF Post, CreateJob, CreateFailingJob, InsertJob, agentVars
<1>2. jobs \in [JobIds -> Row] /\ DOMAIN input = Roots
  BY DEF TxInv, FamilyInv, TypeInv, TypeOK
<1>3. ASSUME NEW b \in Agents, stage[b] # "none"
      PROVE  FamilyMoves(b)
  <2>1. /\ job[b] \in JobIds /\ Parent(job[b]) \in JobIds /\ Parent(job[b])[1] = job[b][1]
        /\ input[job[b][1]] # NoRequest
    BY <1>3, TxJob
  <2>2. job[b][1] # r /\ job[b][1] \in Roots
    BY <1>1, <2>1, JobIdFacts
  <2>3. \A j \in JobIds : j[1] = job[b][1] => jobs'[j] = jobs[j]
    BY <1>1, <1>2, <2>2
  <2>4. input'[job[b][1]] = input[job[b][1]]
    BY <1>1, <1>2, <2>2
  <2> QED
    BY <1>1, <2>1, <2>3, <2>4 DEF FamilyMoves
<1> QED
  BY <1>1, <1>3, NoLockMoves

(* A claim needs its row free.                                              *)
LEMMA ClaimKeeps ==
    ASSUME TxInv, NEW c \in Agents, NEW j \in JobIds,
           Free(j), Claim(j), Take(c, j), UNCHANGED lockVars
    PROVE  LockInv'
<1>1. /\ holder[j] = Nobody /\ jobs[j].status = "PENDING" /\ pc[c] = "idle"
      /\ jobs' = [jobs EXCEPT ![j] = [@ EXCEPT !.status = "RUNNING", !.error = "none"]]
      /\ pc' = [pc EXCEPT ![c] = "running"] /\ job' = [job EXCEPT ![c] = j]
      /\ seen' = [seen EXCEPT ![c] = jobs[j].retry_count]
      /\ input' = input /\ doomed' = doomed
  BY DEF Free, Claim, Take
<1>2. /\ jobs \in [JobIds -> Row] /\ DOMAIN pc = Agents /\ DOMAIN job = Agents
      /\ DOMAIN seen = Agents
  BY DEF TxInv, FamilyInv, TypeInv, TypeOK
<1>3. jobs'[j].status = "RUNNING" /\ \A k \in JobIds \ {j} : jobs'[k] = jobs[k]
  BY <1>1, <1>2 DEF Row
<1>4. ASSUME NEW b \in Agents, stage[b] # "none"
      PROVE  FamilyMoves(b)
  <2>1. job[b] \in JobIds /\ Parent(job[b]) \in JobIds /\ pc[b] = "running"
    BY <1>4, TxJob
  <2>2. pc'[b] = pc[b] /\ job'[b] = job[b] /\ seen'[b] = seen[b]
    BY <1>1, <1>2, <2>1
  <2>3. holder[j] # b
    BY <1>1, TxFacts
  <2>4. \A k \in JobIds : jobs'[k] = jobs[k] \/ (holder[k] # b /\ ClaimedOrReset(k))
    BY <1>1, <1>3, <2>3 DEF ClaimedOrReset
  <2>5. \A k \in JobIds : jobs'[k].status # "ABSENT" <=> jobs[k].status # "ABSENT"
    BY <1>1, <1>3
  <2> QED
    BY <1>1, <2>1, <2>2, <2>4, <2>5 DEF FamilyMoves
<1> QED
  BY <1>1, <1>4, NoLockMoves

(* So does every other write of one row; a fan-out has no sibling to find.  *)
LEMMA OneRowMoves ==
    ASSUME TxInv, NEW a \in Agents, pc[a] # "idle", Free(job[a]),
           SaveJobResult(a) \/ ResetPartition(a) \/ FanOut(a) \/ FanOutRejected(a),
           NEW b \in Agents, stage[b] # "none", a # b
    PROVE  /\ input' = input
           /\ \A j \in JobIds : jobs[j].status # "ABSENT" => jobs'[j].status # "ABSENT"
           /\ jobs'[Parent(job[b])].status # "ABSENT" => jobs[Parent(job[b])].status # "ABSENT"
           /\ stage[b] \in Holding =>
                 \A j \in JobIds : j[1] = job[b][1] =>
                     jobs'[j] = jobs[j] \/ (holder[j] # b /\ ClaimedOrReset(j))
<1>1. /\ FamilyInv /\ jobs \in [JobIds -> Row] /\ job[a] \in JobIds
      /\ holder[job[a]] # b
  BY TxFacts DEF TxInv, FamilyInv, TypeInv, TypeOK, Free
<1>2. /\ job[b] \in JobIds /\ Parent(job[b]) \in JobIds /\ IsPartition(job[b])
      /\ stage[b] \in {"parent"} \cup Holding
  BY TxJob DEF TxInv, LockInv, AgentOK, StageOK, TxTypeOK, Stages, Txs, Holding
<1>3. CASE SaveJobResult(a)
  <2>1. /\ ~IsPartition(job[a]) /\ Update(a).id = job[a]
        /\ input' = input
        /\ jobs' = jobs \/ jobs' = [jobs EXCEPT ![job[a]] = Written(Update(a))]
    <3>1. Update(a).id = job[a]
      BY DEF Update
    <3> QED
      BY <1>3, <3>1 DEF SaveJobResult, UpdateJobResult
  <2>2. \A j \in JobIds : jobs'[j].status # "ABSENT" <=> jobs[j].status # "ABSENT"
    BY <1>1, <1>3, SaveShape DEF FamilyInv
  <2>3. ASSUME stage[b] \in Holding, NEW j \in JobIds, j[1] = job[b][1]
        PROVE  jobs'[j] = jobs[j]
    <3>1. holder[Parent(job[b])] = b
      BY <2>3 DEF TxInv, LockInv, AgentOK, ParentHeld
    <3>2. CASE j = job[a]
      <4>1. j = <<j[1], 0>>
        BY <1>1, <2>1, <3>2, JobIdFacts DEF IsPartition
      <4>2. j = Parent(job[b])
        BY <2>3, <4>1 DEF Parent
      <4> QED
        BY <1>1, <3>1, <3>2, <4>2
    <3>3. CASE j # job[a]
      BY <1>1, <2>1, <3>3
    <3> QED
      BY <3>2, <3>3
  <2> QED
    BY <1>2, <2>1, <2>2, <2>3
<1>4. CASE ResetPartition(a)
  <2>1. /\ input' = input
        /\ \/ jobs' = jobs
           \/ /\ jobs[job[a]].status = "RUNNING"
              /\ jobs' = [jobs EXCEPT ![job[a]] = [@ EXCEPT !.status = "PENDING",
                                                            !.error = "save_failed"]]
    BY <1>4 DEF ResetPartition, ResetRunningJobToPending
  <2>2. \A j \in JobIds : jobs'[j] = jobs[j] \/ (j = job[a] /\ ClaimedOrReset(j))
    BY <1>1, <2>1, ResetWrites DEF ClaimedOrReset
  <2> QED
    BY <1>1, <1>2, <2>1, <2>2 DEF ClaimedOrReset
<1>5. CASE FanOut(a)
  <2> DEFINE r == job[a][1]
  <2>1. /\ r \in Roots /\ job[a] = <<r, 0>> /\ jobs[<<r, 0>>].status = "RUNNING"
        /\ ChildRows(r) = {} /\ input' = input
        /\ jobs' = [j \in JobIds |-> IF j \in PartitionIds(r) THEN NewRow(now) ELSE jobs[j]]
    BY <1>1, <1>5, FanOutShape
  <2> HIDE DEF r
  <2>2. job[b][1] # r
    <3> SUFFICES ASSUME job[b][1] = r
                 PROVE  FALSE
      OBVIOUS
    <3>1. Parent(job[b]) = <<r, 0>>
      BY DEF Parent
    <3>2. Present(job[b])
      BY <1>2, <2>1, <3>1 DEF TxInv, LockInv, AgentOK, ParentHeld, Present
    <3> QED
      BY <1>2, <2>1, <3>2 DEF ChildRows
  <2>3. \A j \in PartitionIds(r) : j[1] = r
    BY DEF PartitionIds
  <2>4. \A j \in JobIds : j[1] = job[b][1] => jobs'[j] = jobs[j]
    BY <2>1, <2>2, <2>3
  <2>5. \A j \in JobIds : jobs[j].status # "ABSENT" => jobs'[j].status # "ABSENT"
    BY <2>1 DEF NewRow
  <2>6. Parent(job[b])[1] = job[b][1]
    BY DEF Parent
  <2> QED
    BY <1>2, <2>1, <2>4, <2>5, <2>6
<1>6. CASE FanOutRejected(a)
  BY <1>6 DEF FanOutRejected, tableVars
<1> QED
  BY <1>3, <1>4, <1>5, <1>6

LEMMA OneRowKeeps ==
    ASSUME TxInv, NEW a \in Agents, OneRow(a)
    PROVE  LockInv'
<1>1. /\ pc[a] # "idle" /\ Free(job[a]) /\ UNCHANGED lockVars
      /\ SaveJobResult(a) \/ ResetPartition(a) \/ FanOut(a) \/ FanOutRejected(a)
  BY DEF OneRow
<1>2. Release(a) /\ doomed' = doomed
  BY <1>1 DEF SaveJobResult, UpdateJobResult, ResetPartition, ResetRunningJobToPending,
              FanOut, EnsureJobPartitions, FanOutRejected, tableVars
<1>3. stage[a] = "none"
  <2> SUFFICES ASSUME stage[a] # "none"
               PROVE  FALSE
    OBVIOUS
  <2>1. pc[a] = "running" /\ IsPartition(job[a])
    BY TxJob
  <2> QED
    BY <1>1, <2>1 DEF SaveJobResult, ResetPartition, FanOut, FanOutRejected, IsCoordinator
<1>4. ASSUME NEW b \in Agents, stage[b] # "none"
      PROVE  FamilyMoves(b)
  <2>1. a # b
    BY <1>3, <1>4
  <2>2. pc'[b] = pc[b] /\ job'[b] = job[b] /\ seen'[b] = seen[b]
    BY <1>2, <2>1, OthersOn
  <2>3. job[b] \in JobIds
    BY <1>4, TxJob
  <2>4. /\ input' = input
        /\ \A j \in JobIds : jobs[j].status # "ABSENT" => jobs'[j].status # "ABSENT"
        /\ jobs'[Parent(job[b])].status # "ABSENT" => jobs[Parent(job[b])].status # "ABSENT"
        /\ stage[b] \in Holding =>
              \A j \in JobIds : j[1] = job[b][1] =>
                  jobs'[j] = jobs[j] \/ (holder[j] # b /\ ClaimedOrReset(j))
    BY <1>1, <1>4, <2>1, OneRowMoves
  <2> QED
    BY <2>2, <2>3, <2>4 DEF FamilyMoves
<1> QED
  BY <1>1, <1>2, <1>4, NoLockMoves

-----------------------------------------------------------------------------
(* Waits.  A transaction waits for a row of its own family, and one that    *)
(* has a lock has its parent's row: so whoever makes it wait is not another *)
(* agent that waits.                                                        *)

LEMMA Waits ==
    ASSUME TxInv, NEW a \in Agents, BlockedBy(a) # {}
    PROVE  /\ stage[a] # "none" /\ want[a] \in JobIds /\ want[a][1] = job[a][1]
           /\ holder[want[a]] \in Txs /\ holder[want[a]] # a
           /\ BlockedBy(a) = {holder[want[a]]}
<1>1. /\ want[a] # NoJob /\ holder[want[a]] \notin {a, Nobody}
      /\ BlockedBy(a) = {holder[want[a]]}
  BY DEF BlockedBy
<1>2. TxTypeOK /\ StageOK(a) /\ a \in Txs
  BY TxFacts DEF TxInv, LockInv, AgentOK
<1>3. want[a] \in JobIds /\ stage[a] \in {"parent", "child", "cancel", "aggregate"}
  BY <1>1, <1>2 DEF TxTypeOK, StageOK, Stages
<1>4. want[a][1] = job[a][1]
  <2>1. Parent(job[a])[1] = job[a][1]
    BY DEF Parent
  <2> QED
    BY <1>1, <1>2, <1>3, <2>1 DEF StageOK, Siblings
<1> QED
  BY <1>1, <1>2, <1>3, <1>4 DEF TxTypeOK

LEMMA NobodyWaitsForTheWaiting ==
    ASSUME TxInv, NEW a \in Agents, NEW h \in Agents, NEW g \in Txs,
           h \in BlockedBy(a), g \in BlockedBy(h)
    PROVE  g = Clearer /\ job[a][1] \in doomed
<1>1. /\ holder[want[a]] = h /\ want[a] \in JobIds /\ want[a][1] = job[a][1]
      /\ holder[want[h]] = g /\ want[h] \in JobIds /\ want[h][1] = job[h][1] /\ g # h
  BY Waits
<1>2. stage[h] \in Holding /\ job[a][1] = job[h][1]
  BY <1>1 DEF TxInv, LockInv, AgentOK, StageOK
<1>3. g \notin Agents
  <2> SUFFICES ASSUME g \in Agents
               PROVE  FALSE
    OBVIOUS
  <2>1. stage[g] \in Holding /\ job[g][1] = job[h][1]
    BY <1>1 DEF TxInv, LockInv, AgentOK, StageOK
  <2> QED
    BY <1>1, <1>2, <2>1, OnePerFamily
<1>4. g = Clearer
  BY <1>3 DEF Txs
<1> QED
  BY <1>1, <1>2, <1>4 DEF TxInv, LockInv, ClearerOK

(* Whatever cycle of waits an agent is in, the DELETE is in it, too, and    *)
(* its snapshot has the agent's job.                                        *)
LEMMA CyclesHaveTheClearer ==
    ASSUME TxInv, NEW ts \in SUBSET Txs, Deadlocked(ts), NEW a \in ts, a \in Agents
    PROVE  Clearer \in ts /\ job[a][1] \in doomed
<1>1. PICK h \in ts : h \in BlockedBy(a)
  BY DEF Deadlocked
<1>2. CASE h \in Agents
  <2>1. PICK g \in ts : g \in BlockedBy(h)
    BY DEF Deadlocked
  <2> QED
    BY <1>1, <1>2, <2>1, NobodyWaitsForTheWaiting
<1>3. CASE h = Clearer
  <2>1. /\ holder[want[a]] = Clearer /\ want[a] \in JobIds /\ want[a][1] = job[a][1]
    BY <1>1, <1>3, Waits
  <2> QED
    BY <1>1, <1>3, <2>1 DEF TxInv, LockInv, ClearerOK
<1> QED
  BY <1>1, <1>2, <1>3 DEF Txs

-----------------------------------------------------------------------------
(* Every step is one of PostgresWorkers, or leaves what is committed alone. *)

(* A poll that passes over locked rows passes over rows that PostgresWorkers *)
(* lets it pass over: a locked parent is not PENDING.                       *)
LEMMA LockedIsLockable ==
    ASSUME TxInv, NEW k \in JobIds, ~Free(k), jobs[k].status = "PENDING"
    PROVE  k \in Lockable
<1>1. holder[k] \in Txs
  BY DEF TxInv, LockInv, TxTypeOK, Free
<1>2. CASE holder[k] = Clearer
  BY <1>2 DEF TxInv, LockInv, ClearerOK, Lockable
<1>3. CASE holder[k] \in Agents
  <2> DEFINE a == holder[k]
  <2>1. /\ stage[a] \in Holding /\ k[1] = job[a][1] /\ Present(job[a])
    BY <1>3 DEF TxInv, LockInv, AgentOK, StageOK, ParentHeld
  <2>2. /\ stage[a] # "none" /\ pc[a] = "running" /\ IsPartition(job[a]) /\ job[a] \in JobIds
    BY <1>3, <2>1, TxJob DEF Holding
  <2>3. jobs[Parent(job[a])].status # "PENDING"
    BY <2>1, <2>2 DEF TxInv, FamilyInv, ParentsFree, ParentsFannedOut, Present
  <2> HIDE DEF a
  <2>4. IsPartition(k)
    <3> SUFFICES ASSUME ~IsPartition(k)
                 PROVE  FALSE
      OBVIOUS
    <3>1. k = <<k[1], 0>>
      BY JobIdFacts DEF IsPartition
    <3>2. k = Parent(job[a])
      BY <2>1, <3>1 DEF Parent
    <3> QED
      BY <2>3, <3>2
  <2>5. k \in ChildRows(job[a][1])
    BY <2>1, <2>4 DEF ChildRows, Present
  <2> QED
    BY <1>3, <2>2, <2>5 DEF Lockable, a
<1> QED
  BY <1>1, <1>2, <1>3 DEF Txs

LEMMA ClaimMaps ==
    ASSUME TxInv, NEW w \in Workers, NEW j \in JobIds, TxReceive(w, j)
    PROVE  Receive(w, j)
<1>1. /\ Claim(j) /\ Take(w, j)
      /\ \A k \in JobIds :
            jobs[k].status = "PENDING" /\ jobs[k].created_at < jobs[j].created_at => ~Free(k)
  BY DEF TxReceive, ClaimNextPendingJob, Locked
<1>2. \A k \in JobIds :
         jobs[k].status = "PENDING" /\ jobs[k].created_at < jobs[j].created_at => k \in Lockable
  BY <1>1, LockedIsLockable
<1> QED
  BY <1>1, <1>2 DEF Receive, ClaimNextPendingJob

(* A rollback is one that PostgresWorkers allows: the rows are gone, the    *)
(* results do not aggregate, or a DELETE of the job is in flight.           *)
LEMMA RollbackMaps ==
    ASSUME TxInv, NEW a \in Agents, RollbackSave(a) \/ DeadlockVictim(a)
    PROVE  RejectPartitionResult(a) /\ EndTx(a)
<1>1. EndTx(a) /\ GoReset(a) /\ UNCHANGED <<tableVars, faults>>
  BY DEF RollbackSave, DeadlockVictim
<1>2. AgentOK(a)
  BY DEF TxInv, LockInv
<1>3. CASE RollbackSave(a)
  <2>1. CASE Running(a) /\ IsPartition(job[a]) /\ ~Present(job[a])
    <3>1. Update(a).id = job[a]
      BY DEF Update
    <3> QED
      BY <1>1, <2>1, <3>1 DEF RejectPartitionResult, PartitionUpdateRejected
  <2>2. CASE stage[a] = "parent" /\ ~Present(want[a])
    <3>1. /\ pc[a] = "running" /\ IsPartition(job[a]) /\ Update(a).id = job[a]
          /\ want[a] = Parent(job[a])
      BY <1>2, <2>2, TxJob DEF AgentOK, StageOK
    <3> QED
      BY <1>1, <2>2, <3>1 DEF RejectPartitionResult, PartitionUpdateRejected, Running
  <2>3. CASE /\ stage[a] = "aggregate"
             /\ LastToComplete(Update(a)) /\ ~Aggregates(Update(a))
    <3>1. /\ pc[a] = "running" /\ IsPartition(job[a]) /\ Update(a).id = job[a]
      BY <2>3, TxJob
    <3>2. Update(a).status = "COMPLETED" /\ ParentRunning(Update(a))
      BY <1>2, <2>3, <3>1 DEF AgentOK, BranchOK, ParentHeld, ParentRunning, Holding
    <3> QED
      BY <1>1, <2>3, <3>1, <3>2 DEF RejectPartitionResult, PartitionUpdateRejected, Running
  <2> QED
    BY <1>3, <2>1, <2>2, <2>3 DEF RollbackSave
<1>4. CASE DeadlockVictim(a)
  <2>1. PICK ts \in SUBSET Txs : a \in ts /\ Deadlocked(ts)
    BY <1>4 DEF DeadlockVictim
  <2>2. BlockedBy(a) # {} /\ job[a][1] \in doomed
    BY <2>1, CyclesHaveTheClearer DEF Deadlocked
  <2>3. pc[a] = "running" /\ IsPartition(job[a])
    BY <2>2, Waits, TxJob
  <2> QED
    BY <1>1, <2>2, <2>3 DEF RejectPartitionResult, Running
<1> QED
  BY <1>1, <1>3, <1>4

(* An agent's step, and the next lemma's the rest.                          *)
LEMMA AgentMaps ==
    ASSUME TxInv, NEW a \in Agents,
           \/ Save(a) \/ OneRow(a) \/ DeadlockVictim(a) \/ TxAbandon(a)
           \/ TxSaveFails(a) \/ TxSaveReplyLost(a)
    PROVE  LockInv' /\ (Step(a) \/ AgentFault(a) \/ UNCHANGED vars)
<1>1. ASSUME BeginSave(a) \/ LockParent(a) \/ WriteChild(a)
      PROVE  LockInv' /\ UNCHANGED vars
  <2>1. LockInv'
    BY <1>1, BeginSaveKeeps, LockParentKeeps, WriteChildKeeps
  <2>2. UNCHANGED vars
    BY <1>1 DEF BeginSave, LockParent, WriteChild
  <2> QED
    BY <2>1, <2>2
<1>2. ASSUME CommitSave(a)
      PROVE  LockInv' /\ Step(a)
  BY <1>2, CommitKeeps, CommitIsAtomic DEF CommitSave, SavePartitionResult, Step
<1>3. ASSUME TxSaveReplyLost(a)
      PROVE  LockInv' /\ AgentFault(a)
  BY <1>3, CommitKeeps, CommitIsAtomic DEF TxSaveReplyLost, SavePartitionReplyLost, AgentFault
<1>4. ASSUME RollbackSave(a) \/ DeadlockVictim(a)
      PROVE  LockInv' /\ Step(a)
  BY <1>4, RollbackMaps, LeaveKeeps DEF RejectPartitionResult, Step
<1>5. ASSUME TxAbandon(a) \/ TxSaveFails(a)
      PROVE  LockInv' /\ AgentFault(a)
  <2>1. EndTx(a) /\ (Abandon(a) \/ SavePartitionFails(a))
    BY <1>5 DEF TxAbandon, TxSaveFails
  <2>2. (Release(a) \/ GoReset(a)) /\ UNCHANGED tableVars
    BY <2>1 DEF Abandon, SavePartitionFails
  <2> QED
    BY <2>1, <2>2, LeaveKeeps DEF AgentFault
<1>6. ASSUME OneRow(a)
      PROVE  LockInv' /\ Step(a)
  BY <1>6, OneRowKeeps DEF OneRow, Step
<1> QED
  BY <1>1, <1>2, <1>3, <1>4, <1>5, <1>6 DEF Save

LEMMA TxMaps ==
    ASSUME TxInv, [TxNext]_txVars
    PROVE  LockInv' /\ [Next]_vars
<1>1. ASSUME NEW r \in Roots, NEW q \in Requests, Post(r, q)
      PROVE  LockInv' /\ [Next]_vars
  BY <1>1, PostKeeps DEF Post, Next
<1>2. ASSUME NEW w \in Workers, NEW j \in JobIds, TxReceive(w, j)
      PROVE  LockInv' /\ [Next]_vars
  <2>1. Receive(w, j)
    BY <1>2, ClaimMaps
  <2>2. Free(j) /\ Claim(j) /\ Take(w, j) /\ UNCHANGED lockVars /\ w \in Agents
    BY <1>2 DEF TxReceive, ClaimNextPendingJob, Agents
  <2> QED
    BY <2>1, <2>2, ClaimKeeps DEF Next
<1>3. ASSUME NEW c \in Runners, NEW j \in JobIds, TxRunById(c, j)
      PROVE  LockInv' /\ [Next]_vars
  <2>1. RunById(c, j) /\ Free(j) /\ Claim(j) /\ Take(c, j) /\ UNCHANGED lockVars /\ c \in Agents
    BY <1>3 DEF TxRunById, RunById, ClaimJobById, Agents
  <2> QED
    BY <2>1, ClaimKeeps DEF Next
<1>4. ASSUME NEW a \in Agents,
             \/ Save(a) \/ OneRow(a) \/ DeadlockVictim(a) \/ TxAbandon(a)
             \/ TxSaveFails(a) \/ TxSaveReplyLost(a)
      PROVE  LockInv' /\ [Next]_vars
  BY <1>4, AgentMaps DEF Next
<1>5. ASSUME NEW t \in Txs, NextRow(t) \/ LockRow(t)
      PROVE  LockInv' /\ [Next]_vars
  BY <1>5, NextRowKeeps, LockRowKeeps DEF NextRow, LockRow
<1>6. ASSUME BeginClear \/ CommitClear \/ ClearFails
      PROVE  LockInv' /\ [Next]_vars
  <2>1. LockInv'
    BY <1>6, BeginClearKeeps, CommitClearKeeps
  <2>2. ClearJobs \/ ClearJobsFails
    BY <1>6 DEF BeginClear, CommitClear, ClearFails, ClearJobs, agentVars
  <2> QED
    BY <2>1, <2>2 DEF Next
<1>7. ASSUME UNCHANGED txVars
      PROVE  LockInv' /\ [Next]_vars
  <2>1. UNCHANGED vars /\ UNCHANGED lockVars
    BY <1>7 DEF txVars
  <2>2. UNCHANGED <<jobs, input, pc, job, seen>> /\ doomed' = doomed
    BY <2>1 DEF vars, tableVars, agentVars
  <2>3. LockInv'
    BY <2>1, <2>2, TableStill, NoLockMoves
  <2> QED
    BY <2>1, <2>3
<1> DEFINE Goal == LockInv' /\ [Next]_vars
<1>8. Goal
  <2> HIDE DEF Goal
  <2> QED
    BY <1>1, <1>2, <1>3, <1>4, <1>5, <1>6, <1>7 DEF TxNext, Goal
<1> QED
  BY <1>8

LEMMA TxInitOK == TxInit => TxInv
<1> SUFFICES ASSUME TxInit
             PROVE  TxInv
  OBVIOUS
<1>1. FamilyInv
  BY FamilyInit DEF TxInit
<1>2. /\ stage = [t \in Txs |-> "none"] /\ want = [t \in Txs |-> NoJob]
      /\ todo = [t \in Txs |-> {}] /\ parentSeen = [a \in Agents |-> "none"]
      /\ cancelled = [a \in Agents |-> {}] /\ holder = [j \in JobIds |-> Nobody]
  BY DEF TxInit
<1>3. TxTypeOK
  BY <1>2 DEF TxTypeOK, Stages
<1>4. ASSUME NEW a \in Agents
      PROVE  AgentOK(a)
  <2>1. /\ stage[a] = "none" /\ want[a] = NoJob /\ cancelled[a] = {}
        /\ \A j \in JobIds : holder[j] # a
    BY <1>2, TxFacts
  <2> QED
    BY <2>1 DEF AgentOK, StageOK, ParentHeld, CancelOK, BranchOK, Holding
<1>5. ClearerOK
  BY <1>2, TxFacts DEF ClearerOK
<1> QED
  BY <1>1, <1>3, <1>4, <1>5 DEF TxInv, LockInv

LEMMA TxStep == TxInv /\ [TxNext]_txVars => TxInv'
  BY TxMaps, FamilyStep DEF TxInv

LEMMA TxAlways == TxSpec => []TxInv
  BY TxInitOK, TxStep, PTL DEF TxSpec

(* The locks, the statements and what they have read keep their types.      *)
THEOREM TxTypeCorrect == TxSpec => []TxTypeOK
<1>1. TxInv => TxTypeOK
  BY DEF TxInv, LockInv
<1> QED
  BY <1>1, TxAlways, PTL

(* Agents that save partitions, however many and of whatever jobs, never    *)
(* wait for each other in a cycle: taking the parent's row first does what  *)
(* the comment in update_integration_partition_result says of it.           *)
THEOREM WorkersNeverWaitInACycle == TxSpec => []WorkersNeverDeadlock
<1>1. TxInv => WorkersNeverDeadlock
  <2> SUFFICES ASSUME TxInv, NEW ts \in SUBSET Agents, Deadlocked(ts)
               PROVE  FALSE
    BY DEF WorkersNeverDeadlock
  <2>1. PICK a \in ts : TRUE
    BY DEF Deadlocked
  <2>2. ts \in SUBSET Txs
    BY TxFacts
  <2>3. Clearer \in ts
    BY <2>1, <2>2, CyclesHaveTheClearer
  <2> QED
    BY <2>3, TxFacts
<1> QED
  BY <1>1, TxAlways, PTL

(* The transaction of update_integration_partition_result is atomic: seen   *)
(* through the committed table alone, whatever claims, resets, posts,       *)
(* deletes and faults come between its statements, every step is one of     *)
(* PostgresWorkers or none, so all that is proved there holds with the      *)
(* transaction taken statement by statement.                                *)
THEOREM TransactionIsAlwaysAtomic == TxSpec => TransactionIsAtomic
<1>1. TxInit => Init
  BY DEF TxInit
<1>2. TxInv /\ [TxNext]_txVars => [Next]_vars
  BY TxMaps
<1> QED
  BY <1>1, <1>2, TxAlways, PTL DEF TxSpec, TransactionIsAtomic, Spec
==============================================================================
