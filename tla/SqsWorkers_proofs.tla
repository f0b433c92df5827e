--------------------------- MODULE SqsWorkers_proofs ---------------------------
(***************************************************************************)
(* Proofs about SqsWorkers, for any jobs, workers, budgets and faults.     *)
(***************************************************************************)
EXTENDS SqsWorkers, PostgresOutcomes_proofs

-----------------------------------------------------------------------------
(* The worker's handling of a message and the agent's turn go together.     *)
HandlingOK(w) ==
    LET h == handling[w] IN
    /\ h.step # "free" => h.msg \in Messages
    /\ h.step = "run" <=> pc[w] # "idle"
    /\ h.step = "run" => job[w] = h.msg[1]
    /\ h.step \in {"fan_out", "undo"} => IsCoordinator(h.msg[1])
    /\ h.step = "fan_out" => h.next \in Partitions(h.msg[1][1])

SqsTypeInv == /\ TypeInv /\ SqsTypeOK /\ IsFiniteSet(queue)
              /\ \A w \in Workers : HandlingOK(w)

(* Requests are never taken back.                                           *)
Grows == \A r \in Roots : input[r] # NoRequest => input'[r] = input[r]

(* A step that moves no claim and no row.                                   *)
Stays == UNCHANGED <<tableVars, pc, job, seen>> /\ faults' \in Nat

LEMMA AgentFacts ==
    /\ \A w \in Workers : w \in Agents /\ w \notin Runners
    /\ \A c \in Runners : c \in Agents /\ c \notin Workers
  BY WorkersAssumption DEF Agents

(* A copy of a message gets a number of its own.                            *)
LEMMA SendFacts ==
    ASSUME IsFiniteSet(queue), NEW j, Send(j)
    PROVE  IsFiniteSet(queue') /\ \E i \in Nat \ {0} : queue' = queue \cup {<<j, i>>}
<1> DEFINE held == {handling[w].msg : w \in Workers}
           some == {n \in queue \cup held : n # NoMessage /\ n[1] = j}
           used == {m[2] : m \in some}
           f == [w \in Workers |-> handling[w].msg]
           g == [m \in some |-> m[2]]
           id == CHOOSE i \in 1..Cardinality(used) + 1 : i \notin used
<1>1. f \in Surjection(Workers, held)
  BY DEF Surjection
<1>2. IsFiniteSet(held)
  <2> HIDE DEF f, held
  <2> QED
    BY <1>1, WorkersFiniteAssumption, FS_Surjection
<1>3. IsFiniteSet(some)
  <2>1. IsFiniteSet(queue \cup held)
    BY <1>2, FS_Union
  <2>2. some \in SUBSET (queue \cup held)
    OBVIOUS
  <2> QED
    BY <2>1, <2>2, FS_Subset
<1>4. g \in Surjection(some, used)
  BY DEF Surjection
<1>5. IsFiniteSet(used) /\ Cardinality(used) \in Nat
  <2> HIDE DEF g, some, used
  <2>1. IsFiniteSet(used)
    BY <1>3, <1>4, FS_Surjection
  <2> QED
    BY <2>1, FS_CardinalityType
<1>6. \E i \in 1..Cardinality(used) + 1 : i \notin used
  <2> HIDE DEF used
  <2> SUFFICES ASSUME 1..Cardinality(used) + 1 \subseteq used PROVE FALSE
    OBVIOUS
  <2>1. Cardinality(1..Cardinality(used) + 1) = Cardinality(used) + 1
    BY <1>5, FS_Interval
  <2>2. Cardinality(1..Cardinality(used) + 1) <= Cardinality(used)
    BY <1>5, FS_Subset
  <2> QED
    BY <1>5, <2>1, <2>2
<1>7. id \in Nat \ {0}
  <2> HIDE DEF used
  <2>1. id \in 1..Cardinality(used) + 1
    BY <1>6
  <2> HIDE DEF id
  <2> QED
    BY <1>5, <2>1
<1>8. queue' = queue \cup {<<j, id>>}
  BY DEF Send
<1>9. IsFiniteSet(queue')
  BY <1>8, FS_AddElement
<1> QED
  BY <1>7, <1>8, <1>9

LEMMA SentIsThere ==
    ASSUME IsFiniteSet(queue), NEW j, Send(j)
    PROVE  \E m \in queue' : m[1] = j
<1>1. PICK i \in Nat \ {0} : queue' = queue \cup {<<j, i>>}
  BY SendFacts
<1>2. <<j, i>> \in queue' /\ <<j, i>>[1] = j
  BY <1>1
<1> QED
  BY <1>2

-----------------------------------------------------------------------------
(* What SqsWorkers' steps are to the table and to the agents' turns: those  *)
(* of PostgresWorkers but for the claim by id of a worker, faults that      *)
(* touch neither, and the undoing of a fan-out.                             *)

ClaimBy(a, j) == Claim(j) /\ Take(a, j)
Undo(w) == UndoFanOut(w) /\ At(w, "undo")

LEMMA AtOnce ==
    ASSUME SqsTypeInv, NEW w \in Workers
    PROVE  /\ handling[w] \in Handling
           /\ ~At(w, "free") => /\ handling[w].msg \in Messages /\ JobOf(w) \in JobIds
                                /\ JobOf(w)[1] \in Roots
  BY JobIdFacts DEF SqsTypeInv, SqsTypeOK, HandlingOK, Messages, At, JobOf

LEMMA FaultStays ==
    ASSUME SqsTypeInv, NEW kind, NEW r, QueueFault(kind, r)
    PROVE  Stays
  BY DEF QueueFault, Stays, SqsTypeInv, TypeInv, TypeOK

LEMMA WorkerShapes ==
    ASSUME SqsTypeInv, NEW w \in Workers, SqsStep(w) \/ SqsSaveFails(w) \/ SqsFault(w)
    PROVE  \/ Step(w) \/ AgentFault(w)
           \/ Stays
           \/ Undo(w)
<1>1. faults \in Nat
  BY DEF SqsTypeInv, TypeInv, TypeOK
<1>2. CASE LookUp(w) \/ DeleteMessage(w) \/ DeadLetter(w) \/ EnqueuePartition(w)
  BY <1>1, <1>2 DEF LookUp, DeleteMessage, DeadLetter, EnqueuePartition, Stays, vars, agentVars
<1>3. CASE SqsSave(w) \/ SqsReject(w) \/ SqsReset(w) \/ SqsFanOut(w)
  BY <1>3 DEF SqsSave, SqsReject, SqsReset, SqsFanOut, Step
<1>4. CASE UndoFanOut(w)
  BY <1>4 DEF UndoFanOut, Undo
<1>5. CASE SqsSaveFails(w)
  BY <1>5 DEF SqsSaveFails, AgentFault
<1>6. CASE DeleteFails(w) \/ DeadLetterFails(w) \/ EnqueuePartitionFails(w)
  BY <1>6, FaultStays DEF DeleteFails, DeadLetterFails, EnqueuePartitionFails
<1>7. CASE SqsAbandon(w)
  BY <1>1, <1>7 DEF SqsAbandon, AgentFault, Fault, Stays
<1> QED
  BY <1>2, <1>3, <1>4, <1>5, <1>6, <1>7 DEF SqsStep, SqsFault

LEMMA SqsShapes ==
    ASSUME SqsTypeInv, SqsNext
    PROVE  \/ [Next]_vars
           \/ \E a \in Agents, j \in JobIds : ClaimBy(a, j)
           \/ Stays
           \/ \E w \in Workers : Undo(w)
<1>1. ASSUME NEW r \in Roots, NEW q \in Requests, PostJob(r, q)
      PROVE  Next
  BY <1>1 DEF PostJob, Next
<1>2. ASSUME NEW r \in Roots, Enqueue(r) \/ EnqueueFails(r)
      PROVE  UNCHANGED vars \/ Stays
  BY <1>2, FaultStays DEF Enqueue, EnqueueFails
<1>3. ASSUME SqsClear \/ SqsClearFails
      PROVE  Next
  BY <1>3 DEF SqsClear, SqsClearFails, Next
<1>4. ASSUME NEW w \in Workers, NEW m \in queue, SqsReceive(w, m)
      PROVE  UNCHANGED vars \/ \E a \in Agents, j \in JobIds : ClaimBy(a, j)
  <2>1. w \in Agents /\ m[1] \in JobIds
    BY AgentFacts DEF SqsTypeInv, SqsTypeOK, Messages
  <2> QED
    BY <1>4, <2>1 DEF SqsReceive, ClaimJobById, ClaimBy
<1>5. ASSUME NEW w \in Workers, SqsStep(w) \/ SqsSaveFails(w) \/ SqsFault(w)
      PROVE  Next \/ Stays \/ Undo(w)
  BY <1>5, WorkerShapes, AgentFacts DEF Next
<1>6. ASSUME NEW m \in queue, Redrive(m)
      PROVE  Stays
  BY <1>6, FaultStays DEF Redrive
<1>7. ASSUME NEW c \in Runners, ByHand(c) \/ SaveByHand(c) \/ FanOutByHand(c) \/ AbandonByHand(c)
      PROVE  Next
  BY <1>7, AgentFacts
  DEF ByHand, SaveByHand, FanOutByHand, AbandonByHand, Next, Step, AgentFault
<1> QED
  BY <1>1, <1>2, <1>3, <1>4, <1>5, <1>6, <1>7 DEF SqsNext

(* An undone fan-out is a reset of the parent.                              *)
LEMMA TypeUndo ==
    ASSUME SqsTypeInv, NEW w \in Workers, Undo(w)
    PROVE  TypeInv'
<1>1. /\ input' = input /\ now' = now /\ doomed' = doomed
      /\ pc' = pc /\ job' = job /\ seen' = seen /\ faults' = faults
      /\ JobOf(w) \in JobIds /\ jobs \in [JobIds -> Row]
  BY AtOnce DEF Undo, At, UndoFanOut, ResetRunningJobToPending, agentVars,
                SqsTypeInv, TypeInv, TypeOK
<1> DEFINE j == JobOf(w)
<1>2. \/ jobs' = jobs
      \/ jobs' = [jobs EXCEPT ![j] = [@ EXCEPT !.status = "PENDING", !.error = "save_failed"]]
         /\ jobs[j].status = "RUNNING"
  BY DEF Undo, UndoFanOut, ResetRunningJobToPending
<1>3. \A row \in Row : [row EXCEPT !.status = "PENDING", !.error = "save_failed"] \in Row
  BY DEF Row, Statuses, Errors
<1> HIDE DEF j
<1>4. /\ jobs' \in [JobIds -> Row]
      /\ \A k \in JobIds : jobs'[k].status # "ABSENT" => jobs[k].status # "ABSENT"
  <2>1. CASE jobs' = jobs
    BY <1>1, <2>1
  <2>2. CASE /\ jobs[j].status = "RUNNING"
             /\ jobs' = [jobs EXCEPT ![j] = [@ EXCEPT !.status = "PENDING",
                                                      !.error = "save_failed"]]
    BY <1>1, <1>3, <2>2 DEF j
  <2> QED
    BY <1>2, <2>1, <2>2
<1>5. TypeOK'
  BY <1>1, <1>4 DEF SqsTypeInv, TypeInv, TypeOK
<1> QED
  BY <1>1, <1>4, <1>5, PostedKept DEF SqsTypeInv, TypeInv, Present

LEMMA TypeStays ==
    ASSUME TypeInv, Stays
    PROVE  TypeInv'
  BY DEF Stays, tableVars, TypeInv, TypeOK, RowsPosted, ClaimsPosted, Posted, Partitions,
         Present, IsPartition

LEMMA SqsTable ==
    ASSUME SqsTypeInv, SqsNext
    PROVE  TypeInv'
  BY SqsShapes, TypeStep, TypeClaim, TypeStays, TypeUndo DEF ClaimBy, SqsTypeInv

(* Requests stay as they were posted.                                       *)
LEMMA InputGrows == TypeInv /\ [Next]_vars => Grows
<1> SUFFICES ASSUME TypeInv, [Next]_vars PROVE Grows
  OBVIOUS
<1>0. input \in [Roots -> Requests \cup {NoRequest}]
  BY DEF TypeInv, TypeOK
<1>1. ASSUME NEW r \in Roots, NEW q \in Requests, CreateJob(r, q) \/ CreateFailingJob(r, q)
      PROVE  Grows
  BY <1>0, <1>1 DEF CreateJob, CreateFailingJob, InsertJob, Grows
<1>2. CASE ClearJobs \/ ClearJobsFails
  BY <1>2 DEF ClearJobs, StartDelete, FinishDelete, ClearJobsFails, Grows
<1>3. ASSUME NEW a \in Agents, NEW j \in JobIds, Receive(a, j) \/ RunById(a, j)
      PROVE  Grows
  BY <1>3 DEF Receive, ClaimNextPendingJob, RunById, ClaimJobById, Claim, Grows
<1>4. ASSUME NEW a \in Agents, Step(a) \/ AgentFault(a)
      PROVE  Grows
  BY <1>4
  DEF Step, SaveJobResult, SavePartitionResult, RejectPartitionResult, ResetPartition, FanOut,
      FanOutRejected, UpdateJobResult, UpdateIntegrationPartitionResult,
      ResetRunningJobToPending, EnsureJobPartitions, tableVars,
      AgentFault, Abandon, SavePartitionFails, SavePartitionReplyLost, Grows
<1>5. CASE UNCHANGED vars
  BY <1>5 DEF vars, tableVars, Grows
<1> QED
  BY <1>1, <1>2, <1>3, <1>4, <1>5 DEF Next, Agents

LEMMA SqsGrows ==
    ASSUME SqsTypeInv, SqsNext
    PROVE  Grows
  BY SqsShapes, InputGrows
  DEF SqsTypeInv, ClaimBy, Claim, Stays, tableVars, Undo, UndoFanOut, ResetRunningJobToPending, Grows

-----------------------------------------------------------------------------
(* The queue, the dead-letter queue and the records of losses keep types.   *)

LEMMA PartitionFacts ==
    ASSUME TypeOK, NEW r \in Roots, Partitions(r) # {}
    PROVE  /\ input[r] # NoRequest
           /\ \E n \in 1..MaxPartitions : Partitions(r) = 1..n /\ Cardinality(1..n) = n
<1>1. NoRequest.task = "none"
  BY DEF NoRequest
<1>2. input[r].task = "monte_carlo_integration" /\ Partitions(r) = 1..Len(input[r].outcomes)
  BY DEF Partitions
<1>3. input[r] \in Requests /\ input[r] # NoRequest
  BY <1>1, <1>2 DEF TypeOK
<1>4. Len(input[r].outcomes) \in 1..MaxPartitions
  BY <1>3, RequestsAssumption
<1>5. Cardinality(1..Len(input[r].outcomes)) = Len(input[r].outcomes)
  BY <1>4, FS_Interval, MaxPartitionsAssumption
<1> QED
  BY <1>2, <1>3, <1>4, <1>5

SideTypes ==
    /\ IsFiniteSet(queue) /\ queue \subseteq Messages
    /\ dlq    \subseteq {"worker", "redrive"} \X JobIds
    /\ unsent \subseteq Roots
    /\ struck \subseteq (QueueFaultKinds \cup
                             {"abandon", "fan_out_by_hand", "failed_by_hand"}) \X Roots

LEMMA SideNow == SqsTypeInv => SideTypes
  BY DEF SqsTypeInv, SqsTypeOK, SideTypes

LEMMA SideSend ==
    ASSUME SqsTypeInv, NEW j \in JobIds, Send(j)
    PROVE  IsFiniteSet(queue') /\ queue' \subseteq Messages
  BY SendFacts, SideNow DEF SideTypes, SqsTypeInv, Messages

LEMMA SideRemove ==
    ASSUME SqsTypeInv, NEW m, queue' = queue \ {m}
    PROVE  IsFiniteSet(queue') /\ queue' \subseteq Messages
  BY FS_RemoveElement, SideNow DEF SideTypes

LEMMA SideFault ==
    ASSUME SqsTypeInv, NEW kind, NEW r \in Roots, QueueFault(kind, r)
    PROVE  struck' \subseteq (QueueFaultKinds \cup
                                 {"abandon", "fan_out_by_hand", "failed_by_hand"}) \X Roots
  BY SideNow DEF SideTypes, QueueFault

(* The partition whose message is sent next is one.                         *)
LEMMA NextToSend ==
    ASSUME SqsTypeInv, NEW w \in Workers, At(w, "fan_out")
    PROVE  /\ JobOf(w) \in JobIds /\ IsCoordinator(JobOf(w))
           /\ handling[w].next \in Partitions(JobOf(w)[1])
           /\ <<JobOf(w)[1], handling[w].next>> \in JobIds
<1>1. /\ JobOf(w) \in JobIds /\ JobOf(w)[1] \in Roots
      /\ handling[w].next \in Partitions(JobOf(w)[1])
      /\ IsCoordinator(JobOf(w))
  BY AtOnce DEF At, SqsTypeInv, HandlingOK, JobOf
<1>2. Partitions(JobOf(w)[1]) \subseteq 1..MaxPartitions
  BY <1>1, PartitionFacts, MaxPartitionsAssumption DEF SqsTypeInv, TypeInv
<1> QED
  BY <1>1, <1>2, MaxPartitionsAssumption DEF JobIds

LEMMA SideOfWorkers ==
    ASSUME SqsTypeInv, NEW w \in Workers, SqsStep(w) \/ SqsSaveFails(w) \/ SqsFault(w)
    PROVE  SideTypes'
<1> USE SideNow DEF SideTypes
<1>1. CASE LookUp(w) \/ SqsSave(w) \/ SqsReject(w) \/ SqsReset(w) \/ SqsFanOut(w)
           \/ UndoFanOut(w) \/ SqsSaveFails(w)
  BY <1>1 DEF LookUp, SqsSave, SqsReject, SqsReset, SqsFanOut, UndoFanOut, SqsSaveFails,
              queueVars
<1>2. CASE DeleteMessage(w)
  BY <1>2, SideRemove DEF DeleteMessage
<1>3. CASE DeadLetter(w)
  BY <1>3, AtOnce DEF DeadLetter, At
<1>4. CASE EnqueuePartition(w)
  BY <1>4, NextToSend, SideSend DEF EnqueuePartition
<1>5. CASE DeleteFails(w) \/ DeadLetterFails(w)
  BY <1>5, AtOnce, SideFault DEF DeleteFails, DeadLetterFails, At
<1>6. CASE EnqueuePartitionFails(w)
  <2>1. JobOf(w)[1] \in Roots /\ <<JobOf(w)[1], handling[w].next>> \in JobIds
    BY <1>6, AtOnce, NextToSend DEF EnqueuePartitionFails, At
  <2>2. IsFiniteSet(queue') /\ queue' \subseteq Messages
    BY <1>6, <2>1, SideSend DEF EnqueuePartitionFails
  <2> QED
    BY <1>6, <2>1, <2>2, SideFault DEF EnqueuePartitionFails
<1>7. CASE SqsAbandon(w)
  BY <1>7, AtOnce DEF SqsAbandon
<1> QED
  BY <1>1, <1>2, <1>3, <1>4, <1>5, <1>6, <1>7 DEF SqsStep, SqsFault

LEMMA SideStep ==
    ASSUME SqsTypeInv, SqsNext
    PROVE  SideTypes'
<1> USE SideNow DEF SideTypes
<1>1. ASSUME NEW r \in Roots, NEW q \in Requests, PostJob(r, q)
      PROVE  SideTypes'
  BY <1>1 DEF PostJob
<1>2. ASSUME NEW r \in Roots, Enqueue(r)
      PROVE  SideTypes'
  BY <1>2, SideSend, MaxPartitionsAssumption DEF Enqueue, JobIds
<1>3. ASSUME NEW r \in Roots, EnqueueFails(r)
      PROVE  SideTypes'
  BY <1>3, SideFault DEF EnqueueFails
<1>4. CASE SqsClear \/ SqsClearFails
  BY <1>4 DEF SqsClear, SqsClearFails, queueVars
<1>5. ASSUME NEW w \in Workers, NEW m \in queue, SqsReceive(w, m)
      PROVE  SideTypes'
  BY <1>5 DEF SqsReceive
<1>6. ASSUME NEW m \in queue, Redrive(m)
      PROVE  SideTypes'
  <2>1. m[1] \in JobIds /\ m[1][1] \in Roots
    BY JobIdFacts DEF Messages
  <2>2. /\ QueueFault("redrive", m[1][1])
        /\ queue' = queue \ {m} /\ unsent' = unsent
        /\ dlq' = dlq \cup {<<"redrive", m[1]>>}
    BY <1>6 DEF Redrive
  <2>3. IsFiniteSet(queue') /\ queue' \subseteq Messages
    BY <2>2, SideRemove
  <2>4. struck' \subseteq (QueueFaultKinds \cup
                               {"abandon", "fan_out_by_hand", "failed_by_hand"}) \X Roots
    BY <2>1, <2>2, SideFault
  <2> QED
    BY <2>1, <2>2, <2>3, <2>4
<1>7. ASSUME NEW c \in Runners, ByHand(c) \/ SaveByHand(c) \/ FanOutByHand(c) \/ AbandonByHand(c)
      PROVE  SideTypes'
  <2>1. pc[c] # "idle" => job[c] \in JobIds /\ job[c][1] \in Roots
    BY AgentFacts, JobIdFacts DEF SqsTypeInv, TypeInv, TypeOK
  <2>2. CASE ByHand(c)
    BY <2>2 DEF ByHand, queueVars
  <2>3. CASE SaveByHand(c)
    BY <2>1, <2>3 DEF SaveByHand, Running
  <2>4. CASE FanOutByHand(c) \/ AbandonByHand(c)
    BY <2>1, <2>4 DEF FanOutByHand, AbandonByHand, FanOut, Abandon, Running
  <2> QED
    BY <1>7, <2>2, <2>3, <2>4
<1> QED
  BY <1>1, <1>2, <1>3, <1>4, <1>5, <1>6, <1>7, SideOfWorkers DEF SqsNext

-----------------------------------------------------------------------------
(* A worker's handling keeps its type, and follows its turn.                *)

(* Only this worker moves.                                                  *)
OnlyMoves(w) ==
    /\ handling' \in [Workers -> Handling]
    /\ \A v \in Workers \ {w} :
          handling'[v] = handling[v] /\ pc'[v] = pc[v] /\ job'[v] = job[v]

LEMMA CoordinatorKept ==
    ASSUME SqsTypeInv, Grows, NEW j \in JobIds, IsCoordinator(j)
    PROVE  IsCoordinator(j)' /\ Partitions(j[1])' = Partitions(j[1])
<1>1. j[1] \in Roots /\ input[j[1]] # NoRequest
  BY JobIdFacts, PartitionFacts DEF IsCoordinator, SqsTypeInv, TypeInv
<1>2. input'[j[1]] = input[j[1]]
  BY <1>1 DEF Grows
<1> QED
  BY <1>2 DEF IsCoordinator, Partitions, IsPartition

LEMMA HandlingKept ==
    ASSUME SqsTypeInv, Grows, NEW v \in Workers, handling'[v] = handling[v],
           pc'[v] # "idle" <=> pc[v] # "idle", pc[v] # "idle" => job'[v] = job[v]
    PROVE  HandlingOK(v)'
<1>1. PICK h : h = handling[v]
  OBVIOUS
<1>2. /\ h.step # "free" => h.msg \in Messages
      /\ h.step = "run" <=> pc[v] # "idle"
      /\ h.step = "run" => job[v] = h.msg[1]
      /\ h.step \in {"fan_out", "undo"} => IsCoordinator(h.msg[1])
      /\ h.step = "fan_out" => h.next \in Partitions(h.msg[1][1])
  BY <1>1 DEF SqsTypeInv, HandlingOK
<1>3. ASSUME h.step \in {"fan_out", "undo"}
      PROVE  /\ IsCoordinator(h.msg[1])'
             /\ h.step = "fan_out" => h.next \in Partitions(h.msg[1][1])'
  <2>1. PICK k \in JobIds : k = h.msg[1]
    BY <1>2, <1>3 DEF Messages
  <2>2. IsCoordinator(k)
    BY <1>2, <1>3, <2>1
  <2>3. IsCoordinator(k)' /\ Partitions(k[1])' = Partitions(k[1])
    BY <2>2, CoordinatorKept
  <2> QED
    BY <1>2, <2>1, <2>3
<1>4. handling'[v] = h
  BY <1>1
<1>5. /\ h.step # "free" => h.msg \in Messages
      /\ h.step = "run" <=> pc'[v] # "idle"
      /\ h.step = "run" => job'[v] = h.msg[1]
  BY <1>2
<1>6. \A g : /\ g = handling[v]'
             /\ g.step # "free" => g.msg \in Messages
             /\ g.step = "run" <=> pc'[v] # "idle"
             /\ g.step = "run" => job'[v] = g.msg[1]
             /\ g.step \in {"fan_out", "undo"} => IsCoordinator(g.msg[1])'
             /\ g.step = "fan_out" => g.next \in Partitions(g.msg[1][1])'
             => HandlingOK(v)'
  BY DEF HandlingOK, IsCoordinator, IsPartition, Partitions
<1> QED
  BY <1>3, <1>4, <1>5, <1>6

LEMMA MovedTo ==
    ASSUME SqsTypeInv, NEW w \in Workers, NEW step \in Steps, GoTo(w, step)
    PROVE  /\ handling' \in [Workers -> Handling]
           /\ handling'[w].step = step
           /\ handling'[w].msg = handling[w].msg /\ handling'[w].next = handling[w].next
           /\ \A v \in Workers \ {w} : handling'[v] = handling[v]
<1>1. handling \in [Workers -> Handling]
  BY DEF SqsTypeInv, SqsTypeOK
<1>2. handling' = [handling EXCEPT ![w] = [handling[w] EXCEPT !.step = step]]
  BY <1>1 DEF GoTo
<1>3. /\ [handling[w] EXCEPT !.step = step] \in Handling
      /\ [handling[w] EXCEPT !.step = step].step = step
      /\ [handling[w] EXCEPT !.step = step].msg = handling[w].msg
      /\ [handling[w] EXCEPT !.step = step].next = handling[w].next
  BY <1>1 DEF Handling
<1> QED
  BY <1>1, <1>2, <1>3

LEMMA LetGo ==
    ASSUME SqsTypeInv, NEW w \in Workers, Keep(w)
    PROVE  /\ handling' \in [Workers -> Handling]
           /\ handling'[w].step = "free"
           /\ \A v \in Workers \ {w} : handling'[v] = handling[v]
<1>1. handling \in [Workers -> Handling] /\ Free \in Handling /\ Free.step = "free"
  BY MaxPartitionsAssumption DEF SqsTypeInv, SqsTypeOK, Free, Handling, Steps
<1> QED
  BY <1>1 DEF Keep

LEMMA AgentMoves ==
    ASSUME TypeInv, NEW a \in Agents, Release(a) \/ GoReset(a)
    PROVE  /\ Release(a) => pc'[a] = "idle"
           /\ GoReset(a) => pc'[a] = "resetting" /\ job'[a] = job[a]
           /\ \A b \in Agents \ {a} : pc'[b] = pc[b] /\ job'[b] = job[b]
  BY DEF TypeInv, TypeOK, Release, GoReset

LEMMA FreeIsOK ==
    ASSUME NEW w \in Workers, handling'[w].step = "free", pc'[w] = "idle"
    PROVE  HandlingOK(w)'
  BY DEF HandlingOK

LEMMA HandlingOfWorkers ==
    ASSUME SqsTypeInv, NEW w \in Workers, SqsStep(w) \/ SqsSaveFails(w) \/ SqsFault(w)
    PROVE  OnlyMoves(w) /\ HandlingOK(w)'
<1> PICK h \in Handling : h = handling[w]
  BY AtOnce
<1>0. /\ HandlingOK(w) /\ w \in Agents
      /\ h.step = "run" <=> pc[w] # "idle"
      /\ h.step # "free" => h.msg \in Messages
      /\ h.step = "run" => job[w] = h.msg[1]
  BY AgentFacts DEF SqsTypeInv, HandlingOK
<1>1. CASE LookUp(w) \/ DeleteMessage(w) \/ DeadLetter(w) \/ DeleteFails(w) \/ DeadLetterFails(w)
  <2>1. /\ pc' = pc /\ job' = job /\ h.step \notin {"run", "free"}
        /\ Keep(w) \/ GoTo(w, "delete")
    BY <1>1 DEF LookUp, DeleteMessage, DeadLetter, DeleteFails, DeadLetterFails,
                QueueFault, vars, agentVars, At
  <2>2. CASE Keep(w)
    BY <1>0, <2>1, <2>2, LetGo, FreeIsOK DEF OnlyMoves
  <2>3. CASE GoTo(w, "delete")
    BY <1>0, <2>1, <2>3, MovedTo DEF OnlyMoves, Steps, HandlingOK
  <2> QED
    BY <2>1, <2>2, <2>3
<1>2. CASE SqsSave(w)
  <2>1. Release(w) /\ h.step = "run"
    BY <1>2 DEF SqsSave, SaveJobResult, SavePartitionResult, At
  <2>2. Keep(w) \/ GoTo(w, "delete") \/ GoTo(w, "dead_letter")
    BY <1>2 DEF SqsSave, Finish, AfterRun
  <2>3. /\ pc'[w] = "idle"
        /\ \A v \in Workers \ {w} : pc'[v] = pc[v] /\ job'[v] = job[v]
    BY <1>0, <2>1, AgentMoves, AgentFacts DEF SqsTypeInv
  <2>4. CASE Keep(w)
    BY <2>3, <2>4, LetGo, FreeIsOK DEF OnlyMoves
  <2>5. CASE GoTo(w, "delete") \/ GoTo(w, "dead_letter")
    <3>1. /\ handling' \in [Workers -> Handling]
          /\ handling'[w].step \in {"delete", "dead_letter"}
          /\ handling'[w].msg = h.msg
          /\ \A v \in Workers \ {w} : handling'[v] = handling[v]
      BY <2>5, MovedTo DEF Steps
    <3> QED
      BY <1>0, <2>1, <2>3, <3>1 DEF OnlyMoves, HandlingOK
  <2> QED
    BY <2>2, <2>4, <2>5
<1>3. CASE SqsReject(w) \/ SqsSaveFails(w)
  <2>1. GoReset(w) /\ h.step = "run" /\ handling' = handling
    BY <1>3 DEF SqsReject, SqsSaveFails, RejectPartitionResult, SavePartitionFails, At, queueVars
  <2>2. /\ pc'[w] = "resetting" /\ job'[w] = job[w]
        /\ \A v \in Workers \ {w} : pc'[v] = pc[v] /\ job'[v] = job[v]
    BY <1>0, <2>1, AgentMoves, AgentFacts DEF SqsTypeInv
  <2>3. Grows
    BY <1>3 DEF SqsReject, SqsSaveFails, RejectPartitionResult, SavePartitionFails, tableVars,
                Grows
  <2>4. HandlingOK(w)'
    BY <1>0, <2>1, <2>2, <2>3, HandlingKept
  <2> QED
    BY <2>1, <2>2, <2>4 DEF OnlyMoves, SqsTypeInv, SqsTypeOK
<1>4. CASE SqsReset(w)
  <2>1. Release(w) /\ Keep(w)
    BY <1>4 DEF SqsReset, ResetPartition, FanOutRejected
  <2> QED
    BY <1>0, <2>1, AgentMoves, AgentFacts, LetGo, FreeIsOK DEF OnlyMoves, SqsTypeInv
<1>5. CASE UndoFanOut(w)
  <2>1. Keep(w) /\ pc' = pc /\ job' = job /\ h.step = "undo"
    BY <1>5 DEF UndoFanOut, agentVars, At
  <2> QED
    BY <1>0, <2>1, LetGo, FreeIsOK DEF OnlyMoves
<1>6. CASE SqsAbandon(w)
  <2>1. Keep(w) /\ h.step # "free"
    BY <1>6 DEF SqsAbandon, At
  <2>2. CASE At(w, "run")
    BY <1>0, <1>6, <2>1, <2>2, AgentMoves, AgentFacts, LetGo, FreeIsOK
    DEF OnlyMoves, SqsTypeInv, SqsAbandon, Abandon
  <2>3. CASE ~At(w, "run")
    BY <1>0, <1>6, <2>1, <2>3, LetGo, FreeIsOK DEF OnlyMoves, SqsAbandon, At
  <2> QED
    BY <2>2, <2>3
<1>7. CASE EnqueuePartitionFails(w)
  <2>1. /\ GoTo(w, "undo") /\ pc' = pc /\ job' = job /\ h.step = "fan_out" /\ input' = input
    BY <1>7 DEF EnqueuePartitionFails, QueueFault, At, tableVars
  <2>2. /\ handling' \in [Workers -> Handling] /\ handling'[w].step = "undo"
        /\ handling'[w].msg = h.msg
        /\ \A v \in Workers \ {w} : handling'[v] = handling[v]
    BY <2>1, MovedTo DEF Steps
  <2>3. IsCoordinator(h.msg[1])
    BY <1>0, <2>1 DEF HandlingOK
  <2> QED
    BY <1>0, <2>1, <2>2, <2>3 DEF OnlyMoves, HandlingOK, IsCoordinator, IsPartition, Partitions
<1>8. CASE EnqueuePartition(w)
  <2>1. /\ pc' = pc /\ job' = job /\ input' = input /\ h.step = "fan_out"
        /\ IF LastPartition(w) THEN GoTo(w, "delete")
           ELSE handling' = [handling EXCEPT ![w].next = @ + 1]
    BY <1>8 DEF EnqueuePartition, vars, agentVars, tableVars, At
  <2>2. CASE LastPartition(w)
    BY <1>0, <2>1, <2>2, MovedTo DEF OnlyMoves, Steps, HandlingOK
  <2>3. CASE ~LastPartition(w)
    <3>1. IsCoordinator(h.msg[1]) /\ h.next \in Partitions(h.msg[1][1])
      BY <1>0, <2>1 DEF HandlingOK
    <3>2. PICK n \in 1..MaxPartitions :
                 Partitions(h.msg[1][1]) = 1..n /\ Cardinality(1..n) = n
      BY <1>0, <2>1, <3>1, PartitionFacts, JobIdFacts DEF Messages, SqsTypeInv, TypeInv
    <3>3. h.next # n
      BY <2>3, <3>2 DEF LastPartition, JobOf
    <3>4. h.next + 1 \in 1..n /\ h.next + 1 \in 0..MaxPartitions
      BY <3>1, <3>2, <3>3, MaxPartitionsAssumption
    <3>5. handling \in [Workers -> Handling]
      BY DEF SqsTypeInv, SqsTypeOK
    <3>6. handling' = [handling EXCEPT ![w] = [h EXCEPT !.next = h.next + 1]]
      BY <2>1, <2>3, <3>5
    <3>7. /\ [h EXCEPT !.next = h.next + 1] \in Handling
          /\ [h EXCEPT !.next = h.next + 1].step = h.step
          /\ [h EXCEPT !.next = h.next + 1].msg = h.msg
          /\ [h EXCEPT !.next = h.next + 1].next = h.next + 1
      BY <3>4 DEF Handling
    <3>8. /\ handling' \in [Workers -> Handling]
          /\ handling'[w].step = h.step /\ handling'[w].msg = h.msg
          /\ handling'[w].next = h.next + 1
          /\ \A v \in Workers \ {w} : handling'[v] = handling[v]
      BY <3>5, <3>6, <3>7
    <3> QED
      BY <1>0, <2>1, <3>1, <3>2, <3>4, <3>8
      DEF OnlyMoves, HandlingOK, IsCoordinator, IsPartition, Partitions
  <2> QED
    BY <2>2, <2>3
<1>9. CASE SqsFanOut(w)
  <2>1. /\ Release(w) /\ input' = input /\ h.step = "run" /\ IsCoordinator(job[w])
        /\ handling' = [handling EXCEPT ![w] = [h EXCEPT !.step = "fan_out", !.next = 1]]
    BY <1>9 DEF SqsFanOut, FanOut, EnsureJobPartitions, At
  <2>2. PICK n \in 1..MaxPartitions : Partitions(h.msg[1][1]) = 1..n
    BY <1>0, <2>1, PartitionFacts, JobIdFacts
    DEF IsCoordinator, Messages, SqsTypeInv, TypeInv
  <2>0. 1 \in 0..MaxPartitions /\ "fan_out" \in Steps
    BY MaxPartitionsAssumption DEF Steps
  <2>3. /\ [h EXCEPT !.step = "fan_out", !.next = 1] \in Handling
        /\ [h EXCEPT !.step = "fan_out", !.next = 1].step = "fan_out"
        /\ [h EXCEPT !.step = "fan_out", !.next = 1].msg = h.msg
        /\ [h EXCEPT !.step = "fan_out", !.next = 1].next = 1
    BY <2>0 DEF Handling
  <2>4. handling \in [Workers -> Handling]
    BY DEF SqsTypeInv, SqsTypeOK
  <2>5. /\ handling' \in [Workers -> Handling]
        /\ handling'[w].step = "fan_out" /\ handling'[w].msg = h.msg /\ handling'[w].next = 1
        /\ \A v \in Workers \ {w} : handling'[v] = handling[v]
    BY <2>1, <2>3, <2>4
  <2>6. /\ pc'[w] = "idle"
        /\ \A v \in Workers \ {w} : pc'[v] = pc[v] /\ job'[v] = job[v]
    BY <1>0, <2>1, AgentMoves, AgentFacts DEF SqsTypeInv
  <2>7. 1 \in Partitions(h.msg[1][1])
    BY <2>2, MaxPartitionsAssumption
  <2> QED
    BY <1>0, <2>1, <2>5, <2>6, <2>7
    DEF OnlyMoves, HandlingOK, IsCoordinator, IsPartition, Partitions
<1> QED
  BY <1>1, <1>2, <1>3, <1>4, <1>5, <1>6, <1>7, <1>8, <1>9 DEF SqsStep, SqsFault

LEMMA HandlingOfReceive ==
    ASSUME SqsTypeInv, NEW w \in Workers, NEW m \in queue, SqsReceive(w, m)
    PROVE  OnlyMoves(w) /\ HandlingOK(w)'
<1> DEFINE step == IF jobs[m[1]].status = "PENDING" THEN "run" ELSE "check"
           h == [step |-> step, msg |-> m, next |-> 0]
<1>1. /\ m \in Messages /\ handling \in [Workers -> Handling]
      /\ handling' = [handling EXCEPT ![w] = h]
      /\ handling[w].step = "free" /\ HandlingOK(w) /\ w \in Agents
  BY AgentFacts DEF SqsReceive, SqsTypeInv, SqsTypeOK, At
<1>2. h \in Handling
  BY <1>1, MaxPartitionsAssumption DEF Handling, Steps
<1>3. /\ handling' \in [Workers -> Handling] /\ handling'[w] = h
      /\ \A v \in Workers \ {w} : handling'[v] = handling[v]
  <2> HIDE DEF h
  <2> QED
    BY <1>1, <1>2
<1>4. pc[w] = "idle"
  BY <1>1 DEF HandlingOK
<1>5. CASE jobs[m[1]].status = "PENDING"
  <2>1. Take(w, m[1])
    BY <1>5 DEF SqsReceive
  <2>2. /\ pc'[w] = "running" /\ job'[w] = m[1]
        /\ \A v \in Workers \ {w} : pc'[v] = pc[v] /\ job'[v] = job[v]
    BY <1>1, <2>1, AgentFacts DEF Take, SqsTypeInv, TypeInv, TypeOK
  <2> QED
    BY <1>1, <1>3, <1>5, <2>2 DEF OnlyMoves, HandlingOK
<1>6. CASE jobs[m[1]].status # "PENDING"
  <2>1. pc' = pc /\ job' = job
    BY <1>6 DEF SqsReceive, vars, agentVars
  <2> QED
    BY <1>1, <1>3, <1>4, <1>6, <2>1 DEF OnlyMoves, HandlingOK
<1> QED
  BY <1>5, <1>6

(* A client, a fault of the queue or a run by hand moves no worker.         *)
NoneMoves ==
    handling' = handling /\ \A v \in Workers : pc'[v] = pc[v] /\ job'[v] = job[v]

LEMMA NoneMovesByHand ==
    ASSUME SqsTypeInv, NEW c \in Runners,
           ByHand(c) \/ SaveByHand(c) \/ FanOutByHand(c) \/ AbandonByHand(c)
    PROVE  NoneMoves
<1>1. handling' = handling
  BY DEF ByHand, SaveByHand, FanOutByHand, AbandonByHand, queueVars
<1>2. Release(c) \/ GoReset(c) \/ \E j \in JobIds : Take(c, j)
  BY DEF ByHand, SaveByHand, FanOutByHand, AbandonByHand, SavePartitionFails, RunById,
         SaveJobResult, SavePartitionResult, RejectPartitionResult, ResetPartition,
         FanOutRejected, FanOut, Abandon
<1>3. \A v \in Workers : v # c /\ v \in Agents
  BY AgentFacts
<1> QED
  BY <1>1, <1>2, <1>3, AgentFacts
  DEF NoneMoves, Release, GoReset, Take, SqsTypeInv, TypeInv, TypeOK

LEMMA WhoMoves ==
    ASSUME SqsTypeInv, SqsNext
    PROVE  \/ NoneMoves
           \/ \E w \in Workers : OnlyMoves(w) /\ HandlingOK(w)'
<1>1. ASSUME NEW r \in Roots, NEW q \in Requests, PostJob(r, q)
      PROVE  NoneMoves
  BY <1>1 DEF PostJob, CreateJob, CreateFailingJob, agentVars, NoneMoves
<1>2. ASSUME NEW r \in Roots, Enqueue(r) \/ EnqueueFails(r)
      PROVE  NoneMoves
  BY <1>2 DEF Enqueue, EnqueueFails, QueueFault, vars, agentVars, NoneMoves
<1>3. ASSUME SqsClear \/ SqsClearFails
      PROVE  NoneMoves
  BY <1>3 DEF SqsClear, SqsClearFails, ClearJobs, ClearJobsFails, agentVars, queueVars, NoneMoves
<1>4. ASSUME NEW m \in queue, Redrive(m)
      PROVE  NoneMoves
  BY <1>4 DEF Redrive, QueueFault, NoneMoves
<1> QED
  BY <1>1, <1>2, <1>3, <1>4, NoneMovesByHand, HandlingOfWorkers, HandlingOfReceive DEF SqsNext

LEMMA SqsTypeStep == SqsTypeInv /\ [SqsNext]_sqsVars => SqsTypeInv'
<1> SUFFICES ASSUME SqsTypeInv, [SqsNext]_sqsVars PROVE SqsTypeInv'
  OBVIOUS
<1>1. CASE SqsNext
  <2>1. TypeInv' /\ SideTypes' /\ Grows
    BY <1>1, SqsTable, SideStep, SqsGrows
  <2>2. handling \in [Workers -> Handling] /\ \A w \in Workers : HandlingOK(w)
    BY DEF SqsTypeInv, SqsTypeOK
  <2>3. handling' \in [Workers -> Handling] /\ \A w \in Workers : HandlingOK(w)'
    <3>1. CASE NoneMoves
      BY <2>1, <2>2, <3>1, HandlingKept DEF NoneMoves
    <3>2. ASSUME NEW w \in Workers, OnlyMoves(w), HandlingOK(w)'
          PROVE  handling' \in [Workers -> Handling] /\ \A v \in Workers : HandlingOK(v)'
      BY <2>1, <3>2, HandlingKept DEF OnlyMoves
    <3> QED
      BY <1>1, <3>1, <3>2, WhoMoves
  <2>4. TypeOK'
    BY <2>1 DEF TypeInv
  <2> QED
    BY <2>1, <2>3, <2>4 DEF SqsTypeInv, SqsTypeOK, SideTypes
<1>2. CASE UNCHANGED sqsVars
  <2>1. /\ UNCHANGED vars /\ queue' = queue /\ dlq' = dlq /\ unsent' = unsent
        /\ handling' = handling /\ struck' = struck /\ pc' = pc /\ job' = job /\ input' = input
    BY <1>2 DEF sqsVars, queueVars, vars, agentVars, tableVars
  <2>2. TypeInv' /\ TypeOK'
    BY <2>1, TypeStep DEF SqsTypeInv, TypeInv
  <2>3. Grows
    BY <2>1 DEF Grows
  <2>4. \A w \in Workers : HandlingOK(w)'
    BY <2>1, <2>3, HandlingKept
  <2> QED
    BY <2>1, <2>2, <2>4 DEF SqsTypeInv, SqsTypeOK
<1> QED
  BY <1>1, <1>2

LEMMA SqsTypeInit == SqsInit => SqsTypeInv
<1> SUFFICES ASSUME SqsInit PROVE SqsTypeInv
  OBVIOUS
<1>1. TypeInv /\ TypeOK
  BY TypeInit DEF SqsInit, TypeInv
<1>2. Free \in Handling /\ Free.step = "free"
  BY MaxPartitionsAssumption DEF Free, Handling, Steps
<1>3. /\ queue = {} /\ dlq = {} /\ unsent = {} /\ struck = {}
      /\ \A w \in Workers : handling[w] = Free /\ pc[w] = "idle"
      /\ handling \in [Workers -> Handling]
  BY <1>2, AgentFacts DEF SqsInit, Init
<1>4. IsFiniteSet({})
  BY FS_EmptySet
<1> QED
  BY <1>1, <1>2, <1>3, <1>4 DEF SqsTypeInv, SqsTypeOK, HandlingOK

LEMMA SqsTypeAlways == SqsSpec => []SqsTypeInv
  BY SqsTypeInit, SqsTypeStep, PTL DEF SqsSpec

(* The queue, its messages and the workers' handling of them keep types: a  *)
(* worker has an agent's turn exactly while it runs the job of its message, *)
(* and a partition that is enqueued is one of its job's.                    *)
THEOREM SqsTypeCorrect == SqsSpec => []SqsTypeOK
<1>1. SqsTypeInv => SqsTypeOK
  BY DEF SqsTypeInv
<1> QED
  BY <1>1, SqsTypeAlways, PTL

-----------------------------------------------------------------------------
(* What goes does not come back.                                            *)

(* A job that was posted, and a partition that is gone only with its parent.*)
Known(j) == Posted(j) /\ (jobs[j].status = "ABSENT" => jobs[Parent(j)].status = "ABSENT")

GivenUpForGood(j) == Known(j) /\ jobs[j].status \in {"FAILED", "ABSENT"}

(* A row appears when its root is posted or under a parent that is there,   *)
(* and goes with its parent.                                                *)
FamiliesMove ==
    \A j \in JobIds :
        /\ jobs[j].status = "ABSENT" /\ jobs'[j].status # "ABSENT" =>
              IF IsPartition(j) THEN jobs[Parent(j)].status # "ABSENT"
              ELSE input[j[1]] = NoRequest
        /\ jobs[j].status # "ABSENT" /\ jobs'[j].status = "ABSENT" =>
              jobs'[Parent(j)].status = "ABSENT"

LEMMA FamiliesStay ==
    ASSUME \A j \in JobIds : jobs'[j].status = "ABSENT" <=> jobs[j].status = "ABSENT"
    PROVE  FamiliesMove
  BY DEF FamiliesMove

LEMMA ResetStays ==
    ASSUME TypeInv, NEW j \in JobIds, ResetRunningJobToPending(j)
    PROVE  /\ input' = input
           /\ \A k \in JobIds \ {j} : jobs'[k] = jobs[k]
           /\ jobs[j].status # "RUNNING" => jobs'[j] = jobs[j]
           /\ jobs[j].status = "RUNNING" => /\ jobs'[j].status = "PENDING"
                                            /\ jobs'[j].error = "save_failed"
                                            /\ jobs'[j].retry_count = jobs[j].retry_count
<1>1. jobs \in [JobIds -> Row]
  BY DEF TypeInv, TypeOK
<1>2. input' = input
  BY DEF ResetRunningJobToPending
<1>3. CASE jobs[j].status = "RUNNING"
  <2>1. jobs' = [jobs EXCEPT ![j] = [@ EXCEPT !.status = "PENDING", !.error = "save_failed"]]
    BY <1>3 DEF ResetRunningJobToPending
  <2> QED
    BY <1>1, <1>2, <1>3, <2>1 DEF Row
<1>4. CASE jobs[j].status # "RUNNING"
  BY <1>2, <1>4 DEF ResetRunningJobToPending
<1> QED
  BY <1>3, <1>4

LEMMA ClaimShape ==
    ASSUME TypeInv, NEW j \in JobIds, Claim(j)
    PROVE  /\ input' = input /\ jobs[j].status = "PENDING"
           /\ jobs'[j].status = "RUNNING" /\ jobs'[j].error = "none"
           /\ jobs'[j].retry_count = jobs[j].retry_count
           /\ \A k \in JobIds \ {j} : jobs'[k] = jobs[k]
<1>1. /\ jobs \in [JobIds -> Row] /\ jobs[j].status = "PENDING" /\ input' = input
      /\ jobs' = [jobs EXCEPT ![j] = [@ EXCEPT !.status = "RUNNING", !.error = "none"]]
  BY DEF TypeInv, TypeOK, Claim
<1> QED
  BY <1>1 DEF Row

LEMMA FamiliesOfAgents ==
    ASSUME TypeInv, NEW a \in Agents, Step(a) \/ AgentFault(a)
    PROVE  FamiliesMove
<1>1. CASE SaveJobResult(a) \/ SavePartitionResult(a) \/ SavePartitionReplyLost(a)
  BY <1>1, SaveShape, FamiliesStay
<1>2. CASE \/ RejectPartitionResult(a) \/ FanOutRejected(a)
           \/ Abandon(a) \/ SavePartitionFails(a)
  BY <1>2 DEF RejectPartitionResult, FanOutRejected, Abandon, SavePartitionFails, tableVars,
              FamiliesMove
<1>3. CASE ResetPartition(a)
  <2>1. job[a] \in JobIds
    BY <1>3 DEF ResetPartition, TypeInv, TypeOK
  <2> QED
    BY <1>3, <2>1, ResetStays, FamiliesStay DEF ResetPartition
<1>4. CASE FanOut(a)
  <2>1. /\ jobs[<<job[a][1], 0>>].status # "ABSENT"
        /\ jobs' = [j \in JobIds |-> IF j \in PartitionIds(job[a][1]) /\ jobs[j].status = "ABSENT"
                                     THEN NewRow(now) ELSE jobs[j]]
    BY <1>4 DEF FanOut, EnsureJobPartitions, Present
  <2>2. \A j \in PartitionIds(job[a][1]) : IsPartition(j) /\ Parent(j) = <<job[a][1], 0>>
    BY DEF PartitionIds, Partitions, IsPartition, Parent
  <2>3. NewRow(now).status = "PENDING"
    BY DEF NewRow
  <2> QED
    BY <2>1, <2>2, <2>3 DEF FamiliesMove
<1> QED
  BY <1>1, <1>2, <1>3, <1>4 DEF Step, AgentFault

LEMMA FamiliesOfNext == TypeInv /\ [Next]_vars => FamiliesMove
<1> SUFFICES ASSUME TypeInv, [Next]_vars PROVE FamiliesMove
  OBVIOUS
<1>0. jobs \in [JobIds -> Row]
  BY DEF TypeInv, TypeOK
<1>1. ASSUME NEW r \in Roots, NEW q \in Requests, CreateJob(r, q) \/ CreateFailingJob(r, q)
      PROVE  FamiliesMove
  <2>1. input[r] = NoRequest /\ jobs' = [jobs EXCEPT ![<<r, 0>>] = NewRow(now)]
    BY <1>1 DEF CreateJob, CreateFailingJob, InsertJob
  <2>2. NewRow(now).status = "PENDING"
    BY DEF NewRow
  <2>3. ~IsPartition(<<r, 0>>)
    BY DEF IsPartition
  <2> QED
    BY <1>0, <2>1, <2>2, <2>3 DEF FamiliesMove
<1>2. ASSUME ClearJobs \/ ClearJobsFails
      PROVE  FamiliesMove
  <2>1. \/ jobs' = jobs
        \/ jobs' = [j \in JobIds |-> IF j[1] \in doomed THEN NoRow ELSE jobs[j]]
    BY <1>2 DEF ClearJobs, ClearJobsFails, StartDelete, FinishDelete
  <2>2. NoRow.status = "ABSENT" /\ \A j \in JobIds : Parent(j) \in JobIds /\ Parent(j)[1] = j[1]
    BY ParentFacts DEF NoRow
  <2> QED
    BY <2>1, <2>2 DEF FamiliesMove
<1>3. ASSUME NEW a \in Agents, NEW j \in JobIds, Receive(a, j) \/ RunById(a, j)
      PROVE  FamiliesMove
  BY <1>3, ClaimShape, FamiliesStay DEF Receive, ClaimNextPendingJob, RunById, ClaimJobById
<1>4. CASE UNCHANGED vars
  BY <1>4 DEF vars, tableVars, FamiliesMove
<1> QED
  BY <1>1, <1>2, <1>3, <1>4, FamiliesOfAgents DEF Next, Agents

LEMMA SqsFamilies ==
    ASSUME SqsTypeInv, SqsNext
    PROVE  FamiliesMove
<1>1. TypeInv
  BY DEF SqsTypeInv
<1>2. ASSUME NEW a \in Agents, NEW j \in JobIds, ClaimBy(a, j)
      PROVE  FamiliesMove
  BY <1>1, <1>2, ClaimShape, FamiliesStay DEF ClaimBy
<1>3. CASE Stays
  BY <1>3 DEF Stays, tableVars, FamiliesMove
<1>4. ASSUME NEW w \in Workers, Undo(w)
      PROVE  FamiliesMove
  <2>1. JobOf(w) \in JobIds
    BY <1>4, AtOnce DEF Undo, At
  <2> QED
    BY <1>1, <1>4, <2>1, ResetStays, FamiliesStay DEF Undo, UndoFanOut
<1> QED
  BY <1>1, <1>2, <1>3, <1>4, SqsShapes, FamiliesOfNext

LEMMA KnownKept ==
    ASSUME SqsTypeInv, Grows, FamiliesMove, NEW j \in JobIds, Known(j)
    PROVE  /\ Known(j)'
           /\ jobs[j].status = "ABSENT" => jobs'[j].status = "ABSENT"
<1>1. Posted(j)' /\ input[j[1]] # NoRequest
  BY JobIdFacts DEF Known, Grows, Posted, IsPartition, Partitions
<1>2. /\ Parent(j) \in JobIds /\ ~IsPartition(Parent(j)) /\ Parent(j)[1] = j[1]
      /\ ~IsPartition(j) => Parent(j) = j
  BY ParentFacts
<1>3. jobs'[j].status = "ABSENT" => jobs'[Parent(j)].status = "ABSENT"
  BY <1>1, <1>2 DEF Known, FamiliesMove
<1>4. jobs[j].status = "ABSENT" => jobs'[j].status = "ABSENT"
  BY <1>1, <1>2 DEF Known, FamiliesMove
<1>5. Parent(j)' = Parent(j)
  BY DEF Parent
<1> QED
  BY <1>1, <1>3, <1>4, <1>5 DEF Known

-----------------------------------------------------------------------------
(* Who may write a row: the agent that claimed it, and the worker that sends*)
(* its partitions, for it may have to undo the fan-out.                     *)

Owns(a, j) ==
    \/ pc[a] # "idle" /\ job[a] = j
    \/ a \in Workers /\ handling[a].step \in {"fan_out", "undo"} /\ handling[a].msg[1] = j

OneOwner     == \A a, b \in Agents, j \in JobIds : Owns(a, j) /\ Owns(b, j) => a = b
OwnedIsTaken == \A a \in Agents, j \in JobIds : Owns(a, j) => jobs[j].status # "PENDING"

(* What an agent read at the claim of a job that has no partitions.         *)
CurrentRows ==
    \A a \in Agents :
        pc[a] # "idle" /\ jobs[job[a]].status # "ABSENT" /\ ~IsCoordinator(job[a]) =>
            /\ jobs[job[a]].status = "RUNNING"
            /\ jobs[job[a]].retry_count = seen[a]

SqsHeld == OneOwner /\ OwnedIsTaken /\ CurrentRows /\ OnlyPartitionsReset

(* Whatever the service still has a name of is known.                       *)
KnownJobs ==
    /\ \A a \in Agents  : pc[a] # "idle" => Known(job[a])
    /\ \A m \in queue   : Known(m[1])
    /\ \A r \in unsent  : Known(<<r, 0>>)
    /\ \A w \in Workers : /\ ~At(w, "free") => Known(JobOf(w))
                          /\ At(w, "fan_out") =>
                                \A k \in PartitionIds(JobOf(w)[1]) : Known(k)
                          /\ At(w, "dead_letter") => GivenUpForGood(JobOf(w))
    /\ \A j \in JobIds  : <<"worker", j>> \in dlq => GivenUpForGood(j)

SqsInv == SqsTypeInv /\ KnownJobs /\ SqsHeld

LEMMA OwnedIsKnown ==
    ASSUME SqsInv, NEW a \in Agents, NEW j, Owns(a, j)
    PROVE  j \in JobIds /\ Known(j)
<1>1. CASE pc[a] # "idle" /\ job[a] = j
  BY <1>1 DEF SqsInv, KnownJobs, SqsTypeInv, TypeInv, TypeOK
<1>2. CASE a \in Workers /\ handling[a].step \in {"fan_out", "undo"} /\ handling[a].msg[1] = j
  BY <1>2, AtOnce DEF SqsInv, KnownJobs, At, JobOf
<1> QED
  BY <1>1, <1>2 DEF Owns

(* The parent of a partition somebody knows has partitions.                 *)
LEMMA ParentIsCoordinator ==
    ASSUME TypeInv, NEW j \in JobIds, IsPartition(j), Posted(j)
    PROVE  IsCoordinator(Parent(j))
  BY ParentFacts DEF Posted, IsCoordinator

LEMMA SavesOfSqsAreCurrent ==
    ASSUME SqsInv
    PROVE  SavesAreCurrent
  BY DEF SavesAreCurrent, StillCurrent, SaveJobResult, SavePartitionResult, Running,
         SqsInv, SqsHeld, CurrentRows, IsCoordinator

(* What a step does to a row: as in PostgresWorkers, and a fan-out undone   *)
(* puts a RUNNING parent back.                                              *)
LEMMA SqsRowSteps ==
    ASSUME SqsInv, SqsNext, NEW j \in JobIds
    PROVE  RowStep(j)
<1>1. SqsTypeInv /\ TypeInv
  BY DEF SqsInv, SqsTypeInv
<1>2. CASE [Next]_vars
  BY <1>1, <1>2, RowStepsIfCurrent, SavesOfSqsAreCurrent, QueueFaultKindsAssumption
  DEF NoLostReply
<1>3. ASSUME NEW a \in Agents, NEW k \in JobIds, ClaimBy(a, k)
      PROVE  RowStep(j)
  BY <1>1, <1>3, ClaimShape DEF ClaimBy, RowStep
<1>4. CASE Stays
  BY <1>4 DEF Stays, tableVars, RowStep
<1>5. ASSUME NEW w \in Workers, Undo(w)
      PROVE  RowStep(j)
  <2>1. JobOf(w) \in JobIds
    BY <1>1, <1>5, AtOnce DEF Undo, At
  <2> QED
    BY <1>1, <1>5, <2>1, ResetStays DEF Undo, UndoFanOut, RowStep
<1> QED
  BY <1>1, <1>2, <1>3, <1>4, <1>5, SqsShapes

LEMMA GivenUpKept ==
    ASSUME SqsTypeInv, Grows, FamiliesMove, NEW j \in JobIds, RowStep(j), GivenUpForGood(j)
    PROVE  GivenUpForGood(j)'
  BY KnownKept DEF GivenUpForGood, RowStep

-----------------------------------------------------------------------------
(* What is known stays so, and new names are of jobs in the table.          *)

(* A worker that has partitions to send was already at it, or has just      *)
(* fanned out what it claimed.                                              *)
FanGoesOn(w) ==
    handling'[w].step \in {"fan_out", "undo"} =>
        /\ handling'[w].msg = handling[w].msg
        /\ \/ handling'[w] = handling[w] \/ handling[w].step = "fan_out"
           \/ /\ handling[w].step = "run" /\ handling'[w].step = "fan_out"
              /\ handling'[w].next = 1 /\ FanOut(w)

(* What a worker's move makes of the job it handles.                        *)
MessageKept(w) ==
    \/ handling'[w] = handling[w]
    \/ handling'[w].step = "free"
    \/ /\ handling[w].step # "free"
       /\ handling'[w].msg = handling[w].msg
       /\ handling'[w].step = "dead_letter" => SqsSave(w) /\ Update(w).status = "FAILED"
    \/ /\ handling'[w].step \in {"run", "check"}
       /\ handling[w].step = "free" /\ handling'[w].msg \in queue

LEMMA HandlingMoves ==
    ASSUME SqsTypeInv, NEW w \in Workers, SqsStep(w) \/ SqsSaveFails(w) \/ SqsFault(w)
    PROVE  FanGoesOn(w) /\ MessageKept(w)
<1>1. ASSUME Keep(w) \/ handling' = handling
      PROVE  FanGoesOn(w) /\ MessageKept(w)
  BY <1>1, LetGo DEF FanGoesOn, MessageKept
<1>2. ASSUME NEW step \in {"delete", "dead_letter", "undo"}, GoTo(w, step),
             ~At(w, "free"), step = "undo" => At(w, "fan_out"),
             step = "dead_letter" => SqsSave(w) /\ Update(w).status = "FAILED"
      PROVE  FanGoesOn(w) /\ MessageKept(w)
  BY <1>2, MovedTo DEF FanGoesOn, MessageKept, Steps, At
<1>3. CASE LookUp(w) \/ DeleteMessage(w) \/ DeadLetter(w) \/ DeleteFails(w) \/ DeadLetterFails(w)
  BY <1>1, <1>2, <1>3 DEF LookUp, DeleteMessage, DeadLetter, DeleteFails, DeadLetterFails, At
<1>4. CASE SqsSave(w)
  BY <1>1, <1>2, <1>4 DEF SqsSave, Finish, AfterRun, At
<1>5. CASE SqsReject(w) \/ SqsSaveFails(w)
  BY <1>1, <1>5 DEF SqsReject, SqsSaveFails, queueVars
<1>6. CASE SqsReset(w) \/ UndoFanOut(w) \/ SqsAbandon(w)
  BY <1>1, <1>6 DEF SqsReset, UndoFanOut, SqsAbandon
<1>7. CASE EnqueuePartitionFails(w)
  BY <1>2, <1>7 DEF EnqueuePartitionFails, At
<1> PICK h \in Handling : h = handling[w]
  BY AtOnce
<1>8. handling \in [Workers -> Handling]
  BY DEF SqsTypeInv, SqsTypeOK
<1>9. CASE EnqueuePartition(w)
  <2>1. CASE GoTo(w, "delete")
    BY <1>2, <1>9, <2>1 DEF EnqueuePartition, At
  <2>2. CASE handling' = [handling EXCEPT ![w].next = @ + 1]
    <3>1. handling'[w] = [h EXCEPT !.next = h.next + 1]
      BY <1>8, <2>2
    <3>2. handling'[w].step = h.step /\ handling'[w].msg = h.msg
      BY <3>1 DEF Handling
    <3> QED
      BY <1>9, <3>2 DEF EnqueuePartition, At, FanGoesOn, MessageKept
  <2> QED
    BY <1>9, <2>1, <2>2 DEF EnqueuePartition
<1>10. CASE SqsFanOut(w)
  <2>1. handling'[w] = [h EXCEPT !.step = "fan_out", !.next = 1]
    BY <1>8, <1>10 DEF SqsFanOut
  <2>2. /\ handling'[w].step = "fan_out" /\ handling'[w].msg = h.msg
        /\ handling'[w].next = 1
    BY <2>1 DEF Handling
  <2> QED
    BY <1>10, <2>2 DEF SqsFanOut, At, FanGoesOn, MessageKept
<1> QED
  BY <1>3, <1>4, <1>5, <1>6, <1>7, <1>9, <1>10 DEF SqsStep, SqsFault

(* Agents only go on with what they claimed, unless one of them claims.     *)
ClaimsGoOn ==
    \A b \in Agents : pc'[b] # "idle" =>
        /\ pc[b] # "idle" /\ job'[b] = job[b] /\ seen'[b] = seen[b]
        /\ pc'[b] = "resetting" => pc[b] = "resetting" \/ IsPartition(job[b])

LEMMA ClaimsOfAgents ==
    ASSUME TypeInv, NEW a \in Agents, Step(a) \/ AgentFault(a)
    PROVE  ClaimsGoOn
<1>1. pc[a] # "idle" /\ (Release(a) \/ (GoReset(a) /\ IsPartition(job[a])))
  <2>1. CASE SaveJobResult(a) \/ SavePartitionResult(a) \/ ResetPartition(a) \/ FanOut(a)
             \/ FanOutRejected(a) \/ Abandon(a)
    BY <2>1 DEF SaveJobResult, SavePartitionResult, ResetPartition, FanOut, FanOutRejected,
                Abandon, Running
  <2>2. CASE RejectPartitionResult(a) \/ SavePartitionFails(a) \/ SavePartitionReplyLost(a)
    BY <2>2 DEF RejectPartitionResult, SavePartitionFails, SavePartitionReplyLost, Running
  <2> QED
    BY <2>1, <2>2 DEF Step, AgentFault
<1> QED
  BY <1>1 DEF ClaimsGoOn, TypeInv, TypeOK, Release, GoReset, IsPartition

LEMMA ClaimsMove ==
    ASSUME SqsTypeInv, SqsNext
    PROVE  ClaimsGoOn \/ \E a \in Agents, j \in JobIds : ClaimBy(a, j)
<1>0. TypeInv
  BY DEF SqsTypeInv
<1>1. ASSUME pc' = pc, job' = job, seen' = seen
      PROVE  ClaimsGoOn
  BY <1>1 DEF ClaimsGoOn, IsPartition
<1>2. ASSUME NEW r \in Roots, NEW q \in Requests, CreateJob(r, q) \/ CreateFailingJob(r, q)
      PROVE  ClaimsGoOn
  BY <1>1, <1>2 DEF CreateJob, CreateFailingJob, agentVars
<1>3. ASSUME ClearJobs \/ ClearJobsFails
      PROVE  ClaimsGoOn
  BY <1>1, <1>3 DEF ClearJobs, ClearJobsFails, agentVars
<1>4. ASSUME NEW a \in Agents, NEW j \in JobIds, Receive(a, j) \/ RunById(a, j)
      PROVE  ClaimBy(a, j)
  BY <1>4 DEF Receive, ClaimNextPendingJob, RunById, ClaimJobById, ClaimBy
<1>5. ASSUME UNCHANGED vars \/ Stays \/ \E w \in Workers : Undo(w)
      PROVE  ClaimsGoOn
  BY <1>1, <1>5 DEF vars, agentVars, Stays, Undo, UndoFanOut
<1>6. ASSUME Next
      PROVE  ClaimsGoOn \/ \E a \in Agents, j \in JobIds : ClaimBy(a, j)
  BY <1>0, <1>2, <1>3, <1>4, <1>6, ClaimsOfAgents, AgentFacts DEF Next
<1> QED
  BY <1>5, <1>6, SqsShapes

(* A message sent is of a job that was known.                               *)
LEMMA SentIsKnown ==
    ASSUME SqsInv, NEW j, Known(j), IsFiniteSet(queue), Send(j), NEW m \in queue'
    PROVE  Known(m[1])
<1>1. PICK i \in Nat \ {0} : queue' = queue \cup {<<j, i>>}
  BY SendFacts
<1>2. CASE m \in queue
  BY <1>2 DEF SqsInv, KnownJobs
<1>3. CASE m = <<j, i>>
  BY <1>3
<1> QED
  BY <1>1, <1>2, <1>3

LEMMA PartitionKnown ==
    ASSUME SqsInv, NEW w \in Workers, At(w, "fan_out")
    PROVE  Known(<<JobOf(w)[1], handling[w].next>>)
<1>1. <<JobOf(w)[1], handling[w].next>> \in PartitionIds(JobOf(w)[1])
  BY NextToSend DEF PartitionIds, SqsInv
<1>2. \A k \in PartitionIds(JobOf(w)[1]) : Known(k)
  BY DEF SqsInv, KnownJobs
<1> QED
  BY <1>1, <1>2

LEMMA MessagesKnown ==
    ASSUME SqsInv, SqsNext
    PROVE  \A m \in queue' : Known(m[1])
<1>0. IsFiniteSet(queue) /\ SqsTypeInv /\ \A m \in queue : Known(m[1])
  BY DEF SqsInv, SqsTypeInv, KnownJobs
<1>1. ASSUME queue' \subseteq queue
      PROVE  \A m \in queue' : Known(m[1])
  BY <1>0, <1>1
<1>2. ASSUME NEW r \in Roots, Enqueue(r)
      PROVE  \A m \in queue' : Known(m[1])
  <2>1. Known(<<r, 0>>) /\ Send(<<r, 0>>)
    BY <1>2 DEF Enqueue, SqsInv, KnownJobs
  <2> QED
    BY <1>0, <2>1, SentIsKnown
<1>3. ASSUME NEW w \in Workers, EnqueuePartition(w) \/ EnqueuePartitionFails(w)
      PROVE  \A m \in queue' : Known(m[1])
  <2>1. Known(<<JobOf(w)[1], handling[w].next>>)
    BY <1>3, PartitionKnown DEF EnqueuePartition, EnqueuePartitionFails
  <2>2. UNCHANGED queue \/ Send(<<JobOf(w)[1], handling[w].next>>)
    BY <1>3 DEF EnqueuePartition, EnqueuePartitionFails
  <2> QED
    BY <1>0, <2>1, <2>2, SentIsKnown
<1>4. ASSUME NEW w \in Workers, SqsStep(w) \/ SqsSaveFails(w) \/ SqsFault(w),
             ~EnqueuePartition(w), ~EnqueuePartitionFails(w)
      PROVE  queue' \subseteq queue
  BY <1>4 DEF SqsStep, SqsFault, LookUp, DeleteMessage, DeadLetter, SqsSave, SqsReject,
              SqsReset, SqsFanOut, UndoFanOut, SqsSaveFails, DeleteFails, DeadLetterFails,
              SqsAbandon, queueVars
<1>5. ASSUME NEW c \in Runners, ByHand(c) \/ SaveByHand(c) \/ FanOutByHand(c) \/ AbandonByHand(c)
      PROVE  queue' \subseteq queue
  BY <1>5 DEF ByHand, SaveByHand, FanOutByHand, AbandonByHand, queueVars
<1>6. ASSUME NEW r \in Roots, EnqueueFails(r) \/ \E q \in Requests : PostJob(r, q)
      PROVE  queue' \subseteq queue
  BY <1>6 DEF EnqueueFails, PostJob
<1>7. ASSUME \/ SqsClear \/ SqsClearFails
             \/ \E m \in queue : Redrive(m) \/ \E w \in Workers : SqsReceive(w, m)
      PROVE  queue' \subseteq queue
  BY <1>7 DEF SqsClear, SqsClearFails, Redrive, SqsReceive, queueVars
<1> QED
  BY <1>1, <1>2, <1>3, <1>4, <1>5, <1>6, <1>7 DEF SqsNext

(* Only a worker that is to dead-letters its job.                           *)
LEMMA DeadLetteredBy ==
    ASSUME SqsNext, NEW j, <<"worker", j>> \in dlq'
    PROVE  \/ <<"worker", j>> \in dlq
           \/ \E w \in Workers : At(w, "dead_letter") /\ JobOf(w) = j
<1>1. ASSUME NEW w \in Workers, SqsStep(w) \/ SqsSaveFails(w) \/ SqsFault(w)
      PROVE  dlq' = dlq \/ DeadLetter(w)
  BY <1>1 DEF SqsStep, SqsFault, LookUp, DeleteMessage, SqsSave, SqsReject,
              SqsReset, SqsFanOut, EnqueuePartition, UndoFanOut, SqsSaveFails, DeleteFails,
              DeadLetterFails, EnqueuePartitionFails, SqsAbandon, queueVars
<1>2. ASSUME NEW m \in queue, Redrive(m)
      PROVE  dlq' = dlq \cup {<<"redrive", m[1]>>}
  BY <1>2 DEF Redrive
<1>3. ASSUME NEW m \in queue, NEW w \in Workers, SqsReceive(w, m)
      PROVE  dlq' = dlq
  BY <1>3 DEF SqsReceive
<1>4. ASSUME NEW c \in Runners, ByHand(c) \/ SaveByHand(c) \/ FanOutByHand(c) \/ AbandonByHand(c)
      PROVE  dlq' = dlq
  BY <1>4 DEF ByHand, SaveByHand, FanOutByHand, AbandonByHand, queueVars
<1>5. ASSUME NEW r \in Roots, Enqueue(r) \/ EnqueueFails(r) \/ \E q \in Requests : PostJob(r, q)
      PROVE  dlq' = dlq
  BY <1>5 DEF Enqueue, EnqueueFails, PostJob
<1>6. ASSUME SqsClear \/ SqsClearFails
      PROVE  dlq' = dlq
  BY <1>6 DEF SqsClear, SqsClearFails, queueVars
<1>7. ASSUME NEW w \in Workers, DeadLetter(w)
      PROVE  At(w, "dead_letter") /\ dlq' \subseteq dlq \cup {<<"worker", JobOf(w)>>}
  BY <1>7 DEF DeadLetter
<1>8. \/ <<"worker", j>> \in dlq
      \/ \E w \in Workers : DeadLetter(w)
      \/ \E m \in queue : Redrive(m)
  BY <1>1, <1>3, <1>4, <1>5, <1>6 DEF SqsNext
<1> QED
  BY <1>2, <1>7, <1>8

LEMMA EveryHandlingMoves ==
    ASSUME SqsTypeInv, SqsNext, NEW w \in Workers
    PROVE  FanGoesOn(w) /\ MessageKept(w)
<1>1. ASSUME handling'[w] = handling[w]
      PROVE  FanGoesOn(w) /\ MessageKept(w)
  BY <1>1 DEF FanGoesOn, MessageKept
<1>2. CASE NoneMoves
  BY <1>1, <1>2 DEF NoneMoves
<1>3. ASSUME NEW v \in Workers, SqsStep(v) \/ SqsSaveFails(v) \/ SqsFault(v)
      PROVE  FanGoesOn(w) /\ MessageKept(w)
  <2>1. CASE v = w
    BY <1>3, <2>1, HandlingMoves
  <2>2. CASE v # w
    BY <1>1, <1>3, <2>2, HandlingOfWorkers DEF OnlyMoves
  <2> QED
    BY <2>1, <2>2
<1>4. ASSUME NEW v \in Workers, NEW m \in queue, SqsReceive(v, m)
      PROVE  FanGoesOn(w) /\ MessageKept(w)
  <2>1. CASE v # w
    BY <1>1, <1>4, <2>1, HandlingOfReceive DEF OnlyMoves
  <2>2. CASE v = w
    <3> DEFINE step == IF jobs[m[1]].status = "PENDING" THEN "run" ELSE "check"
               h == [step |-> step, msg |-> m, next |-> 0]
    <3>1. handling \in [Workers -> Handling] /\ handling' = [handling EXCEPT ![w] = h]
          /\ handling[w].step = "free"
      BY <1>4, <2>2 DEF SqsReceive, At, SqsTypeInv, SqsTypeOK
    <3>2. h.step \in {"run", "check"} /\ h.msg = m
      OBVIOUS
    <3> HIDE DEF h
    <3>3. handling'[w] = h
      BY <3>1
    <3> QED
      BY <3>1, <3>2, <3>3 DEF FanGoesOn, MessageKept
  <2> QED
    BY <2>1, <2>2
<1>5. ASSUME NEW r \in Roots, \E q \in Requests : PostJob(r, q)
      PROVE  NoneMoves
  BY <1>5 DEF PostJob, CreateJob, CreateFailingJob, agentVars, NoneMoves
<1>6. ASSUME NEW r \in Roots, Enqueue(r) \/ EnqueueFails(r)
      PROVE  NoneMoves
  BY <1>6 DEF Enqueue, EnqueueFails, QueueFault, vars, agentVars, NoneMoves
<1>7. ASSUME SqsClear \/ SqsClearFails
      PROVE  NoneMoves
  BY <1>7 DEF SqsClear, SqsClearFails, ClearJobs, ClearJobsFails, agentVars, queueVars, NoneMoves
<1>8. ASSUME NEW m \in queue, Redrive(m)
      PROVE  NoneMoves
  BY <1>8 DEF Redrive, QueueFault, NoneMoves
<1> QED
  BY <1>2, <1>3, <1>4, <1>5, <1>6, <1>7, <1>8, NoneMovesByHand DEF SqsNext

(* A worker that dead-letters its job has given it up.                      *)
LEMMA SavedForGood ==
    ASSUME SqsTypeInv, NEW w \in Workers, NEW j, j = job[w], SqsSave(w),
           Update(w).status = "FAILED"
    PROVE  jobs'[j].status \in {"FAILED", "ABSENT"}
<1>1. /\ TypeInv /\ w \in Agents /\ pc[w] # "idle"
      /\ \/ UpdateJobResult(Update(w))
         \/ UpdateIntegrationPartitionResult(Update(w)) /\ IsPartition(job[w])
  BY AgentFacts DEF SqsSave, SaveJobResult, SavePartitionResult, Running, SqsTypeInv
<1>2. CASE jobs[j].status = "ABSENT"
  BY <1>1, <1>2, SavedRows
<1>3. CASE jobs[j].status # "ABSENT"
  BY <1>1, <1>3, SavedRows, UpdateTells
<1> QED
  BY <1>2, <1>3

LEMMA ToSend ==
    ASSUME SqsNext, NEW r \in unsent'
    PROVE  r \in unsent \/ \E q \in Requests : PostJob(r, q)
<1>1. ASSUME NEW x \in Roots, NEW q \in Requests, PostJob(x, q)
      PROVE  r \in unsent \/ r = x
  BY <1>1 DEF PostJob
<1>2. ASSUME NEW x \in Roots, Enqueue(x) \/ EnqueueFails(x)
      PROVE  r \in unsent
  BY <1>2 DEF Enqueue, EnqueueFails
<1>3. ASSUME SqsClear \/ SqsClearFails
      PROVE  r \in unsent
  BY <1>3 DEF SqsClear, SqsClearFails, queueVars
<1>4. ASSUME NEW m \in queue, Redrive(m) \/ \E w \in Workers : SqsReceive(w, m)
      PROVE  r \in unsent
  BY <1>4 DEF SqsReceive, Redrive
<1>5. ASSUME NEW w \in Workers, SqsStep(w) \/ SqsSaveFails(w) \/ SqsFault(w)
      PROVE  r \in unsent
  BY <1>5 DEF SqsStep, SqsFault, LookUp, DeleteMessage, DeadLetter, SqsSave, SqsReject,
              SqsReset, SqsFanOut, EnqueuePartition, UndoFanOut, SqsSaveFails, DeleteFails,
              DeadLetterFails, EnqueuePartitionFails, SqsAbandon, queueVars
<1>6. ASSUME NEW c \in Runners, ByHand(c) \/ SaveByHand(c) \/ FanOutByHand(c) \/ AbandonByHand(c)
      PROVE  r \in unsent
  BY <1>6 DEF ByHand, SaveByHand, FanOutByHand, AbandonByHand, queueVars
<1> QED
  BY <1>1, <1>2, <1>3, <1>4, <1>5, <1>6 DEF SqsNext

(* A row that is in the table is of a known job.                            *)
LEMMA PresentIsKnown ==
    ASSUME TypeInv, NEW j \in JobIds, jobs[j].status # "ABSENT"
    PROVE  Known(j)
  BY DEF TypeInv, RowsPosted, Present, Known

LEMMA KnownStep ==
    ASSUME SqsInv, SqsNext
    PROVE  KnownJobs'
<1>1. SqsTypeInv /\ TypeInv /\ SqsTypeInv' /\ TypeInv' /\ Grows /\ FamiliesMove
  BY SqsTypeStep, SqsGrows, SqsFamilies DEF SqsInv, SqsTypeInv
<1>2. \A j \in JobIds : Known(j) => Known(j)'
  BY <1>1, KnownKept
<1>3. \A j \in JobIds : GivenUpForGood(j) => GivenUpForGood(j)'
  BY <1>1, GivenUpKept, SqsRowSteps
<1>4. \A j \in JobIds : jobs'[j].status # "ABSENT" => Known(j)'
  BY <1>1 DEF TypeInv, RowsPosted, Present, Known
<1>5. \A a \in Agents : pc'[a] # "idle" => Known(job[a])'
  <2> SUFFICES ASSUME NEW a \in Agents, pc'[a] # "idle", NEW j, j = job'[a]
               PROVE  Known(j)'
    BY DEF Known, Posted, IsPartition, Parent, Partitions
  <2>1. CASE ClaimsGoOn
    <3>1. pc[a] # "idle" /\ job[a] = j
      BY <2>1 DEF ClaimsGoOn
    <3>2. Known(j) /\ j \in JobIds
      BY <3>1, <1>1 DEF SqsInv, KnownJobs, TypeInv, TypeOK
    <3> QED
      BY <1>2, <3>2
  <2>2. ASSUME NEW b \in Agents, NEW k \in JobIds, ClaimBy(b, k)
        PROVE  Known(j)'
    <3>1. CASE a = b
      <4>1. j = k
        BY <1>1, <2>2, <3>1 DEF ClaimBy, Take, TypeInv, TypeOK
      <4> QED
        BY <1>1, <1>4, <2>2, <4>1, ClaimShape DEF ClaimBy
    <3>2. CASE a # b
      <4>1. pc[a] # "idle" /\ job[a] = j
        BY <1>1, <2>2, <3>2 DEF ClaimBy, Take, TypeInv, TypeOK
      <4>2. Known(j) /\ j \in JobIds
        BY <4>1, <1>1 DEF SqsInv, KnownJobs, TypeInv, TypeOK
      <4> QED
        BY <1>2, <4>2
    <3> QED
      BY <3>1, <3>2
  <2> QED
    BY <1>1, <2>1, <2>2, ClaimsMove
<1>6. \A m \in queue' : Known(m[1])'
  <2> SUFFICES ASSUME NEW m \in queue' PROVE Known(m[1])'
    OBVIOUS
  <2>1. m[1] \in JobIds
    BY <1>1 DEF SqsTypeInv, SqsTypeOK, Messages
  <2> QED
    BY <1>2, <2>1, MessagesKnown
<1>7. \A r \in unsent' : Known(<<r, 0>>)'
  <2> SUFFICES ASSUME NEW r \in unsent' PROVE Known(<<r, 0>>)'
    OBVIOUS
  <2>1. <<r, 0>> \in JobIds
    BY <1>1, MaxPartitionsAssumption DEF SqsTypeInv, SqsTypeOK, JobIds
  <2>2. CASE r \in unsent
    BY <1>2, <2>1, <2>2 DEF SqsInv, KnownJobs
  <2>3. ASSUME NEW q \in Requests, PostJob(r, q)
        PROVE  Known(<<r, 0>>)'
    <3>1. jobs'[<<r, 0>>].status # "ABSENT"
      BY <1>1, <2>1, <2>3
      DEF PostJob, CreateJob, CreateFailingJob, InsertJob, NewRow, TypeInv, TypeOK
    <3> QED
      BY <1>4, <2>1, <3>1
  <2> QED
    BY <2>2, <2>3, ToSend
<1>8. ASSUME NEW w \in Workers, ~At(w, "free")', NEW j, j = handling'[w].msg[1]
      PROVE  /\ Known(j)'
             /\ At(w, "dead_letter")' => GivenUpForGood(j)'
  <2>1. j \in JobIds
    BY <1>1, <1>8 DEF SqsTypeInv, HandlingOK, At, Messages
  <2>2. ASSUME handling[w].step # "free", handling'[w].msg = handling[w].msg
        PROVE  Known(j)'
    BY <1>2, <1>8, <2>1, <2>2 DEF SqsInv, KnownJobs, At, JobOf
  <2>3. ASSUME handling'[w].step \in {"run", "check"}, handling'[w].msg \in queue
        PROVE  Known(j)'
    BY <1>2, <1>8, <2>1, <2>3 DEF SqsInv, KnownJobs, At
  <2>4. Known(j)'
    BY <1>1, <1>8, <2>2, <2>3, EveryHandlingMoves DEF MessageKept, At
  <2>5. ASSUME At(w, "dead_letter")'
        PROVE  GivenUpForGood(j)'
    <3>1. CASE handling'[w] = handling[w]
      BY <1>3, <1>8, <2>1, <2>5, <3>1 DEF SqsInv, KnownJobs, At, JobOf
    <3>2. CASE SqsSave(w) /\ Update(w).status = "FAILED" /\ handling'[w].msg = handling[w].msg
      <4>1. j = job[w]
        BY <1>1, <1>8, <3>2 DEF SqsSave, At, SqsTypeInv, HandlingOK
      <4> QED
        BY <1>1, <2>4, <3>2, <4>1, SavedForGood DEF GivenUpForGood
    <3> QED
      BY <1>1, <2>5, <3>1, <3>2, EveryHandlingMoves DEF MessageKept, At
  <2> QED
    BY <2>4, <2>5
<1>9. ASSUME NEW w \in Workers, At(w, "fan_out")', NEW r, r = handling'[w].msg[1][1],
             NEW k \in PartitionIds(r)'
      PROVE  Known(k)'
  <2>1. handling'[w].msg = handling[w].msg /\ handling'[w].step = "fan_out"
    BY <1>1, <1>9, EveryHandlingMoves DEF FanGoesOn, At
  <2>2. CASE handling[w].step = "fan_out"
    <3>1. JobOf(w) \in JobIds /\ IsCoordinator(JobOf(w)) /\ r = JobOf(w)[1]
      BY <1>1, <1>9, <2>1, <2>2, NextToSend DEF At, JobOf
    <3>2. Partitions(r)' = Partitions(r)
      <4>1. ASSUME NEW c \in JobIds, IsCoordinator(c), r = c[1]
            PROVE  Partitions(r)' = Partitions(r)
        BY <1>1, <4>1, CoordinatorKept DEF Partitions
      <4> QED
        BY <3>1, <4>1
    <3>3. k \in PartitionIds(r)
      BY <3>2 DEF PartitionIds
    <3>4. Known(k) /\ k \in JobIds
      BY <1>1, <2>2, <3>1, <3>3, FamilyFacts, JobIdFacts DEF SqsInv, KnownJobs, At
    <3> QED
      BY <1>2, <3>4
  <2>3. CASE FanOut(w) /\ handling[w].step = "run"
    <3>1. r = job[w][1] /\ job[w] \in JobIds /\ w \in Agents
      BY <1>1, <1>9, <2>1, <2>3, AtOnce, AgentFacts DEF SqsTypeInv, HandlingOK, At, JobOf
    <3>2. /\ input' = input
          /\ jobs' = [j \in JobIds |-> IF j \in PartitionIds(r) /\ jobs[j].status = "ABSENT"
                                       THEN NewRow(now) ELSE jobs[j]]
      BY <2>3, <3>1 DEF FanOut, EnsureJobPartitions, Present
    <3>3. k \in PartitionIds(r) /\ k \in JobIds
      <4>1. r \in Roots
        BY <3>1, JobIdFacts
      <4>2. Partitions(r)' = Partitions(r)
        BY <3>2 DEF Partitions
      <4>3. k \in PartitionIds(r)
        BY <4>2 DEF PartitionIds
      <4> QED
        BY <1>1, <4>1, <4>3, FamilyFacts
    <3>4. NewRow(now).status = "PENDING"
      BY DEF NewRow
    <3>5. jobs'[k].status # "ABSENT"
      BY <3>2, <3>3, <3>4
    <3> QED
      BY <1>4, <3>3, <3>5
  <2> QED
    BY <1>1, <1>9, <2>1, <2>2, <2>3, EveryHandlingMoves DEF FanGoesOn, At
<1>10. \A j \in JobIds : <<"worker", j>> \in dlq' => GivenUpForGood(j)'
  BY <1>3, DeadLetteredBy DEF SqsInv, KnownJobs
<1>11. \A w \in Workers : /\ ~At(w, "free")' => Known(JobOf(w))'
                          /\ At(w, "fan_out")' =>
                                \A k \in PartitionIds(JobOf(w)[1])' : Known(k)'
                          /\ At(w, "dead_letter")' => GivenUpForGood(JobOf(w))'
  <2> SUFFICES ASSUME NEW w \in Workers
               PROVE  /\ ~At(w, "free")' => Known(JobOf(w))'
                      /\ At(w, "fan_out")' =>
                            \A k \in PartitionIds(JobOf(w)[1])' : Known(k)'
                      /\ At(w, "dead_letter")' => GivenUpForGood(JobOf(w))'
    OBVIOUS
  <2>1. PICK j, r : j = handling'[w].msg[1] /\ r = handling'[w].msg[1][1]
    OBVIOUS
  <2>2. At(w, "dead_letter")' => ~At(w, "free")'
    BY DEF At
  <2>3. /\ Known(JobOf(w))' <=> Known(j)'
        /\ GivenUpForGood(JobOf(w))' <=> GivenUpForGood(j)'
        /\ PartitionIds(JobOf(w)[1])' = PartitionIds(r)'
    BY <2>1 DEF GivenUpForGood, Known, Posted, JobOf, IsPartition, Parent, Partitions,
                PartitionIds
  <2> QED
    BY <1>8, <1>9, <2>1, <2>2, <2>3
<1> QED
  BY <1>5, <1>6, <1>7, <1>10, <1>11 DEF KnownJobs

-----------------------------------------------------------------------------
(* Claims and fan-outs in progress keep their rows.                         *)

LEMMA OwnersGoOn ==
    ASSUME SqsInv, SqsNext, NEW b \in Agents, NEW j, Owns(b, j)',
           pc'[b] # "idle" => pc[b] # "idle" /\ job'[b] = job[b]
    PROVE  Owns(b, j)
<1>1. SqsTypeInv
  BY DEF SqsInv
<1>2. CASE pc'[b] # "idle" /\ job'[b] = j
  BY <1>2 DEF Owns
<1>3. CASE b \in Workers /\ handling'[b].step \in {"fan_out", "undo"} /\ handling'[b].msg[1] = j
  <2>1. FanGoesOn(b) /\ HandlingOK(b)
    BY <1>1, <1>3, EveryHandlingMoves DEF SqsTypeInv
  <2> QED
    BY <1>3, <2>1 DEF FanGoesOn, HandlingOK, Owns
<1> QED
  BY <1>2, <1>3 DEF Owns

(* An agent that lets go without fanning out owns nothing.                  *)
LEMMA ReleasedOwnsNothing ==
    ASSUME SqsInv, SqsNext, NEW a \in Agents, pc[a] # "idle", pc'[a] = "idle", ~FanOut(a),
           NEW j
    PROVE  ~Owns(a, j)'
<1> SUFFICES ASSUME Owns(a, j)' PROVE FALSE
  OBVIOUS
<1>1. a \in Workers /\ handling'[a].step \in {"fan_out", "undo"}
  BY DEF Owns
<1>2. FanGoesOn(a) /\ HandlingOK(a)
  BY <1>1, EveryHandlingMoves DEF SqsInv, SqsTypeInv
<1> QED
  BY <1>1, <1>2 DEF FanGoesOn, HandlingOK

(* What may happen to a row that stays with its owner.                      *)
RowFor(j) ==
    \/ jobs'[j] = jobs[j]
    \/ jobs'[j].status = "ABSENT"
    \/ IsCoordinator(j) /\ jobs'[j].status \in Terminal

LEMMA OwnedBeyondSave ==
    ASSUME SqsInv, SqsNext, NEW a \in Agents, SaveJobResult(a) \/ SavePartitionResult(a),
           NEW b \in Agents, NEW j \in JobIds, Owns(b, j), Owns(b, j)'
    PROVE  RowFor(j)
<1>1. /\ SqsTypeInv /\ TypeInv /\ pc[a] # "idle" /\ ~FanOut(a) /\ Release(a)
      /\ \/ UpdateJobResult(Update(a))
         \/ UpdateIntegrationPartitionResult(Update(a)) /\ IsPartition(job[a])
  BY DEF SaveJobResult, SavePartitionResult, FanOut, IsCoordinator, Running, SqsInv, SqsTypeInv
<1>2. pc'[a] = "idle"
  BY <1>1, AgentMoves
<1>3. a # b /\ Owns(a, job[a])
  BY <1>1, <1>2, ReleasedOwnsNothing DEF Owns
<1>4. j # job[a] /\ jobs[j].status # "PENDING"
  BY <1>3 DEF SqsInv, SqsHeld, OneOwner, OwnedIsTaken
<1>5. \/ jobs'[j] = jobs[j]
      \/ IsPartition(job[a]) /\ j = Parent(job[a]) /\ jobs'[j].status \in Terminal
  BY <1>1, <1>4, SavedRows
<1>6. ASSUME IsPartition(job[a])
      PROVE  IsCoordinator(Parent(job[a]))
  BY <1>1, <1>6, ParentIsCoordinator DEF TypeInv, TypeOK, ClaimsPosted
<1> QED
  BY <1>5, <1>6 DEF RowFor

LEMMA OwnedBeyondTurn ==
    ASSUME SqsInv, SqsNext, NEW a \in Agents, Step(a) \/ AgentFault(a),
           NEW b \in Agents, NEW j \in JobIds, Owns(b, j), Owns(b, j)'
    PROVE  RowFor(j)
<1>1. SqsTypeInv /\ TypeInv
  BY DEF SqsInv, SqsTypeInv
<1>2. ~SavePartitionReplyLost(a)
  BY QueueFaultKindsAssumption DEF SavePartitionReplyLost, Fault
<1>3. CASE RejectPartitionResult(a) \/ FanOutRejected(a) \/ Abandon(a) \/ SavePartitionFails(a)
  BY <1>3 DEF RejectPartitionResult, FanOutRejected, Abandon, SavePartitionFails, tableVars,
              RowFor
<1>4. CASE ResetPartition(a)
  <2>1. /\ pc[a] # "idle" /\ ~FanOut(a) /\ Release(a) /\ job[a] \in JobIds
        /\ ResetRunningJobToPending(job[a])
    BY <1>1, <1>4 DEF ResetPartition, FanOut, Running, TypeInv, TypeOK
  <2>2. pc'[a] = "idle"
    BY <1>1, <2>1, AgentMoves
  <2>3. a # b /\ Owns(a, job[a])
    BY <2>1, <2>2, ReleasedOwnsNothing DEF Owns
  <2>4. j # job[a]
    BY <2>3 DEF SqsInv, SqsHeld, OneOwner
  <2> QED
    BY <1>1, <2>1, <2>4, ResetStays DEF RowFor
<1>5. CASE FanOut(a)
  <2>1. /\ jobs[<<job[a][1], 0>>].status # "ABSENT"
        /\ jobs' = [k \in JobIds |-> IF k \in PartitionIds(job[a][1]) /\ jobs[k].status = "ABSENT"
                                     THEN NewRow(now) ELSE jobs[k]]
    BY <1>5 DEF FanOut, EnsureJobPartitions, Present
  <2>2. Known(j)
    BY OwnedIsKnown
  <2>3. j \in PartitionIds(job[a][1]) => Parent(j) = <<job[a][1], 0>>
    BY DEF PartitionIds, Parent
  <2> QED
    BY <2>1, <2>2, <2>3 DEF Known, RowFor
<1> QED
  BY <1>2, <1>3, <1>4, <1>5, OwnedBeyondSave DEF Step, AgentFault

LEMMA OwnedRows ==
    ASSUME SqsInv, SqsNext, ClaimsGoOn, NEW b \in Agents, NEW j \in JobIds, Owns(b, j)'
    PROVE  Owns(b, j) /\ RowFor(j)
<1>1. SqsTypeInv /\ TypeInv
  BY DEF SqsInv, SqsTypeInv
<1>2. Owns(b, j)
  BY OwnersGoOn DEF ClaimsGoOn
<1>3. ASSUME NEW a \in Agents, NEW k \in JobIds, ClaimBy(a, k)
      PROVE  FALSE
  BY <1>1, <1>3 DEF ClaimsGoOn, ClaimBy, Take, TypeInv, TypeOK
<1>4. ASSUME NEW r \in Roots, NEW q \in Requests, CreateJob(r, q) \/ CreateFailingJob(r, q)
      PROVE  RowFor(j)
  <2>1. input[r] = NoRequest /\ jobs' = [jobs EXCEPT ![<<r, 0>>] = NewRow(now)]
    BY <1>4 DEF CreateJob, CreateFailingJob, InsertJob
  <2>2. j[1] # r
    BY <1>2, <2>1, OwnedIsKnown DEF Known, Posted
  <2> QED
    BY <1>1, <2>1, <2>2 DEF RowFor, TypeInv, TypeOK
<1>5. ASSUME ClearJobs \/ ClearJobsFails
      PROVE  RowFor(j)
  BY <1>5 DEF ClearJobs, ClearJobsFails, StartDelete, FinishDelete, NoRow, RowFor
<1>6. ASSUME NEW a \in Agents, NEW k \in JobIds, Receive(a, k) \/ RunById(a, k)
      PROVE  FALSE
  BY <1>3, <1>6 DEF Receive, ClaimNextPendingJob, RunById, ClaimJobById, ClaimBy
<1>7. ASSUME UNCHANGED vars \/ Stays
      PROVE  RowFor(j)
  BY <1>7 DEF vars, tableVars, Stays, RowFor
<1>8. ASSUME NEW w \in Workers, Undo(w)
      PROVE  RowFor(j)
  <2>1. /\ JobOf(w) \in JobIds /\ w \in Agents /\ pc' = pc /\ Keep(w)
        /\ handling[w].step = "undo" /\ ResetRunningJobToPending(JobOf(w))
    BY <1>1, <1>8, AtOnce, AgentFacts DEF Undo, UndoFanOut, agentVars, At
  <2>2. Owns(w, JobOf(w))
    BY <2>1 DEF Owns, JobOf
  <2>3. ~Owns(w, j)'
    BY <1>1, <2>1, LetGo DEF Owns, SqsTypeInv, HandlingOK
  <2>4. j # JobOf(w)
    BY <1>2, <2>1, <2>2, <2>3 DEF SqsInv, SqsHeld, OneOwner
  <2> QED
    BY <1>1, <2>1, <2>4, ResetStays DEF RowFor
<1>9. ASSUME Next
      PROVE  RowFor(j)
  BY <1>2, <1>4, <1>5, <1>6, <1>9, OwnedBeyondTurn, AgentFacts DEF Next
<1> QED
  BY <1>1, <1>2, <1>3, <1>7, <1>8, <1>9, SqsShapes

LEMMA HeldGoesOn ==
    ASSUME SqsInv, SqsNext, ClaimsGoOn
    PROVE  SqsHeld'
<1>1. SqsTypeInv /\ TypeInv /\ SqsTypeInv' /\ TypeInv' /\ Grows
  BY SqsTypeStep, SqsGrows DEF SqsInv, SqsTypeInv
<1>2. \A b \in Agents, j \in JobIds : Owns(b, j)' => Owns(b, j) /\ RowFor(j)
  BY OwnedRows
<1>3. \A j \in JobIds : IsCoordinator(j) => IsCoordinator(j)'
  BY <1>1, CoordinatorKept
<1>4. OneOwner'
  BY <1>2 DEF SqsInv, SqsHeld, OneOwner
<1>5. OwnedIsTaken'
  BY <1>2 DEF SqsInv, SqsHeld, OwnedIsTaken, RowFor, Terminal
<1>6. CurrentRows'
  <2> SUFFICES ASSUME NEW a \in Agents, NEW j, j = job'[a], pc'[a] # "idle",
                      jobs'[j].status # "ABSENT", ~IsCoordinator(j)'
               PROVE  jobs'[j].status = "RUNNING" /\ jobs'[j].retry_count = seen'[a]
    BY DEF CurrentRows, IsCoordinator, IsPartition, Partitions
  <2>1. pc[a] # "idle" /\ job[a] = j /\ seen'[a] = seen[a] /\ j \in JobIds
    BY <1>1 DEF ClaimsGoOn, TypeInv, TypeOK
  <2>2. Owns(a, j)'
    BY DEF Owns
  <2>3. ~IsCoordinator(j) /\ jobs'[j] = jobs[j]
    BY <1>2, <1>3, <2>1, <2>2 DEF RowFor
  <2> QED
    BY <2>1, <2>3 DEF SqsInv, SqsHeld, CurrentRows
<1>7. OnlyPartitionsReset'
  BY DEF ClaimsGoOn, SqsInv, SqsHeld, OnlyPartitionsReset, IsPartition
<1> QED
  BY <1>4, <1>5, <1>6, <1>7 DEF SqsHeld

LEMMA HeldByClaim ==
    ASSUME SqsInv, SqsNext, NEW a \in Agents, NEW k \in JobIds, ClaimBy(a, k)
    PROVE  SqsHeld'
<1>1. SqsTypeInv /\ TypeInv /\ SqsTypeInv' /\ TypeInv' /\ Grows
  BY SqsTypeStep, SqsGrows DEF SqsInv, SqsTypeInv
<1>2. /\ jobs[k].status = "PENDING" /\ jobs'[k].status = "RUNNING"
      /\ jobs'[k].retry_count = jobs[k].retry_count /\ input' = input
      /\ \A j \in JobIds \ {k} : jobs'[j] = jobs[j]
  BY <1>1, ClaimShape DEF ClaimBy
<1>3. /\ pc[a] = "idle" /\ pc'[a] = "running" /\ job'[a] = k /\ seen'[a] = jobs[k].retry_count
      /\ \A b \in Agents \ {a} : pc'[b] = pc[b] /\ job'[b] = job[b] /\ seen'[b] = seen[b]
  BY <1>1 DEF ClaimBy, Take, TypeInv, TypeOK
<1>4. \A j \in JobIds : Owns(a, j)' => j = k
  BY <1>1, <1>3 DEF Owns, SqsTypeInv, HandlingOK
<1>5. \A b \in Agents \ {a}, j \in JobIds : Owns(b, j)' => Owns(b, j) /\ j # k
  <2>1. \A b \in Agents \ {a}, j \in JobIds : Owns(b, j)' => Owns(b, j)
    BY <1>3, OwnersGoOn
  <2> QED
    BY <1>2, <2>1 DEF SqsInv, SqsHeld, OwnedIsTaken
<1>6. OneOwner'
  BY <1>4, <1>5 DEF SqsInv, SqsHeld, OneOwner
<1>7. OwnedIsTaken'
  BY <1>2, <1>4, <1>5 DEF SqsInv, SqsHeld, OwnedIsTaken
<1>8. CurrentRows'
  <2> SUFFICES ASSUME NEW b \in Agents, NEW j, j = job'[b], pc'[b] # "idle",
                      jobs'[j].status # "ABSENT", ~IsCoordinator(j)'
               PROVE  jobs'[j].status = "RUNNING" /\ jobs'[j].retry_count = seen'[b]
    BY DEF CurrentRows, IsCoordinator, IsPartition, Partitions
  <2>1. CASE b = a
    BY <1>2, <1>3, <2>1
  <2>2. CASE b # a
    <3>1. /\ pc[b] # "idle" /\ job[b] = j /\ seen'[b] = seen[b] /\ j \in JobIds
          /\ ~IsCoordinator(j)
      BY <1>1, <1>2, <1>3, <2>2 DEF TypeInv, TypeOK, IsCoordinator, Partitions, IsPartition
    <3>2. Owns(b, j)'
      BY DEF Owns
    <3>3. jobs'[j] = jobs[j]
      BY <1>2, <1>5, <2>2, <3>1, <3>2
    <3> QED
      BY <3>1, <3>3 DEF SqsInv, SqsHeld, CurrentRows
  <2> QED
    BY <2>1, <2>2
<1>9. OnlyPartitionsReset'
  BY <1>3 DEF SqsInv, SqsHeld, OnlyPartitionsReset, IsPartition
<1> QED
  BY <1>6, <1>7, <1>8, <1>9 DEF SqsHeld

LEMMA SqsInvStep == SqsInv /\ [SqsNext]_sqsVars => SqsInv'
<1> SUFFICES ASSUME SqsInv, [SqsNext]_sqsVars PROVE SqsInv'
  OBVIOUS
<1>1. SqsTypeInv /\ SqsTypeInv'
  BY SqsTypeStep DEF SqsInv
<1>2. CASE SqsNext
  <2>1. SqsHeld'
    BY <1>1, <1>2, ClaimsMove, HeldGoesOn, HeldByClaim
  <2> QED
    BY <1>1, <1>2, <2>1, KnownStep DEF SqsInv
<1>3. CASE UNCHANGED sqsVars
  <2>1. /\ queue' = queue /\ dlq' = dlq /\ unsent' = unsent
        /\ handling' = handling /\ pc' = pc /\ job' = job /\ seen' = seen
        /\ input' = input /\ jobs' = jobs
    BY <1>3 DEF sqsVars, queueVars, vars, agentVars, tableVars
  <2>2. KnownJobs'
    <3>1. KnownJobs
      BY DEF SqsInv
    <3>2. \A j : (Known(j)' <=> Known(j)) /\ (GivenUpForGood(j)' <=> GivenUpForGood(j))
      BY <2>1 DEF Known, GivenUpForGood, Posted, IsPartition, Parent, Partitions, PartitionIds
    <3>3. \A w : JobOf(w)' = JobOf(w) /\ \A step : At(w, step)' <=> At(w, step)
      BY <2>1 DEF At, JobOf
    <3>4. \A r : PartitionIds(r)' = PartitionIds(r)
      BY <2>1 DEF PartitionIds, Partitions
    <3> QED
      BY <2>1, <3>1, <3>2, <3>3, <3>4 DEF KnownJobs
  <2>3. SqsHeld'
    BY <2>1 DEF SqsInv, SqsHeld, OneOwner, OwnedIsTaken, CurrentRows, OnlyPartitionsReset,
                Owns, IsCoordinator, IsPartition, Partitions
  <2> QED
    BY <1>1, <2>2, <2>3 DEF SqsInv
<1> QED
  BY <1>2, <1>3

LEMMA SqsInvInit == SqsInit => SqsInv
<1> SUFFICES ASSUME SqsInit PROVE SqsInv
  OBVIOUS
<1>1. /\ queue = {} /\ dlq = {} /\ unsent = {}
      /\ \A a \in Agents : pc[a] = "idle"
      /\ \A w \in Workers : handling[w].step = "free"
  BY DEF SqsInit, Init, Free
<1>2. KnownJobs /\ SqsHeld
  BY <1>1 DEF KnownJobs, At, SqsHeld, OneOwner, OwnedIsTaken, CurrentRows,
              OnlyPartitionsReset, Owns
<1> QED
  BY <1>2, SqsTypeInit DEF SqsInv

LEMMA SqsInvAlways == SqsSpec => []SqsInv
  BY SqsInvInit, SqsInvStep, PTL DEF SqsSpec

(* A message delivered twice does not run its job twice at once, and an     *)
(* attempt that ends writes the row its claim made RUNNING, with the count  *)
(* it read: however messages are duplicated and fan-outs undone and made    *)
(* again.                                                                   *)
THEOREM RedeliveryNeverHarms == SqsSpec => []RedeliveryIsHarmless
<1>1. SqsInv => RedeliveryIsHarmless
  <2> SUFFICES ASSUME SqsInv, NEW a \in Agents, Busy(a)
               PROVE  /\ \A b \in Agents : Busy(b) /\ job[a] = job[b] => a = b
                      /\ Present(job[a]) /\ ~IsCoordinator(job[a])
                            => /\ jobs[job[a]].status = "RUNNING"
                               /\ jobs[job[a]].retry_count = seen[a]
    BY DEF RedeliveryIsHarmless
  <2>1. job[a] \in JobIds
    BY DEF Busy, SqsInv, SqsTypeInv, TypeInv, TypeOK
  <2> QED
    BY <2>1 DEF SqsInv, SqsHeld, OneOwner, Owns, CurrentRows, Busy, Present
<1> QED
  BY <1>1, SqsInvAlways, PTL

(* The worker dead-letters only what is FAILED for good, or was cleared.    *)
THEOREM DeadLetteredIsAlwaysFailed == SqsSpec => []DeadLetteredIsFailed
<1>1. SqsInv => DeadLetteredIsFailed
  BY DEF SqsInv, KnownJobs, GivenUpForGood, DeadLetteredIsFailed
<1> QED
  BY <1>1, SqsInvAlways, PTL

(* With the SQS queue, too, a decided job stays as it was decided.          *)
THEOREM DecidedStaysDecidedWithSqs == SqsSpec => TerminalIsFinal
<1>1. SqsInv /\ [SqsNext]_sqsVars =>
         [\A j \in JobIds : jobs[j].status \in Terminal
             => jobs'[j].status \in {jobs[j].status, "ABSENT"}]_vars
  <2> SUFFICES ASSUME SqsInv, [SqsNext]_sqsVars, NEW j \in JobIds, jobs[j].status \in Terminal,
                      ~UNCHANGED vars
               PROVE  jobs'[j].status \in {jobs[j].status, "ABSENT"}
    OBVIOUS
  <2>1. SqsNext
    BY DEF sqsVars
  <2> QED
    BY <2>1, SqsRowSteps DEF RowStep, Terminal
<1> QED
  BY <1>1, SqsInvAlways, PTL DEF SqsSpec, TerminalIsFinal

-----------------------------------------------------------------------------
(* A job given up is dead-lettered.                                         *)

DeadLetterLosses == {"abandon", "dead_letter", "failed_by_hand"}

(* What is in the dead-letter queue or recorded as a loss stays there.      *)
LEMMA RecordsGrow ==
    ASSUME SqsNext
    PROVE  dlq \subseteq dlq' /\ struck \subseteq struck'
<1>1. ASSUME NEW w \in Workers, SqsStep(w) \/ SqsSaveFails(w) \/ SqsFault(w)
      PROVE  dlq \subseteq dlq' /\ struck \subseteq struck'
  BY <1>1 DEF SqsStep, SqsFault, LookUp, DeleteMessage, DeadLetter, SqsSave, SqsReject,
              SqsReset, SqsFanOut, EnqueuePartition, UndoFanOut, SqsSaveFails, DeleteFails,
              DeadLetterFails, EnqueuePartitionFails, SqsAbandon, QueueFault, queueVars
<1>2. ASSUME NEW m \in queue, Redrive(m) \/ \E w \in Workers : SqsReceive(w, m)
      PROVE  dlq \subseteq dlq' /\ struck \subseteq struck'
  BY <1>2 DEF Redrive, SqsReceive, QueueFault
<1>3. ASSUME NEW c \in Runners, ByHand(c) \/ SaveByHand(c) \/ FanOutByHand(c) \/ AbandonByHand(c)
      PROVE  dlq \subseteq dlq' /\ struck \subseteq struck'
  BY <1>3 DEF ByHand, SaveByHand, FanOutByHand, AbandonByHand, queueVars
<1>4. ASSUME NEW r \in Roots, Enqueue(r) \/ EnqueueFails(r) \/ \E q \in Requests : PostJob(r, q)
      PROVE  dlq \subseteq dlq' /\ struck \subseteq struck'
  BY <1>4 DEF Enqueue, EnqueueFails, PostJob, QueueFault
<1>5. ASSUME SqsClear \/ SqsClearFails
      PROVE  dlq \subseteq dlq' /\ struck \subseteq struck'
  BY <1>5 DEF SqsClear, SqsClearFails, queueVars
<1> QED
  BY <1>1, <1>2, <1>3, <1>4, <1>5 DEF SqsNext

LEMMA GivenUpBySave ==
    ASSUME TypeInv, NEW a \in Agents, SaveJobResult(a) \/ SavePartitionResult(a),
           NEW j \in JobIds, GaveUp(j)'
    PROVE  GaveUp(j) \/ (j = job[a] /\ Update(a).status = "FAILED")
<1>1. pc[a] # "idle" /\ job[a] \in JobIds /\ Update(a).id = job[a]
  BY UpdateFacts DEF SaveJobResult, SavePartitionResult, Running, TypeInv, TypeOK
<1>2. jobs'[j] = Written(Update(a)) => jobs'[j].status = Update(a).status
  BY <1>1, UpdateTells
<1>3. CASE SaveJobResult(a)
  <2>1. \A k \in JobIds \ {job[a]} : jobs'[k] = jobs[k]
    BY <1>1, <1>3 DEF SaveJobResult, UpdateJobResult, TypeInv, TypeOK
  <2>2. jobs'[job[a]] = jobs[job[a]] \/ jobs'[job[a]] = Written(Update(a))
    BY <1>1, <1>3 DEF SaveJobResult, UpdateJobResult, TypeInv, TypeOK
  <2> QED
    BY <1>2, <2>1, <2>2 DEF GaveUp
<1>4. CASE SavePartitionResult(a)
  <2>1. /\ jobs'[job[a]] = Written(Update(a))
        /\ Recorded(a) \/ GivenUp(a) \/ OneOfMany(a) \/ LastOfAll(a)
    BY <1>1, <1>4, PartitionSaved DEF SavePartitionResult
  <2>2. ASSUME j # job[a]
        PROVE  GaveUp(j)
    BY <2>1, <2>2 DEF GaveUp, Recorded, GivenUp, OneOfMany, LastOfAll, FailedWith
  <2> QED
    BY <1>2, <2>1, <2>2 DEF GaveUp
<1> QED
  BY <1>3, <1>4

(* A row becomes FAILED by an attempt only when the agent that made it saves.*)
LEMMA WhoGivesUp ==
    ASSUME SqsTypeInv, SqsNext, NEW j \in JobIds, GaveUp(j)'
    PROVE  \/ GaveUp(j)
           \/ \E w \in Workers : SqsSave(w) /\ Update(w).status = "FAILED" /\ j = job[w]
           \/ \E c \in Runners : SaveByHand(c) /\ Update(c).status = "FAILED" /\ j = job[c]
                                 /\ Running(c) /\ ~IsCoordinator(job[c])
<1>0. TypeInv /\ jobs \in [JobIds -> Row]
  BY DEF SqsTypeInv, TypeInv, TypeOK
<1>1. ASSUME jobs' = jobs
      PROVE  GaveUp(j)
  BY <1>1 DEF GaveUp
<1>2. ASSUME NEW k \in JobIds, Claim(k) \/ ResetRunningJobToPending(k)
      PROVE  GaveUp(j)
  BY <1>0, <1>2, ClaimShape, ResetStays DEF GaveUp
<1>3. ASSUME NEW r \in Roots, NEW q \in Requests, PostJob(r, q)
      PROVE  GaveUp(j)
  <2>1. jobs' = [jobs EXCEPT ![<<r, 0>>] = NewRow(now)]
    BY <1>3 DEF PostJob, CreateJob, CreateFailingJob, InsertJob
  <2> QED
    BY <1>0, <2>1 DEF GaveUp, NewRow
<1>4. ASSUME SqsClear \/ SqsClearFails
      PROVE  GaveUp(j)
  BY <1>0, <1>4 DEF SqsClear, SqsClearFails, ClearJobs, ClearJobsFails, StartDelete,
                    FinishDelete, GaveUp, NoRow
<1>5. ASSUME NEW a \in Agents, FanOut(a)
      PROVE  GaveUp(j)
  BY <1>0, <1>5 DEF FanOut, EnsureJobPartitions, GaveUp, NewRow
<1>6. ASSUME NEW a \in Agents, ResetPartition(a)
      PROVE  GaveUp(j)
  <2>1. job[a] \in JobIds
    BY <1>0, <1>6 DEF ResetPartition, TypeInv, TypeOK
  <2> QED
    BY <1>2, <1>6, <2>1 DEF ResetPartition
<1>7. ASSUME NEW a \in Agents, RejectPartitionResult(a) \/ FanOutRejected(a) \/ Abandon(a)
                               \/ SavePartitionFails(a)
      PROVE  GaveUp(j)
  BY <1>1, <1>7 DEF RejectPartitionResult, FanOutRejected, Abandon, SavePartitionFails, tableVars
<1>8. ASSUME NEW m \in queue, NEW w \in Workers, SqsReceive(w, m)
      PROVE  GaveUp(j)
  <2>1. m[1] \in JobIds
    BY DEF SqsTypeInv, SqsTypeOK, Messages
  <2> QED
    BY <1>1, <1>2, <1>8, <2>1 DEF SqsReceive, ClaimJobById, vars, tableVars
<1>9. ASSUME NEW w \in Workers, SqsStep(w) \/ SqsSaveFails(w) \/ SqsFault(w)
      PROVE  GaveUp(j) \/ (SqsSave(w) /\ Update(w).status = "FAILED" /\ j = job[w])
  <2>0. w \in Agents
    BY AgentFacts
  <2>1. CASE LookUp(w) \/ DeleteMessage(w) \/ DeadLetter(w) \/ EnqueuePartition(w)
             \/ DeleteFails(w) \/ DeadLetterFails(w) \/ EnqueuePartitionFails(w)
    BY <1>1, <2>1 DEF LookUp, DeleteMessage, DeadLetter, EnqueuePartition, DeleteFails,
                      DeadLetterFails, EnqueuePartitionFails, QueueFault, vars, tableVars
  <2>2. CASE SqsReject(w) \/ SqsReset(w) \/ SqsFanOut(w) \/ SqsSaveFails(w)
    BY <1>5, <1>6, <1>7, <2>0, <2>2 DEF SqsReject, SqsReset, SqsFanOut, SqsSaveFails
  <2>3. CASE SqsAbandon(w)
    BY <1>1, <1>7, <2>0, <2>3 DEF SqsAbandon, tableVars
  <2>4. CASE UndoFanOut(w)
    <3>1. JobOf(w) \in JobIds
      BY <2>4, AtOnce DEF UndoFanOut, At
    <3> QED
      BY <1>2, <2>4, <3>1 DEF UndoFanOut
  <2>5. CASE SqsSave(w)
    BY <1>0, <2>0, <2>5, GivenUpBySave DEF SqsSave
  <2> QED
    BY <1>9, <2>1, <2>2, <2>3, <2>4, <2>5 DEF SqsStep, SqsFault
<1>10. ASSUME NEW c \in Runners, ByHand(c) \/ SaveByHand(c) \/ FanOutByHand(c) \/ AbandonByHand(c)
       PROVE  \/ GaveUp(j)
              \/ SaveByHand(c) /\ Update(c).status = "FAILED" /\ j = job[c]
                 /\ Running(c) /\ ~IsCoordinator(job[c])
  <2>0. c \in Agents
    BY AgentFacts
  <2>1. CASE ByHand(c)
    BY <1>2, <1>7, <2>0, <2>1 DEF ByHand, RunById, ClaimJobById
  <2>2. CASE FanOutByHand(c) \/ AbandonByHand(c)
    BY <1>5, <1>7, <2>0, <2>2 DEF FanOutByHand, AbandonByHand
  <2>3. ASSUME SaveByHand(c), SaveJobResult(c) \/ SavePartitionResult(c)
        PROVE  \/ GaveUp(j)
               \/ /\ Update(c).status = "FAILED" /\ j = job[c]
                  /\ Running(c) /\ ~IsCoordinator(job[c])
    <3>1. Running(c) /\ ~IsCoordinator(job[c])
      BY <2>3 DEF SaveJobResult, SavePartitionResult, IsCoordinator
    <3> QED
      BY <1>0, <2>0, <2>3, <3>1, GivenUpBySave
  <2>4. ASSUME RejectPartitionResult(c) \/ ResetPartition(c) \/ FanOutRejected(c)
        PROVE  GaveUp(j)
    BY <1>6, <1>7, <2>0, <2>4
  <2> QED
    BY <1>10, <2>1, <2>2, <2>3, <2>4 DEF SaveByHand
<1>11. ASSUME NEW r \in Roots, Enqueue(r) \/ EnqueueFails(r)
       PROVE  GaveUp(j)
  BY <1>1, <1>11 DEF Enqueue, EnqueueFails, QueueFault, vars, tableVars
<1>12. ASSUME NEW m \in queue, Redrive(m)
       PROVE  GaveUp(j)
  BY <1>1, <1>12 DEF Redrive, QueueFault, tableVars
<1> QED
  BY <1>3, <1>4, <1>8, <1>9, <1>10, <1>11, <1>12 DEF SqsNext

(* A worker leaves off dead-lettering when it has done so, or by a fault.   *)
LEMMA LeavesDeadLetter ==
    ASSUME SqsTypeInv, SqsNext, DeadLetterQueue, NEW w \in Workers, At(w, "dead_letter"),
           NEW j, j = JobOf(w), handling'[w] # handling[w]
    PROVE  <<"worker", j>> \in dlq' \/ Struck(j[1], DeadLetterLosses)'
<1>1. ASSUME NEW v \in Workers, SqsStep(v) \/ SqsSaveFails(v) \/ SqsFault(v)
      PROVE  v = w
  BY <1>1, HandlingOfWorkers DEF OnlyMoves
<1>2. ASSUME NEW v \in Workers, NEW m \in queue, SqsReceive(v, m)
      PROVE  FALSE
  BY <1>2, HandlingOfReceive DEF OnlyMoves, SqsReceive, At
<1>3. SqsStep(w) \/ SqsSaveFails(w) \/ SqsFault(w)
  <2>1. ~NoneMoves
    BY DEF NoneMoves
  <2>2. ASSUME NEW r \in Roots, Enqueue(r) \/ EnqueueFails(r) \/ \E q \in Requests : PostJob(r, q)
        PROVE  FALSE
    BY <2>2 DEF Enqueue, EnqueueFails, PostJob
  <2>3. ASSUME SqsClear \/ SqsClearFails \/ \E m \in queue : Redrive(m)
        PROVE  FALSE
    BY <2>3 DEF SqsClear, SqsClearFails, Redrive, queueVars
  <2> QED
    BY <1>1, <1>2, <2>1, <2>2, <2>3, NoneMovesByHand DEF SqsNext
<1>4. DeadLetter(w) \/ DeadLetterFails(w) \/ SqsAbandon(w)
  BY <1>3 DEF SqsStep, SqsFault, At, LookUp, DeleteMessage, SqsSave, SqsReject, SqsReset,
              SqsFanOut, EnqueuePartition, UndoFanOut, SqsSaveFails, DeleteFails,
              EnqueuePartitionFails
<1>5. CASE DeadLetter(w)
  BY <1>5 DEF DeadLetter
<1>6. ASSUME NEW kind \in DeadLetterLosses, <<kind, j[1]>> \in struck'
      PROVE  Struck(j[1], DeadLetterLosses)'
  BY <1>6 DEF Struck, DeadLetterLosses
<1>7. CASE DeadLetterFails(w) \/ SqsAbandon(w)
  BY <1>6, <1>7 DEF DeadLetterFails, SqsAbandon, QueueFault, DeadLetterLosses
<1> QED
  BY <1>4, <1>5, <1>7

(* The job that is FAILED by its own last attempt.                          *)
Exhausted(j) ==
    GaveUp(j) => \/ <<"worker", j>> \in dlq
                 \/ \E w \in Workers : At(w, "dead_letter") /\ JobOf(w) = j
                 \/ Struck(j[1], DeadLetterLosses)

ExhaustedInv == SqsInv /\ \A j \in JobIds : Exhausted(j)

LEMMA ExhaustedStep ==
    ASSUME DeadLetterQueue, SqsInv, SqsNext, NEW j \in JobIds, Exhausted(j)
    PROVE  Exhausted(j)'
<1>1. SqsTypeInv /\ dlq \subseteq dlq' /\ struck \subseteq struck'
  BY RecordsGrow DEF SqsInv
<1> DEFINE Out == \/ <<"worker", j>> \in dlq'
                  \/ \E w \in Workers : handling'[w].step = "dead_letter" /\ handling'[w].msg[1] = j
                  \/ Struck(j[1], DeadLetterLosses)'
<1> SUFFICES ASSUME GaveUp(j)' PROVE Out
  BY DEF Exhausted, GaveUp, At, JobOf
<1>2. CASE GaveUp(j)
  <2>1. CASE <<"worker", j>> \in dlq
    BY <1>1, <2>1
  <2>2. CASE Struck(j[1], DeadLetterLosses)
    BY <1>1, <2>2 DEF Struck
  <2>3. ASSUME NEW w \in Workers, At(w, "dead_letter"), j = JobOf(w)
        PROVE  Out
    <3>1. CASE handling'[w] = handling[w]
      BY <2>3, <3>1 DEF At, JobOf
    <3>2. CASE handling'[w] # handling[w]
      BY <1>1, <2>3, <3>2, LeavesDeadLetter
    <3> QED
      BY <3>1, <3>2
  <2> QED
    BY <1>2, <2>1, <2>2, <2>3 DEF Exhausted
<1>3. ASSUME NEW w \in Workers, SqsSave(w), Update(w).status = "FAILED", j = job[w]
      PROVE  Out
  <2>1. GoTo(w, "dead_letter") /\ handling[w].step = "run"
    BY <1>3 DEF SqsSave, Finish, AfterRun, At
  <2>2. handling[w].msg[1] = j
    BY <1>1, <1>3, <2>1 DEF SqsTypeInv, HandlingOK
  <2>3. handling'[w].step = "dead_letter" /\ handling'[w].msg = handling[w].msg
    BY <1>1, <2>1, MovedTo DEF Steps
  <2> QED
    BY <2>2, <2>3
<1>4. ASSUME NEW c \in Runners, SaveByHand(c), Update(c).status = "FAILED", j = job[c],
             Running(c), ~IsCoordinator(job[c])
      PROVE  Out
  <2>1. <<"failed_by_hand", j[1]>> \in struck'
    BY <1>4 DEF SaveByHand
  <2> QED
    BY <2>1 DEF Struck, DeadLetterLosses
<1> HIDE DEF Out
<1> QED
  BY <1>1, <1>2, <1>3, <1>4, WhoGivesUp

(* A job given up by its own attempts is in the dead-letter queue, or a     *)
(* worker is about to send it there, unless the send failed, that worker    *)
(* died or the last attempt was made by hand: a message deleted as stale or *)
(* delivered again loses none.                                              *)
THEOREM ExhaustedAlwaysDeadLettered ==
    ASSUME DeadLetterQueue
    PROVE  SqsSpec => []ExhaustedIsDeadLettered
<1>1. SqsInit => ExhaustedInv
  <2> SUFFICES ASSUME SqsInit, NEW j \in JobIds PROVE Exhausted(j)
    BY SqsInvInit DEF ExhaustedInv
  <2> QED
    BY DEF SqsInit, Init, InitTable, NoRow, Exhausted, GaveUp
<1>2. ExhaustedInv /\ [SqsNext]_sqsVars => ExhaustedInv'
  <2> SUFFICES ASSUME ExhaustedInv, [SqsNext]_sqsVars, NEW j \in JobIds PROVE Exhausted(j)'
    BY SqsInvStep DEF ExhaustedInv
  <2>1. CASE SqsNext
    BY <2>1, ExhaustedStep DEF ExhaustedInv
  <2>2. CASE UNCHANGED sqsVars
    BY <2>2 DEF ExhaustedInv, Exhausted, GaveUp, Struck, At, JobOf, sqsVars, queueVars, vars,
                tableVars
  <2> QED
    BY <2>1, <2>2
<1>3. ExhaustedInv => ExhaustedIsDeadLettered
  BY DEF ExhaustedInv, Exhausted, GaveUp, ExhaustedIsDeadLettered, DeadLetterLosses
<1> QED
  BY <1>1, <1>2, <1>3, PTL DEF SqsSpec

-----------------------------------------------------------------------------
(* Only losses strand jobs.  That none is stuck is not inductive: it takes  *)
(* that a parent that waits for its partitions has one to wait for and is   *)
(* never claimed again, that a row that is RUNNING is somebody's, and that  *)
(* only a message of a job past its need of one is on its way to be deleted.*)

Unlost(r)     == ~Struck(r, Losses)
HeldByNone(j) == \A a \in Agents : ~(pc[a] # "idle" /\ job[a] = j)

NeedsMessage(j) == \/ jobs[j].status = "PENDING"
                   \/ jobs[j].status = "RUNNING" /\ ~IsCoordinator(j)

Past(j) == /\ Known(j)
           /\ \/ jobs[j].status \in Terminal \cup {"ABSENT"}
              \/ jobs[j].status = "RUNNING" /\ IsCoordinator(j)

(* The partitions of a root, there or not.                                  *)
IsOf(r, k) == k[1] = r /\ IsPartition(k)

ParentSettled(r) ==
    (\E k \in JobIds : IsOf(r, k) /\ jobs[k].status # "ABSENT") =>
        jobs[<<r, 0>>].status \notin {"ABSENT", "PENDING"} /\ HeldByNone(<<r, 0>>)
NoneFailed(r) ==
    jobs[<<r, 0>>].status = "RUNNING" =>
        \A k \in JobIds : IsOf(r, k) => jobs[k].status # "FAILED"
ParentWaits(r) ==
    jobs[<<r, 0>>].status = "RUNNING" /\ HeldByNone(<<r, 0>>) =>
        \E k \in JobIds : IsOf(r, k) /\ jobs[k].status \in {"PENDING", "RUNNING"}
ChildrenHeld(r) ==
    \A k \in JobIds : IsOf(r, k) /\ jobs[k].status = "RUNNING" => ~HeldByNone(k)
FamilyGoesOn(r) == ParentSettled(r) /\ NoneFailed(r) /\ ParentWaits(r) /\ ChildrenHeld(r)

MessagesThere(r) ==
    \A j \in JobIds : j[1] = r /\ NeedsMessage(j) => HasMessage(j) \/ ToBeSent(j)
HandledPast(r) ==
    \A w \in Workers : ~At(w, "free") /\ JobOf(w)[1] = r =>
        /\ ~At(w, "undo")
        /\ handling[w].step \in {"delete", "dead_letter"} => Past(JobOf(w))

UnlostFamily(r) == FamilyGoesOn(r) /\ MessagesThere(r) /\ HandledPast(r)

LossInv == SqsInv /\ \A r \in Roots : Unlost(r) => UnlostFamily(r)

LEMMA UnlostBefore ==
    ASSUME SqsNext, NEW r, Unlost(r)'
    PROVE  Unlost(r)
  BY RecordsGrow DEF Unlost, Struck

LEMMA Lost ==
    ASSUME NEW kind \in Losses, NEW r, <<kind, r>> \in struck', Unlost(r)'
    PROVE  FALSE
  BY DEF Unlost, Struck

(* Who moves a worker on is the worker.                                     *)
LEMMA ByWorker ==
    ASSUME SqsTypeInv, SqsNext, NEW w \in Workers, handling'[w] # handling[w]
    PROVE  \/ SqsStep(w) \/ SqsSaveFails(w) \/ SqsFault(w)
           \/ \E m \in queue : SqsReceive(w, m)
<1>1. ASSUME NEW v \in Workers, SqsStep(v) \/ SqsSaveFails(v) \/ SqsFault(v)
      PROVE  v = w
  BY <1>1, HandlingOfWorkers DEF OnlyMoves
<1>2. ASSUME NEW v \in Workers, NEW m \in queue, SqsReceive(v, m)
      PROVE  v = w
  BY <1>2, HandlingOfReceive DEF OnlyMoves
<1>3. ~NoneMoves
  BY DEF NoneMoves
<1>4. ASSUME NEW r \in Roots, Enqueue(r) \/ EnqueueFails(r) \/ \E q \in Requests : PostJob(r, q)
      PROVE  FALSE
  BY <1>4 DEF Enqueue, EnqueueFails, PostJob
<1>5. ASSUME SqsClear \/ SqsClearFails \/ \E m \in queue : Redrive(m)
      PROVE  FALSE
  BY <1>5 DEF SqsClear, SqsClearFails, Redrive, queueVars
<1> QED
  BY <1>1, <1>2, <1>3, <1>4, <1>5, NoneMovesByHand DEF SqsNext

(* How a worker comes to delete or dead-letter a message or to undo.        *)
LEMMA EndsTurn ==
    ASSUME SqsTypeInv, SqsNext, NEW w \in Workers, handling'[w] # handling[w],
           handling'[w].step \in {"delete", "dead_letter", "undo"}
    PROVE  /\ handling'[w].msg = handling[w].msg
           /\ \/ LookUp(w) /\ Stale(JobOf(w))
              \/ SqsSave(w) /\ Update(w).status \in Terminal
              \/ DeadLetter(w)
              \/ EnqueuePartition(w) /\ handling'[w].step = "delete"
              \/ EnqueuePartitionFails(w)
<1>0. handling \in [Workers -> Handling] /\ handling[w] \in Handling /\ TypeInv /\ w \in Agents
  BY AgentFacts DEF SqsTypeInv, SqsTypeOK
<1>1. handling[w].step # "free" /\ handling'[w].msg = handling[w].msg
  BY EveryHandlingMoves DEF MessageKept
<1>2. ~Keep(w) /\ handling' # handling
  BY LetGo
<1>3. SqsStep(w) \/ SqsSaveFails(w) \/ SqsFault(w)
  BY <1>1, ByWorker DEF SqsReceive, At
<1>4. CASE SqsSave(w)
  <2>1. pc[w] # "idle"
    BY <1>4 DEF SqsSave, SaveJobResult, SavePartitionResult, Running
  <2>2. Update(w).status \in {"COMPLETED", "PENDING", "FAILED"}
    BY <1>0, <2>1, UpdateTells
  <2> QED
    BY <1>1, <1>2, <1>4, <2>2 DEF SqsSave, Finish, AfterRun, Terminal
<1>5. ~SqsFanOut(w)
  <2> SUFFICES ASSUME SqsFanOut(w) PROVE FALSE
    OBVIOUS
  <2> PICK h \in Handling : h = handling[w]
    BY <1>0
  <2>1. handling'[w] = [h EXCEPT !.step = "fan_out", !.next = 1]
    BY <1>0 DEF SqsFanOut
  <2>2. handling'[w].step = "fan_out"
    BY <2>1 DEF Handling
  <2> QED
    BY <2>2
<1>6. CASE EnqueuePartition(w)
  <2>1. CASE GoTo(w, "delete")
    BY <1>1, <1>6, <2>1, MovedTo DEF Steps
  <2>2. CASE handling' = [handling EXCEPT ![w].next = @ + 1]
    <3> PICK h \in Handling : h = handling[w]
      BY <1>0
    <3>1. handling'[w] = [h EXCEPT !.next = h.next + 1]
      BY <1>0, <2>2
    <3>2. handling'[w].step = h.step
      BY <3>1 DEF Handling
    <3> QED
      BY <1>6, <3>2 DEF EnqueuePartition, At
  <2> QED
    BY <1>6, <2>1, <2>2 DEF EnqueuePartition
<1>7. CASE LookUp(w)
  BY <1>1, <1>2, <1>7 DEF LookUp
<1> QED
  BY <1>1, <1>2, <1>3, <1>4, <1>5, <1>6, <1>7
  DEF SqsStep, SqsFault, SqsReject, SqsSaveFails, SqsReset, DeleteMessage, UndoFanOut,
      DeleteFails, DeadLetterFails, SqsAbandon, queueVars

(* A parent that is RUNNING goes back to PENDING only by an undone fan-out. *)
LEMMA CoordinatorStays ==
    ASSUME SqsInv, SqsNext, NEW j \in JobIds, IsCoordinator(j), jobs[j].status = "RUNNING",
           \A w \in Workers : ~(At(w, "undo") /\ JobOf(w) = j)
    PROVE  jobs'[j].status # "PENDING"
<1>1. SqsTypeInv /\ TypeInv /\ jobs \in [JobIds -> Row]
  BY DEF SqsInv, SqsTypeInv, TypeInv, TypeOK
<1>2. ~IsPartition(j) /\ Posted(j)
  BY <1>1 DEF IsCoordinator, TypeInv, RowsPosted, Present
<1>3. ASSUME NEW r \in Roots, NEW q \in Requests, CreateJob(r, q) \/ CreateFailingJob(r, q)
      PROVE  jobs'[j].status # "PENDING"
  <2>1. input[r] = NoRequest /\ jobs' = [jobs EXCEPT ![<<r, 0>>] = NewRow(now)]
    BY <1>3 DEF CreateJob, CreateFailingJob, InsertJob
  <2>2. j # <<r, 0>>
    BY <1>2, <2>1 DEF Posted
  <2> QED
    BY <1>1, <2>1, <2>2
<1>4. ASSUME ClearJobs \/ ClearJobsFails
      PROVE  jobs'[j].status # "PENDING"
  BY <1>4 DEF ClearJobs, ClearJobsFails, StartDelete, FinishDelete, NoRow
<1>5. ASSUME NEW k \in JobIds, Claim(k)
      PROVE  jobs'[j].status # "PENDING"
  BY <1>1, <1>5, ClaimShape
<1>6. ASSUME NEW a \in Agents, SaveJobResult(a) \/ SavePartitionResult(a)
      PROVE  jobs'[j].status # "PENDING"
  <2>1. /\ pc[a] # "idle" /\ job[a] # j
        /\ \/ UpdateJobResult(Update(a))
           \/ UpdateIntegrationPartitionResult(Update(a)) /\ IsPartition(job[a])
    BY <1>2, <1>6 DEF SaveJobResult, SavePartitionResult, Running
  <2> QED
    BY <1>1, <1>2, <2>1, SavedRows DEF Terminal
<1>7. ASSUME NEW a \in Agents, ResetPartition(a)
      PROVE  jobs'[j].status # "PENDING"
  <2>1. job[a] \in JobIds /\ IsPartition(job[a]) /\ ResetRunningJobToPending(job[a])
    BY <1>1, <1>7 DEF ResetPartition, TypeInv, TypeOK, SqsInv, SqsHeld, OnlyPartitionsReset
  <2> QED
    BY <1>1, <1>2, <2>1, ResetStays
<1>8. ASSUME NEW a \in Agents, FanOut(a)
      PROVE  jobs'[j].status # "PENDING"
  BY <1>8 DEF FanOut, EnsureJobPartitions, Present
<1>9. ASSUME NEW a \in Agents, RejectPartitionResult(a) \/ FanOutRejected(a) \/ Abandon(a)
                               \/ SavePartitionFails(a)
      PROVE  jobs'[j].status # "PENDING"
  BY <1>9 DEF RejectPartitionResult, FanOutRejected, Abandon, SavePartitionFails, tableVars
<1>10. ASSUME NEW a \in Agents, Step(a) \/ AgentFault(a)
       PROVE  jobs'[j].status # "PENDING"
  <2>1. ~SavePartitionReplyLost(a)
    BY QueueFaultKindsAssumption DEF SavePartitionReplyLost, Fault
  <2> QED
    BY <1>6, <1>7, <1>8, <1>9, <1>10, <2>1 DEF Step, AgentFault
<1>11. ASSUME NEW w \in Workers, Undo(w)
       PROVE  jobs'[j].status # "PENDING"
  <2>1. JobOf(w) \in JobIds /\ JobOf(w) # j /\ ResetRunningJobToPending(JobOf(w))
    BY <1>1, <1>11, AtOnce DEF Undo, UndoFanOut, At
  <2> QED
    BY <1>1, <2>1, ResetStays
<1>12. ASSUME UNCHANGED vars \/ Stays
       PROVE  jobs'[j].status # "PENDING"
  BY <1>12 DEF vars, tableVars, Stays
<1>13. ASSUME Next
       PROVE  jobs'[j].status # "PENDING"
  BY <1>3, <1>4, <1>5, <1>10, <1>13
  DEF Next, Receive, ClaimNextPendingJob, RunById, ClaimJobById
<1> QED
  BY <1>1, <1>5, <1>11, <1>12, <1>13, SqsShapes DEF ClaimBy

(* What is past its need of a message stays so.                             *)
LEMMA PastStays ==
    ASSUME SqsInv, SqsNext, NEW j \in JobIds, Past(j),
           \A w \in Workers : ~(At(w, "undo") /\ JobOf(w) = j)
    PROVE  Past(j)'
<1>1. SqsTypeInv /\ TypeInv' /\ Grows /\ FamiliesMove
  BY SqsTypeStep, SqsGrows, SqsFamilies DEF SqsInv, SqsTypeInv
<1>2. Known(j)' /\ (jobs[j].status = "ABSENT" => jobs'[j].status = "ABSENT")
  BY <1>1, KnownKept DEF Past
<1>3. RowStep(j) /\ jobs'[j].status \in Statuses \cup {"ABSENT"}
  BY <1>1, SqsRowSteps DEF TypeInv, TypeOK, Row
<1>4. CASE jobs[j].status \in Terminal \cup {"ABSENT"}
  BY <1>2, <1>3, <1>4 DEF Past, RowStep, Terminal
<1>5. CASE jobs[j].status = "RUNNING" /\ IsCoordinator(j)
  <2>1. IsCoordinator(j)' /\ jobs'[j].status # "PENDING"
    BY <1>1, <1>5, CoordinatorKept, CoordinatorStays
  <2> QED
    BY <1>2, <1>3, <2>1 DEF Past, Terminal, Statuses
<1> QED
  BY <1>4, <1>5 DEF Past

(* A job that is there needs no message that it did not need before.        *)
LEMMA NeedsBefore ==
    ASSUME SqsInv, SqsNext, NEW j \in JobIds, NeedsMessage(j)', jobs[j].status # "ABSENT",
           \A w \in Workers : ~(At(w, "undo") /\ JobOf(w) = j)
    PROVE  NeedsMessage(j)
<1>1. SqsTypeInv /\ Grows /\ RowStep(j)
  BY SqsGrows, SqsRowSteps DEF SqsInv
<1>2. jobs'[j].status \in {"PENDING", "RUNNING"}
  BY DEF NeedsMessage
<1>3. jobs[j].status \in {"PENDING", "RUNNING"}
  BY <1>1, <1>2 DEF RowStep
<1>4. IsCoordinator(j) => jobs'[j].status = "PENDING"
  BY <1>1, CoordinatorKept DEF NeedsMessage
<1> QED
  BY <1>3, <1>4, CoordinatorStays DEF NeedsMessage

(* A message that is needed is not deleted, nor moved.                      *)
LEMMA MessagesStay ==
    ASSUME SqsInv, SqsNext, NEW j \in JobIds, HasMessage(j), NeedsMessage(j),
           HandledPast(j[1]), Unlost(j[1])'
    PROVE  \E m \in queue' : m[1] = j
<1> DEFINE Goal == \E m \in queue' : m[1] = j
<1>1. SqsTypeInv /\ IsFiniteSet(queue)
  BY DEF SqsInv, SqsTypeInv
<1>2. ASSUME queue \subseteq queue'
      PROVE  Goal
  BY <1>2 DEF HasMessage
<1>3. ASSUME NEW k, Send(k)
      PROVE  queue \subseteq queue'
  BY <1>1, <1>3, SendFacts
<1>4. ASSUME NEW w \in Workers, DeleteMessage(w)
      PROVE  Goal
  <2>1. At(w, "delete") /\ queue' = queue \ {handling[w].msg}
    BY <1>4 DEF DeleteMessage
  <2>2. JobOf(w) # j
    BY <2>1 DEF HandledPast, Past, NeedsMessage, At, Terminal
  <2> QED
    BY <2>1, <2>2 DEF HasMessage, JobOf
<1>5. ASSUME NEW m \in queue, Redrive(m)
      PROVE  Goal
  <2>1. queue' = queue \ {m} /\ <<"redrive", m[1][1]>> \in struck'
    BY <1>5 DEF Redrive, QueueFault
  <2>2. m[1] # j
    BY <2>1, Lost DEF Losses
  <2> QED
    BY <2>1, <2>2 DEF HasMessage
<1>6. ASSUME NEW w \in Workers, SqsStep(w) \/ SqsSaveFails(w) \/ SqsFault(w)
      PROVE  DeleteMessage(w) \/ queue \subseteq queue'
  BY <1>3, <1>6 DEF SqsStep, SqsFault, LookUp, DeadLetter, SqsSave, SqsReject,
              SqsReset, SqsFanOut, EnqueuePartition, UndoFanOut, SqsSaveFails, DeleteFails,
              DeadLetterFails, EnqueuePartitionFails, SqsAbandon, queueVars
<1>7. ASSUME NEW c \in Runners, ByHand(c) \/ SaveByHand(c) \/ FanOutByHand(c) \/ AbandonByHand(c)
      PROVE  queue \subseteq queue'
  BY <1>7 DEF ByHand, SaveByHand, FanOutByHand, AbandonByHand, queueVars
<1>8. ASSUME NEW r \in Roots, Enqueue(r) \/ EnqueueFails(r) \/ \E q \in Requests : PostJob(r, q)
      PROVE  queue \subseteq queue'
  BY <1>3, <1>8 DEF Enqueue, EnqueueFails, PostJob
<1>9. ASSUME \/ SqsClear \/ SqsClearFails
             \/ \E m \in queue, w \in Workers : SqsReceive(w, m)
      PROVE  queue \subseteq queue'
  BY <1>9 DEF SqsClear, SqsClearFails, SqsReceive, queueVars
<1> HIDE DEF Goal
<1>10. Goal
  BY <1>2, <1>4, <1>5, <1>6, <1>7, <1>8, <1>9 DEF SqsNext
<1> QED
  BY <1>10 DEF Goal

(* A message to be sent is sent, or still to be sent.                       *)
LEMMA RootsToSend ==
    ASSUME SqsInv, SqsNext, NEW r \in Roots, r \in unsent, Unlost(r)'
    PROVE  r \in unsent' \/ \E m \in queue' : m[1] = <<r, 0>>
<1>1. ASSUME NEW x \in Roots, Enqueue(x)
      PROVE  r \in unsent' \/ \E m \in queue' : m[1] = <<r, 0>>
  <2>1. unsent' = unsent \ {x} /\ Send(<<x, 0>>)
    BY <1>1 DEF Enqueue
  <2>2. \E m \in queue' : m[1] = <<x, 0>>
    BY <2>1, SentIsThere DEF SqsInv, SqsTypeInv
  <2> QED
    BY <2>1, <2>2
<1>2. ASSUME NEW x \in Roots, EnqueueFails(x)
      PROVE  r \in unsent'
  <2>1. unsent' = unsent \ {x} /\ <<"send", x>> \in struck'
    BY <1>2 DEF EnqueueFails, QueueFault
  <2> QED
    BY <2>1, Lost DEF Losses
<1>3. ASSUME NEW w \in Workers, SqsStep(w) \/ SqsSaveFails(w) \/ SqsFault(w)
      PROVE  r \in unsent'
  BY <1>3 DEF SqsStep, SqsFault, LookUp, DeleteMessage, DeadLetter, SqsSave, SqsReject,
              SqsReset, SqsFanOut, EnqueuePartition, UndoFanOut, SqsSaveFails, DeleteFails,
              DeadLetterFails, EnqueuePartitionFails, SqsAbandon, queueVars
<1>4. ASSUME NEW c \in Runners, ByHand(c) \/ SaveByHand(c) \/ FanOutByHand(c) \/ AbandonByHand(c)
      PROVE  r \in unsent'
  BY <1>4 DEF ByHand, SaveByHand, FanOutByHand, AbandonByHand, queueVars
<1>5. ASSUME \/ SqsClear \/ SqsClearFails \/ \E x \in Roots, q \in Requests : PostJob(x, q)
             \/ \E m \in queue : Redrive(m) \/ \E w \in Workers : SqsReceive(w, m)
      PROVE  r \in unsent'
  BY <1>5 DEF SqsClear, SqsClearFails, PostJob, Redrive, SqsReceive, queueVars
<1> QED
  BY <1>1, <1>2, <1>3, <1>4, <1>5 DEF SqsNext

LEMMA PartitionsToSend ==
    ASSUME SqsInv, SqsNext, NEW j \in JobIds, Posted(j), Unlost(j[1])',
           NEW w \in Workers, At(w, "fan_out"), JobOf(w) = Parent(j), handling[w].next <= j[2]
    PROVE  \/ \E m \in queue' : m[1] = j
           \/ /\ handling'[w].step = "fan_out" /\ handling'[w].msg[1] = Parent(j)
              /\ handling'[w].next <= j[2]
<1>1. /\ SqsTypeInv /\ TypeInv /\ IsFiniteSet(queue) /\ handling \in [Workers -> Handling]
      /\ handling[w] \in Handling
  BY DEF SqsInv, SqsTypeInv, SqsTypeOK
<1>2. JobOf(w)[1] = j[1] /\ handling[w].next \in Partitions(j[1])
  <2>1. JobOf(w)[1] = j[1]
    BY DEF Parent
  <2> QED
    BY <1>1, <2>1, NextToSend DEF Partitions
<1>3. PICK n \in 1..MaxPartitions : Partitions(j[1]) = 1..n /\ Cardinality(1..n) = n
  BY <1>1, <1>2, PartitionFacts, JobIdFacts DEF TypeInv
<1>4. j[2] \in 1..n /\ handling[w].next \in 1..n /\ n \in Nat /\ j = <<j[1], j[2]>>
  BY <1>2, <1>3, JobIdFacts, MaxPartitionsAssumption DEF Posted, IsPartition
<1>5. CASE handling'[w] = handling[w]
  BY <1>5 DEF At, JobOf
<1>6. CASE handling'[w] # handling[w]
  <2>1. SqsStep(w) \/ SqsSaveFails(w) \/ SqsFault(w)
    BY <1>1, <1>6, ByWorker DEF SqsReceive, At
  <2>2. EnqueuePartition(w) \/ EnqueuePartitionFails(w) \/ SqsAbandon(w)
    BY <2>1 DEF SqsStep, SqsFault, At, LookUp, DeleteMessage, DeadLetter, SqsSave, SqsReject,
                SqsReset, SqsFanOut, UndoFanOut, SqsSaveFails, DeleteFails, DeadLetterFails
  <2>3. CASE EnqueuePartitionFails(w) \/ SqsAbandon(w)
    BY <1>2, <2>3, Lost DEF EnqueuePartitionFails, SqsAbandon, QueueFault, Losses
  <2>4. CASE EnqueuePartition(w)
    <3>1. /\ Send(<<j[1], handling[w].next>>)
          /\ ~LastPartition(w) => handling' = [handling EXCEPT ![w].next = @ + 1]
      BY <1>2, <2>4 DEF EnqueuePartition
    <3>2. CASE handling[w].next = j[2]
      <4>1. \E m \in queue' : m[1] = <<j[1], handling[w].next>>
        BY <1>1, <3>1, SentIsThere
      <4> QED
        BY <1>4, <3>2, <4>1
    <3>3. CASE handling[w].next # j[2]
      <4>1. ~LastPartition(w) /\ handling[w].next + 1 <= j[2]
        BY <1>2, <1>3, <1>4, <3>3 DEF LastPartition
      <4> PICK h \in Handling : h = handling[w]
        BY <1>1
      <4>2. handling'[w] = [h EXCEPT !.next = h.next + 1]
        BY <1>1, <3>1, <4>1
      <4>3. handling'[w].step = h.step /\ handling'[w].msg = h.msg /\ handling'[w].next = h.next + 1
        BY <4>2 DEF Handling
      <4> QED
        BY <4>1, <4>3 DEF At, JobOf
    <3> QED
      BY <3>2, <3>3
  <2> QED
    BY <2>2, <2>3, <2>4
<1> QED
  BY <1>5, <1>6

(* A turn ends with a row that is not RUNNING, but for a fan-out or a loss. *)
LEMMA TurnEnds ==
    ASSUME SqsInv, NEW a \in Agents, NEW j, j = job[a],
           SaveJobResult(a) \/ SavePartitionResult(a) \/ ResetPartition(a) \/ FanOutRejected(a)
    PROVE  jobs'[j].status # "RUNNING"
<1>1. TypeInv /\ pc[a] # "idle" /\ j \in JobIds
  BY DEF SqsInv, SqsTypeInv, TypeInv, TypeOK, SaveJobResult, SavePartitionResult,
         ResetPartition, FanOutRejected, Running
<1>2. CASE SaveJobResult(a) \/ SavePartitionResult(a)
  <2>1. \/ UpdateJobResult(Update(a))
        \/ UpdateIntegrationPartitionResult(Update(a)) /\ IsPartition(job[a])
    BY <1>2 DEF SaveJobResult, SavePartitionResult
  <2>2. CASE jobs[j].status = "ABSENT"
    BY <1>1, <2>1, <2>2, SavedRows
  <2>3. CASE jobs[j].status # "ABSENT"
    BY <1>1, <2>1, <2>3, SavedRows, UpdateTells
  <2> QED
    BY <2>2, <2>3
<1>3. CASE ResetPartition(a)
  BY <1>1, <1>3, ResetStays DEF ResetPartition
<1>4. CASE FanOutRejected(a)
  BY <1>4 DEF FanOutRejected, tableVars, Present
<1> QED
  BY <1>2, <1>3, <1>4

LEMMA StillHeld ==
    ASSUME SqsInv, SqsNext, NEW j \in JobIds, NEW a \in Agents, pc[a] # "idle", job[a] = j,
           jobs'[j].status = "RUNNING", Unlost(j[1])'
    PROVE  \/ pc'[a] # "idle" /\ job'[a] = j
           \/ a \in Workers /\ SqsFanOut(a)
<1>0. SqsTypeInv /\ TypeInv
  BY DEF SqsInv, SqsTypeInv
<1> DEFINE Goal == \/ pc'[a] # "idle" /\ job'[a] = j
                   \/ a \in Workers /\ SqsFanOut(a)
<1>1. ASSUME pc' = pc, job' = job
      PROVE  Goal
  BY <1>1
<1>2. ASSUME NEW b \in Agents, NEW k \in JobIds, Take(b, k)
      PROVE  Goal
  BY <1>0, <1>2 DEF Take, TypeInv, TypeOK
<1>3. ASSUME NEW b \in Agents, GoReset(b)
      PROVE  Goal
  BY <1>0, <1>3, AgentMoves
<1>4. ASSUME NEW b \in Agents, b # a, Release(b)
      PROVE  Goal
  BY <1>0, <1>4, AgentMoves
<1>5. ASSUME SaveJobResult(a) \/ SavePartitionResult(a) \/ ResetPartition(a) \/ FanOutRejected(a)
      PROVE  Goal
  BY <1>5, TurnEnds
<1> HIDE DEF Goal
<1>6. ASSUME NEW b \in Agents,
             SaveJobResult(b) \/ SavePartitionResult(b) \/ ResetPartition(b) \/ FanOutRejected(b)
      PROVE  Goal
  BY <1>4, <1>5, <1>6 DEF SaveJobResult, SavePartitionResult, ResetPartition, FanOutRejected
<1>7. ASSUME NEW b \in Agents, RejectPartitionResult(b) \/ SavePartitionFails(b)
      PROVE  Goal
  BY <1>3, <1>7 DEF RejectPartitionResult, SavePartitionFails
<1>8. ASSUME NEW b \in Agents, Abandon(b) \/ FanOut(b), <<"abandon", job[b][1]>> \in struck'
                                              \/ <<"fan_out_by_hand", job[b][1]>> \in struck'
      PROVE  Goal
  <2>1. Release(b)
    BY <1>8 DEF Abandon, FanOut
  <2>2. a # b
    BY <1>8, Lost DEF Losses
  <2> QED
    BY <1>4, <2>1, <2>2
<1>9. ASSUME NEW w \in Workers, SqsStep(w) \/ SqsSaveFails(w) \/ SqsFault(w)
      PROVE  Goal
  <2>0. w \in Agents
    BY AgentFacts
  <2>1. CASE LookUp(w) \/ DeleteMessage(w) \/ DeadLetter(w) \/ EnqueuePartition(w) \/ UndoFanOut(w)
             \/ DeleteFails(w) \/ DeadLetterFails(w) \/ EnqueuePartitionFails(w)
    BY <1>1, <2>1 DEF LookUp, DeleteMessage, DeadLetter, EnqueuePartition, UndoFanOut,
                      DeleteFails, DeadLetterFails, EnqueuePartitionFails, QueueFault, vars,
                      agentVars
  <2>2. CASE SqsSave(w) \/ SqsReset(w)
    BY <1>6, <2>0, <2>2 DEF SqsSave, SqsReset
  <2>3. CASE SqsReject(w) \/ SqsSaveFails(w)
    BY <1>7, <2>0, <2>3 DEF SqsReject, SqsSaveFails
  <2>4. CASE SqsFanOut(w)
    <3>1. CASE w = a
      BY <2>4, <3>1 DEF Goal
    <3>2. CASE w # a
      BY <1>4, <2>0, <2>4, <3>2 DEF SqsFanOut, FanOut
    <3> QED
      BY <3>1, <3>2
  <2>5. CASE SqsAbandon(w)
    <3>1. CASE At(w, "run")
      <4>1. job[w] = JobOf(w)
        BY <1>0, <3>1 DEF SqsTypeInv, HandlingOK, At, JobOf
      <4> QED
        BY <1>8, <2>0, <2>5, <3>1, <4>1 DEF SqsAbandon
    <3>2. CASE ~At(w, "run")
      BY <1>1, <2>5, <3>2 DEF SqsAbandon
    <3> QED
      BY <3>1, <3>2
  <2> QED
    BY <1>9, <2>1, <2>2, <2>3, <2>4, <2>5 DEF SqsStep, SqsFault
<1>10. ASSUME NEW c \in Runners, ByHand(c) \/ SaveByHand(c) \/ FanOutByHand(c) \/ AbandonByHand(c)
       PROVE  Goal
  <2>0. c \in Agents
    BY AgentFacts
  <2>1. CASE ByHand(c)
    BY <1>2, <1>7, <2>0, <2>1 DEF ByHand, RunById
  <2>2. CASE SaveByHand(c)
    BY <1>6, <1>7, <2>0, <2>2 DEF SaveByHand
  <2>3. CASE FanOutByHand(c) \/ AbandonByHand(c)
    BY <1>8, <2>0, <2>3 DEF FanOutByHand, AbandonByHand
  <2> QED
    BY <1>10, <2>1, <2>2, <2>3
<1>11. ASSUME NEW w \in Workers, NEW m \in queue, SqsReceive(w, m)
       PROVE  Goal
  <2>1. m[1] \in JobIds /\ w \in Agents
    BY <1>0, AgentFacts DEF SqsTypeInv, SqsTypeOK, Messages
  <2> QED
    BY <1>1, <1>2, <1>11, <2>1 DEF SqsReceive, vars, agentVars
<1>12. ASSUME NEW r \in Roots, Enqueue(r) \/ EnqueueFails(r) \/ \E q \in Requests : PostJob(r, q)
       PROVE  Goal
  BY <1>1, <1>12 DEF Enqueue, EnqueueFails, PostJob, CreateJob, CreateFailingJob, QueueFault,
                     vars, agentVars
<1>13. ASSUME SqsClear \/ SqsClearFails \/ \E m \in queue : Redrive(m)
       PROVE  Goal
  BY <1>1, <1>13 DEF SqsClear, SqsClearFails, ClearJobs, ClearJobsFails, Redrive, QueueFault,
                     agentVars
<1>14. Goal
  BY <1>9, <1>10, <1>11, <1>12, <1>13 DEF SqsNext
<1> QED
  BY <1>14 DEF Goal

LEMMA KidStillHeld ==
    ASSUME SqsInv, SqsNext, NEW r \in Roots, Unlost(r)', NEW k \in JobIds, IsOf(r, k),
           ~HeldByNone(k), jobs'[k].status = "RUNNING"
    PROVE  ~HeldByNone(k)'
<1>1. PICK a \in Agents : pc[a] # "idle" /\ job[a] = k
  BY DEF HeldByNone
<1>2. ~SqsFanOut(a)
  BY <1>1 DEF IsOf, SqsFanOut, FanOut, IsCoordinator
<1>3. pc'[a] # "idle" /\ job'[a] = k
  BY <1>1, <1>2, StillHeld DEF IsOf
<1> QED
  BY <1>3 DEF HeldByNone

LEMMA ParentStillHeld ==
    ASSUME SqsInv, SqsNext, NEW r \in Roots, Unlost(r)',
           ~HeldByNone(<<r, 0>>), jobs'[<<r, 0>>].status = "RUNNING",
           \A w \in Workers : ~(SqsFanOut(w) /\ job[w][1] = r)
    PROVE  ~HeldByNone(<<r, 0>>)'
<1>1. <<r, 0>> \in JobIds /\ <<r, 0>>[1] = r
  BY MaxPartitionsAssumption DEF JobIds
<1>2. PICK a \in Agents : pc[a] # "idle" /\ job[a] = <<r, 0>>
  BY DEF HeldByNone
<1>3. pc'[a] # "idle" /\ job'[a] = <<r, 0>>
  BY <1>1, <1>2, StillHeld
<1> QED
  BY <1>3 DEF HeldByNone

LEMMA StaysFree ==
    ASSUME SqsInv, SqsNext, NEW j \in JobIds, HeldByNone(j), jobs[j].status # "PENDING"
    PROVE  HeldByNone(j)'
<1>1. SqsTypeInv /\ TypeInv
  BY DEF SqsInv, SqsTypeInv
<1>2. CASE ClaimsGoOn
  BY <1>2 DEF ClaimsGoOn, HeldByNone
<1>3. ASSUME NEW a \in Agents, NEW k \in JobIds, ClaimBy(a, k)
      PROVE  HeldByNone(j)'
  BY <1>1, <1>3 DEF ClaimBy, Claim, Take, HeldByNone, TypeInv, TypeOK
<1> QED
  BY <1>1, <1>2, <1>3, ClaimsMove

(* What a step does to the rows of a root nothing was lost of.              *)
RowsStay(r)   == \A j \in JobIds : j[1] = r => jobs'[j] = jobs[j]
RowsGo(r)     == \A j \in JobIds : j[1] = r => jobs'[j].status = "ABSENT"
PostOf(r)     == \E q \in Requests : PostJob(r, q)
ClaimIn(r)    == \E a \in Agents, j \in JobIds : ClaimBy(a, j) /\ j[1] = r
ResetIn(r)    == \E a \in Agents : ResetPartition(a) /\ job[a][1] = r
JobSaved(r)   == \E a \in Agents : SaveJobResult(a) /\ job[a][1] = r
PartSaved(r)  == \E a \in Agents : SavePartitionResult(a) /\ job[a][1] = r
FannedBy(r)   == \E w \in Workers : SqsFanOut(w) /\ job[w][1] = r

LEMMA FamilySteps ==
    ASSUME SqsInv, SqsNext, NEW r \in Roots, Unlost(r)', HandledPast(r)
    PROVE  \/ RowsStay(r) \/ RowsGo(r) \/ PostOf(r) \/ ClaimIn(r) \/ ResetIn(r)
           \/ JobSaved(r) \/ PartSaved(r) \/ FannedBy(r)
<1> DEFINE Goal == \/ RowsStay(r) \/ RowsGo(r) \/ PostOf(r) \/ ClaimIn(r) \/ ResetIn(r)
                   \/ JobSaved(r) \/ PartSaved(r) \/ FannedBy(r)
<1>0. SqsTypeInv /\ TypeInv /\ jobs \in [JobIds -> Row]
  BY DEF SqsInv, SqsTypeInv, TypeInv, TypeOK
<1>1. ASSUME jobs' = jobs
      PROVE  Goal
  BY <1>1 DEF RowsStay
<1>2. ASSUME NEW a \in Agents, SaveJobResult(a) \/ SavePartitionResult(a)
      PROVE  Goal
  <2>1. CASE job[a][1] = r
    BY <1>2, <2>1 DEF JobSaved, PartSaved
  <2>2. CASE job[a][1] # r
    BY <1>0, <1>2, <2>2, SaveShape DEF RowsStay
  <2> QED
    BY <2>1, <2>2
<1>3. ASSUME NEW a \in Agents, ResetPartition(a)
      PROVE  Goal
  <2>1. job[a] \in JobIds /\ ResetRunningJobToPending(job[a])
    BY <1>0, <1>3 DEF ResetPartition, TypeInv, TypeOK
  <2>2. CASE job[a][1] = r
    BY <1>3, <2>2 DEF ResetIn
  <2>3. CASE job[a][1] # r
    BY <1>0, <2>1, <2>3, ResetStays DEF RowsStay
  <2> QED
    BY <2>2, <2>3
<1>4. ASSUME NEW a \in Agents, RejectPartitionResult(a) \/ FanOutRejected(a) \/ Abandon(a)
                               \/ SavePartitionFails(a)
      PROVE  Goal
  BY <1>1, <1>4 DEF RejectPartitionResult, FanOutRejected, Abandon, SavePartitionFails, tableVars
<1>5. ASSUME NEW a \in Agents, FanOut(a), job[a][1] # r
      PROVE  Goal
  BY <1>5 DEF FanOut, EnsureJobPartitions, PartitionIds, RowsStay
<1>6. ASSUME NEW a \in Agents, NEW j \in JobIds, ClaimBy(a, j)
      PROVE  Goal
  <2>1. CASE j[1] = r
    BY <1>6, <2>1 DEF ClaimIn
  <2>2. CASE j[1] # r
    BY <1>0, <1>6, <2>2, ClaimShape DEF ClaimBy, RowsStay
  <2> QED
    BY <2>1, <2>2
<1>7. ASSUME NEW x \in Roots, NEW q \in Requests, PostJob(x, q)
      PROVE  Goal
  <2>1. CASE x = r
    BY <1>7, <2>1 DEF PostOf
  <2>2. CASE x # r
    <3>1. jobs' = [jobs EXCEPT ![<<x, 0>>] = NewRow(now)]
      BY <1>7 DEF PostJob, CreateJob, CreateFailingJob, InsertJob
    <3> QED
      BY <1>0, <2>2, <3>1 DEF RowsStay
  <2> QED
    BY <2>1, <2>2
<1>8. ASSUME SqsClear \/ SqsClearFails
      PROVE  Goal
  <2>1. \/ jobs' = jobs
        \/ jobs' = [j \in JobIds |-> IF j[1] \in doomed THEN NoRow ELSE jobs[j]]
    BY <1>8 DEF SqsClear, SqsClearFails, ClearJobs, ClearJobsFails, StartDelete, FinishDelete
  <2> QED
    BY <2>1 DEF RowsStay, RowsGo, NoRow
<1>9. ASSUME NEW w \in Workers, UndoFanOut(w)
      PROVE  Goal
  <2>1. JobOf(w) \in JobIds /\ JobOf(w)[1] # r /\ ResetRunningJobToPending(JobOf(w))
    BY <1>0, <1>9, AtOnce DEF UndoFanOut, At, HandledPast
  <2> QED
    BY <1>0, <2>1, ResetStays DEF RowsStay
<1>10. ASSUME NEW w \in Workers, SqsFanOut(w)
       PROVE  Goal
  <2>1. CASE job[w][1] = r
    BY <1>10, <2>1 DEF FannedBy
  <2>2. CASE job[w][1] # r
    BY <1>5, <1>10, <2>2, AgentFacts DEF SqsFanOut
  <2> QED
    BY <2>1, <2>2
<1>11. ASSUME NEW c \in Runners, FanOutByHand(c)
       PROVE  Goal
  <2>1. job[c][1] # r
    BY <1>11, Lost DEF FanOutByHand, Losses
  <2> QED
    BY <1>5, <1>11, <2>1, AgentFacts DEF FanOutByHand
<1> HIDE DEF Goal
<1>12. ASSUME NEW w \in Workers, SqsStep(w) \/ SqsSaveFails(w) \/ SqsFault(w)
       PROVE  Goal
  <2>0. w \in Agents
    BY AgentFacts
  <2>1. CASE LookUp(w) \/ DeleteMessage(w) \/ DeadLetter(w) \/ EnqueuePartition(w)
             \/ DeleteFails(w) \/ DeadLetterFails(w) \/ EnqueuePartitionFails(w)
    BY <1>1, <2>1 DEF LookUp, DeleteMessage, DeadLetter, EnqueuePartition, DeleteFails,
                      DeadLetterFails, EnqueuePartitionFails, QueueFault, vars, tableVars
  <2>2. CASE SqsSave(w) \/ SqsReset(w) \/ SqsReject(w) \/ SqsSaveFails(w)
    BY <1>2, <1>3, <1>4, <2>0, <2>2 DEF SqsSave, SqsReset, SqsReject, SqsSaveFails
  <2>3. CASE SqsAbandon(w)
    BY <1>1, <1>4, <2>0, <2>3 DEF SqsAbandon, tableVars
  <2> QED
    BY <1>9, <1>10, <1>12, <2>1, <2>2, <2>3 DEF SqsStep, SqsFault
<1>13. ASSUME NEW c \in Runners, ByHand(c) \/ SaveByHand(c) \/ FanOutByHand(c) \/ AbandonByHand(c)
       PROVE  Goal
  <2>0. c \in Agents
    BY AgentFacts
  <2>1. CASE ByHand(c)
    BY <1>4, <1>6, <2>0, <2>1 DEF ByHand, RunById, ClaimJobById, ClaimBy
  <2>2. CASE SaveByHand(c)
    BY <1>2, <1>3, <1>4, <2>0, <2>2 DEF SaveByHand
  <2>3. CASE AbandonByHand(c)
    BY <1>4, <2>0, <2>3 DEF AbandonByHand
  <2> QED
    BY <1>11, <1>13, <2>1, <2>2, <2>3
<1>14. ASSUME NEW w \in Workers, NEW m \in queue, SqsReceive(w, m)
       PROVE  Goal
  <2>1. m[1] \in JobIds /\ w \in Agents
    BY <1>0, AgentFacts DEF SqsTypeInv, SqsTypeOK, Messages
  <2> QED
    BY <1>1, <1>6, <1>14, <2>1 DEF SqsReceive, ClaimJobById, ClaimBy, vars, tableVars
<1>15. ASSUME NEW x \in Roots, Enqueue(x) \/ EnqueueFails(x)
       PROVE  Goal
  BY <1>1, <1>15 DEF Enqueue, EnqueueFails, QueueFault, vars, tableVars
<1>16. ASSUME NEW m \in queue, Redrive(m)
       PROVE  Goal
  BY <1>1, <1>16 DEF Redrive, QueueFault, tableVars
<1>17. Goal
  BY <1>7, <1>8, <1>12, <1>13, <1>14, <1>15, <1>16 DEF SqsNext
<1> QED
  BY <1>17 DEF Goal

(* A root without partitions in the table.                                  *)
LEMMA Alone ==
    ASSUME NEW r \in Roots, \A k \in JobIds : IsOf(r, k) => jobs'[k].status = "ABSENT",
           jobs'[<<r, 0>>].status = "RUNNING" => ~HeldByNone(<<r, 0>>)'
    PROVE  FamilyGoesOn(r)'
  BY DEF FamilyGoesOn, ParentSettled, NoneFailed, ParentWaits, ChildrenHeld, IsOf, IsPartition

LEMMA GoesOnAsItWas ==
    ASSUME SqsInv, SqsNext, NEW r \in Roots, UnlostFamily(r), Unlost(r)', RowsStay(r), ~FannedBy(r)
    PROVE  FamilyGoesOn(r)'
<1>1. /\ <<r, 0>> \in JobIds /\ jobs'[<<r, 0>>] = jobs[<<r, 0>>]
      /\ \A k \in JobIds : IsOf(r, k) => jobs'[k] = jobs[k]
  BY MaxPartitionsAssumption DEF RowsStay, JobIds, IsOf
<1>2. ParentSettled(r)'
  BY <1>1, StaysFree DEF UnlostFamily, FamilyGoesOn, ParentSettled, IsOf, IsPartition
<1>3. NoneFailed(r)'
  BY <1>1 DEF UnlostFamily, FamilyGoesOn, NoneFailed, IsOf, IsPartition
<1>4. ParentWaits(r)'
  <2> SUFFICES ASSUME jobs'[<<r, 0>>].status = "RUNNING", HeldByNone(<<r, 0>>)'
               PROVE  \E k \in JobIds : IsOf(r, k) /\ jobs'[k].status \in {"PENDING", "RUNNING"}
    BY DEF ParentWaits, IsOf, IsPartition
  <2>1. HeldByNone(<<r, 0>>)
    BY ParentStillHeld DEF FannedBy
  <2> QED
    BY <1>1, <2>1 DEF UnlostFamily, FamilyGoesOn, ParentWaits
<1>5. ChildrenHeld(r)'
  <2> SUFFICES ASSUME NEW k \in JobIds, IsOf(r, k), jobs'[k].status = "RUNNING"
               PROVE  ~HeldByNone(k)'
    BY DEF ChildrenHeld, IsOf, IsPartition
  <2> QED
    BY <1>1, KidStillHeld DEF UnlostFamily, FamilyGoesOn, ChildrenHeld
<1> QED
  BY <1>2, <1>3, <1>4, <1>5 DEF FamilyGoesOn

LEMMA GoesOnPosted ==
    ASSUME SqsInv, SqsNext, NEW r \in Roots, PostOf(r)
    PROVE  FamilyGoesOn(r)'
<1>1. /\ TypeInv /\ jobs \in [JobIds -> Row]
      /\ input[r] = NoRequest /\ jobs' = [jobs EXCEPT ![<<r, 0>>] = NewRow(now)]
  BY DEF PostOf, PostJob, CreateJob, CreateFailingJob, InsertJob, SqsInv, SqsTypeInv, TypeInv, TypeOK
<1>2. <<r, 0>> \in JobIds /\ jobs'[<<r, 0>>].status = "PENDING"
  BY <1>1, MaxPartitionsAssumption DEF JobIds, NewRow
<1>3. ASSUME NEW k \in JobIds, IsOf(r, k)
      PROVE  jobs'[k].status = "ABSENT"
  <2>1. jobs[k].status = "ABSENT" /\ k # <<r, 0>>
    BY <1>1, <1>3 DEF IsOf, IsPartition, TypeInv, RowsPosted, Present, Posted
  <2> QED
    BY <1>1, <2>1
<1> QED
  BY <1>2, <1>3, Alone

LEMMA GoesOnGone ==
    ASSUME NEW r \in Roots, RowsGo(r)
    PROVE  FamilyGoesOn(r)'
<1>1. <<r, 0>> \in JobIds
  BY MaxPartitionsAssumption DEF JobIds
<1> QED
  BY <1>1, Alone DEF RowsGo, IsOf

LEMMA GoesOnClaimed ==
    ASSUME SqsInv, SqsNext, NEW r \in Roots, UnlostFamily(r), Unlost(r)', ~FannedBy(r),
           NEW a \in Agents, NEW j \in JobIds, ClaimBy(a, j), j[1] = r
    PROVE  FamilyGoesOn(r)'
<1>1. /\ jobs[j].status = "PENDING" /\ jobs'[j].status = "RUNNING"
      /\ \A k \in JobIds \ {j} : jobs'[k] = jobs[k]
      /\ pc'[a] # "idle" /\ job'[a] = j
  BY ClaimShape DEF ClaimBy, Take, SqsInv, SqsTypeInv, TypeInv, TypeOK
<1>2. ~HeldByNone(j)'
  BY <1>1 DEF HeldByNone
<1>3. <<r, 0>> \in JobIds /\ (j = <<r, 0>> \/ IsOf(r, j))
  BY ParentFacts, MaxPartitionsAssumption DEF JobIds, IsOf
<1>4. CASE j = <<r, 0>>
  <2>1. \A k \in JobIds : IsOf(r, k) => jobs[k].status = "ABSENT" /\ k # j
    BY <1>1, <1>4 DEF UnlostFamily, FamilyGoesOn, ParentSettled, IsOf, IsPartition
  <2>2. \A k \in JobIds : IsOf(r, k) => jobs'[k].status = "ABSENT"
    BY <1>1, <2>1
  <2> QED
    BY <1>2, <1>4, <2>2, Alone
<1>5. CASE IsOf(r, j)
  <2>1. jobs'[<<r, 0>>] = jobs[<<r, 0>>]
    BY <1>1, <1>3, <1>5 DEF IsOf, IsPartition
  <2>2. ParentSettled(r)'
    BY <1>1, <1>3, <1>5, <2>1, StaysFree
    DEF UnlostFamily, FamilyGoesOn, ParentSettled, IsOf, IsPartition
  <2>3. NoneFailed(r)'
    BY <1>1, <2>1 DEF UnlostFamily, FamilyGoesOn, NoneFailed, IsOf, IsPartition
  <2>4. ParentWaits(r)'
    BY <1>1, <1>5 DEF ParentWaits, IsOf, IsPartition
  <2>5. ChildrenHeld(r)'
    <3> SUFFICES ASSUME NEW k \in JobIds, IsOf(r, k), jobs'[k].status = "RUNNING"
                 PROVE  ~HeldByNone(k)'
      BY DEF ChildrenHeld, IsOf, IsPartition
    <3>1. CASE k = j
      BY <1>1, <3>1 DEF HeldByNone
    <3>2. CASE k # j
      BY <1>1, <3>2, KidStillHeld DEF UnlostFamily, FamilyGoesOn, ChildrenHeld
    <3> QED
      BY <3>1, <3>2
  <2> QED
    BY <2>2, <2>3, <2>4, <2>5 DEF FamilyGoesOn
<1> QED
  BY <1>3, <1>4, <1>5

LEMMA GoesOnReset ==
    ASSUME SqsInv, SqsNext, NEW r \in Roots, UnlostFamily(r), Unlost(r)', ~FannedBy(r),
           NEW a \in Agents, ResetPartition(a), job[a][1] = r
    PROVE  FamilyGoesOn(r)'
<1>1. PICK j \in JobIds : j = job[a] /\ IsOf(r, j) /\ ResetRunningJobToPending(j)
  BY DEF ResetPartition, SqsInv, SqsHeld, OnlyPartitionsReset, SqsTypeInv, TypeInv, TypeOK, IsOf
<1>2. /\ \A k \in JobIds \ {j} : jobs'[k] = jobs[k]
      /\ jobs[j].status # "RUNNING" => jobs'[j] = jobs[j]
      /\ jobs[j].status = "RUNNING" => jobs'[j].status = "PENDING"
  BY <1>1, ResetStays DEF SqsInv, SqsTypeInv
<1>3. <<r, 0>> \in JobIds /\ jobs'[<<r, 0>>] = jobs[<<r, 0>>]
  BY <1>1, <1>2, MaxPartitionsAssumption DEF JobIds, IsOf, IsPartition
<1>4. ParentSettled(r)'
  BY <1>1, <1>2, <1>3, StaysFree
  DEF UnlostFamily, FamilyGoesOn, ParentSettled, IsOf, IsPartition
<1>5. NoneFailed(r)'
  BY <1>1, <1>2, <1>3 DEF UnlostFamily, FamilyGoesOn, NoneFailed, IsOf, IsPartition
<1>6. ParentWaits(r)'
  <2> SUFFICES ASSUME jobs'[<<r, 0>>].status = "RUNNING", HeldByNone(<<r, 0>>)'
               PROVE  \E k \in JobIds : IsOf(r, k) /\ jobs'[k].status \in {"PENDING", "RUNNING"}
    BY DEF ParentWaits, IsOf, IsPartition
  <2>1. HeldByNone(<<r, 0>>)
    BY ParentStillHeld DEF FannedBy
  <2> QED
    BY <1>2, <1>3, <2>1 DEF UnlostFamily, FamilyGoesOn, ParentWaits
<1>7. ChildrenHeld(r)'
  <2> SUFFICES ASSUME NEW k \in JobIds, IsOf(r, k), jobs'[k].status = "RUNNING"
               PROVE  ~HeldByNone(k)'
    BY DEF ChildrenHeld, IsOf, IsPartition
  <2>1. jobs'[k] = jobs[k]
    BY <1>2
  <2> QED
    BY <2>1, KidStillHeld DEF UnlostFamily, FamilyGoesOn, ChildrenHeld
<1> QED
  BY <1>4, <1>5, <1>6, <1>7 DEF FamilyGoesOn

(* A partition's save leaves a RUNNING parent one to wait for, or decides it. *)
LEMMA GoesOnPartSaved ==
    ASSUME SqsInv, SqsNext, NEW r \in Roots, UnlostFamily(r), Unlost(r)',
           NEW a \in Agents, SavePartitionResult(a), NEW c \in JobIds, c = job[a], c[1] = r
    PROVE  FamilyGoesOn(r)'
<1> DEFINE p == <<r, 0>>
<1>1. /\ TypeInv /\ pc[a] # "idle" /\ IsPartition(c) /\ jobs \in [JobIds -> Row]
      /\ UpdateIntegrationPartitionResult(Update(a))
  BY DEF SavePartitionResult, Running, SqsInv, SqsTypeInv, TypeInv, TypeOK
<1>2. Parent(c) = p /\ p \in JobIds /\ p # c /\ IsOf(r, c) /\ ~IsPartition(p)
  BY <1>1, ParentFacts, MaxPartitionsAssumption DEF Parent, IsOf, IsPartition, JobIds
<1>3. /\ jobs[c].status # "ABSENT" /\ jobs'[c] = Written(Update(a))
      /\ Recorded(a) \/ GivenUp(a) \/ OneOfMany(a) \/ LastOfAll(a)
  BY <1>1, PartitionSaved
<1>4. /\ jobs'[c].status = Update(a).status
      /\ Update(a).status \in {"COMPLETED", "PENDING", "FAILED"}
  BY <1>1, <1>3, UpdateTells
<1>5. jobs[p].status \notin {"ABSENT", "PENDING"} /\ HeldByNone(p)'
  BY <1>2, <1>3, StaysFree DEF UnlostFamily, FamilyGoesOn, ParentSettled
<1>6. \A k \in JobIds \ {c} : \/ jobs'[k] = jobs[k]
                              \/ IsPartition(k) /\ jobs'[k].status = "FAILED"
                              \/ k = p /\ jobs'[k].status \in Terminal
  BY <1>1, <1>2, SavedRows
<1>7. ASSUME jobs'[p].status = "RUNNING"
      PROVE  /\ jobs[p].status = "RUNNING"
             /\ \A k \in JobIds \ {c} : jobs'[k] = jobs[k]
             /\ \/ Update(a).status = "PENDING"
                \/ /\ Update(a).status = "COMPLETED"
                   /\ \E k \in ChildRows(r) : k # c /\ jobs[k].status # "COMPLETED"
  BY <1>2, <1>3, <1>4, <1>6, <1>7
  DEF Recorded, GivenUp, FailedWith, OneOfMany, LastOfAll, Terminal
<1> HIDE DEF p
<1>8. ParentSettled(r)'
  <2>1. jobs'[p].status \notin {"ABSENT", "PENDING"}
    BY <1>2, <1>5, <1>6 DEF Terminal
  <2> QED
    BY <1>5, <2>1 DEF ParentSettled, p
<1>9. NoneFailed(r)'
  <2> SUFFICES ASSUME jobs'[p].status = "RUNNING", NEW k \in JobIds, IsOf(r, k)
               PROVE  jobs'[k].status # "FAILED"
    BY DEF NoneFailed, IsOf, IsPartition, p
  <2>1. CASE k = c
    BY <1>4, <1>7, <2>1
  <2>2. CASE k # c
    BY <1>7, <2>2 DEF UnlostFamily, FamilyGoesOn, NoneFailed, p
  <2> QED
    BY <2>1, <2>2
<1>10. ParentWaits(r)'
  <2> SUFFICES ASSUME jobs'[p].status = "RUNNING"
               PROVE  \E k \in JobIds : IsOf(r, k) /\ jobs'[k].status \in {"PENDING", "RUNNING"}
    BY DEF ParentWaits, IsOf, IsPartition, p
  <2>1. CASE Update(a).status = "PENDING"
    BY <1>2, <1>4, <2>1
  <2>2. ASSUME NEW k \in ChildRows(r), k # c, jobs[k].status # "COMPLETED"
        PROVE  \E i \in JobIds : IsOf(r, i) /\ jobs'[i].status \in {"PENDING", "RUNNING"}
    <3>1. k \in JobIds /\ IsOf(r, k) /\ jobs[k].status # "ABSENT" /\ jobs[k] \in Row
      BY <1>1 DEF ChildRows, IsOf, Present
    <3>2. jobs'[k] = jobs[k] /\ jobs[k].status # "FAILED"
      BY <1>7, <2>2, <3>1 DEF UnlostFamily, FamilyGoesOn, NoneFailed, p
    <3>3. jobs[k].status \in {"PENDING", "RUNNING"}
      BY <2>2, <3>1, <3>2 DEF Row, Statuses
    <3> QED
      BY <3>1, <3>2, <3>3
  <2> QED
    BY <1>7, <2>1, <2>2
<1>11. ChildrenHeld(r)'
  <2> SUFFICES ASSUME NEW k \in JobIds, IsOf(r, k), jobs'[k].status = "RUNNING"
               PROVE  ~HeldByNone(k)'
    BY DEF ChildrenHeld, IsOf, IsPartition
  <2>1. k # c
    BY TurnEnds
  <2>2. jobs'[k] = jobs[k]
    BY <1>2, <1>6, <2>1 DEF IsOf
  <2> QED
    BY <2>2, KidStillHeld DEF UnlostFamily, FamilyGoesOn, ChildrenHeld
<1> QED
  BY <1>8, <1>9, <1>10, <1>11 DEF FamilyGoesOn

(* A job that is saved on its own has no partitions.                        *)
LEMMA GoesOnJobSaved ==
    ASSUME SqsInv, SqsNext, NEW r \in Roots, NEW a \in Agents, SaveJobResult(a),
           NEW c \in JobIds, c = job[a], c[1] = r
    PROVE  FamilyGoesOn(r)'
<1>1. /\ TypeInv /\ Partitions(r) = {} /\ ~IsPartition(c)
  BY DEF SaveJobResult, IsCoordinator, SqsInv, SqsTypeInv
<1>2. c = <<r, 0>>
  BY <1>1, ParentFacts
<1>3. jobs'[<<r, 0>>].status # "RUNNING"
  BY <1>2, TurnEnds
<1>4. ASSUME NEW k \in JobIds, IsOf(r, k)
      PROVE  jobs'[k].status = "ABSENT"
  <2>1. jobs[k].status = "ABSENT"
    BY <1>1, <1>4 DEF IsOf, TypeInv, RowsPosted, Present, Posted
  <2> QED
    BY <1>1, <2>1, SaveShape
<1> QED
  BY <1>3, <1>4, Alone

(* A fan-out leaves its parent to partitions that are PENDING.              *)
LEMMA GoesOnFannedOut ==
    ASSUME SqsInv, SqsNext, NEW r \in Roots, UnlostFamily(r), Unlost(r)',
           NEW w \in Workers, SqsFanOut(w), NEW p \in JobIds, p = job[w], p[1] = r
    PROVE  FamilyGoesOn(r)'
<1>1. /\ TypeInv /\ w \in Agents /\ pc[w] # "idle" /\ IsCoordinator(p) /\ Release(w)
      /\ jobs[<<r, 0>>].status # "ABSENT" /\ job \in [Agents -> JobIds \cup {NoJob}]
      /\ pc \in [Agents -> {"idle", "running", "resetting"}]
      /\ jobs' = [j \in JobIds |-> IF j \in PartitionIds(r) /\ jobs[j].status = "ABSENT"
                                   THEN NewRow(now) ELSE jobs[j]]
  BY AgentFacts DEF SqsFanOut, FanOut, EnsureJobPartitions, Present, Running,
                    SqsInv, SqsTypeInv, TypeInv, TypeOK
<1>2. p = <<r, 0>> /\ \A j \in PartitionIds(r) : IsOf(r, j)
  BY <1>1, ParentFacts DEF IsCoordinator, PartitionIds, Partitions, IsOf, IsPartition
<1>3. \A k \in JobIds : IsOf(r, k) => jobs[k].status = "ABSENT"
  BY <1>1, <1>2 DEF UnlostFamily, FamilyGoesOn, ParentSettled, HeldByNone
<1>4. \A k \in JobIds : IsOf(r, k) => jobs'[k].status \in {"ABSENT", "PENDING"}
  BY <1>1, <1>3 DEF NewRow
<1>5. jobs'[<<r, 0>>] = jobs[<<r, 0>>] /\ jobs[<<r, 0>>].status # "PENDING"
  <2>1. Owns(w, p)
    BY <1>1 DEF Owns
  <2> QED
    BY <1>1, <1>2, <2>1 DEF SqsInv, SqsHeld, OwnedIsTaken, IsOf, IsPartition
<1>6. HeldByNone(<<r, 0>>)'
  <2> SUFFICES ASSUME NEW b \in Agents, pc'[b] # "idle", job'[b] = p
               PROVE  FALSE
    BY <1>2 DEF HeldByNone
  <2>1. b # w /\ pc[b] # "idle" /\ job[b] = p
    BY <1>1 DEF Release
  <2> QED
    BY <1>1, <2>1 DEF SqsInv, SqsHeld, OneOwner, Owns
<1>7. \E k \in JobIds : IsOf(r, k) /\ jobs'[k].status = "PENDING"
  <2>1. PICK k : k \in PartitionIds(r)
    BY <1>1, <1>2 DEF IsCoordinator, PartitionIds
  <2>2. k \in JobIds /\ IsOf(r, k)
    BY <1>1, <1>2, <2>1, FamilyFacts
  <2> QED
    BY <1>1, <1>3, <2>1, <2>2 DEF NewRow
<1>8. ParentSettled(r)'
  BY <1>1, <1>5, <1>6 DEF ParentSettled
<1>9. NoneFailed(r)'
  BY <1>4 DEF NoneFailed, IsOf, IsPartition
<1>10. ParentWaits(r)'
  BY <1>7 DEF ParentWaits, IsOf, IsPartition
<1>11. ChildrenHeld(r)'
  BY <1>4 DEF ChildrenHeld, IsOf, IsPartition
<1> QED
  BY <1>8, <1>9, <1>10, <1>11 DEF FamilyGoesOn

LEMMA FamilyStillGoesOn ==
    ASSUME SqsInv, SqsNext, NEW r \in Roots, UnlostFamily(r), Unlost(r)'
    PROVE  FamilyGoesOn(r)'
<1>1. TypeInv /\ \A a \in Agents : pc[a] # "idle" => job[a] \in JobIds
  BY DEF SqsInv, SqsTypeInv, TypeInv, TypeOK
<1>2. CASE FannedBy(r)
  <2>1. PICK w \in Workers : SqsFanOut(w) /\ job[w][1] = r
    BY <1>2 DEF FannedBy
  <2>2. job[w] \in JobIds
    BY <1>1, <2>1, AgentFacts DEF SqsFanOut, FanOut, Running
  <2> QED
    BY <2>1, <2>2, GoesOnFannedOut
<1>3. CASE JobSaved(r)
  <2>1. PICK a \in Agents : SaveJobResult(a) /\ job[a][1] = r
    BY <1>3 DEF JobSaved
  <2>2. job[a] \in JobIds
    BY <1>1, <2>1 DEF SaveJobResult, Running
  <2> QED
    BY <2>1, <2>2, GoesOnJobSaved
<1>4. CASE PartSaved(r)
  <2>1. PICK a \in Agents : SavePartitionResult(a) /\ job[a][1] = r
    BY <1>4 DEF PartSaved
  <2>2. job[a] \in JobIds
    BY <1>1, <2>1 DEF SavePartitionResult, Running
  <2> QED
    BY <2>1, <2>2, GoesOnPartSaved
<1>5. CASE RowsStay(r) /\ ~FannedBy(r)
  BY <1>5, GoesOnAsItWas
<1>6. CASE RowsGo(r) \/ PostOf(r)
  BY <1>6, GoesOnGone, GoesOnPosted
<1>7. CASE ClaimIn(r) /\ ~FannedBy(r)
  BY <1>7, GoesOnClaimed DEF ClaimIn
<1>8. CASE ResetIn(r) /\ ~FannedBy(r)
  BY <1>8, GoesOnReset DEF ResetIn
<1> QED
  BY <1>2, <1>3, <1>4, <1>5, <1>6, <1>7, <1>8, FamilySteps DEF UnlostFamily

(* Nothing of what was handled is undone.                                   *)
LEMMA NothingUndone ==
    ASSUME NEW r \in Roots, HandledPast(r), NEW j, j[1] = r
    PROVE  \A w \in Workers : ~(At(w, "undo") /\ JobOf(w) = j)
  BY DEF HandledPast, At

(* A row that is new has its message to be sent.                            *)
LEMMA NewAreSent ==
    ASSUME SqsInv, SqsNext, NEW r \in Roots, Unlost(r)', HandledPast(r),
           NEW j \in JobIds, j[1] = r, jobs[j].status = "ABSENT", jobs'[j].status # "ABSENT"
    PROVE  \/ ~IsPartition(j) /\ r \in unsent'
           \/ \E w \in Workers : /\ handling'[w].step = "fan_out"
                                 /\ handling'[w].msg[1] = Parent(j)
                                 /\ handling'[w].next <= j[2]
<1>1. /\ SqsTypeInv /\ TypeInv /\ jobs \in [JobIds -> Row]
      /\ handling \in [Workers -> Handling]
      /\ \A a \in Agents : pc[a] # "idle" => job[a] \in JobIds
  BY DEF SqsInv, SqsTypeInv, SqsTypeOK, TypeInv, TypeOK
<1>2. CASE RowsStay(r) \/ RowsGo(r)
  BY <1>2 DEF RowsStay, RowsGo
<1>3. CASE PostOf(r)
  <2>1. PICK q \in Requests : PostJob(r, q)
    BY <1>3 DEF PostOf
  <2>2. jobs' = [jobs EXCEPT ![<<r, 0>>] = NewRow(now)] /\ r \in unsent'
    BY <2>1 DEF PostJob, CreateJob, CreateFailingJob, InsertJob
  <2>3. j = <<r, 0>>
    BY <1>1, <2>2
  <2> QED
    BY <2>2, <2>3 DEF IsPartition
<1>4. ~ClaimIn(r)
  BY <1>1, ClaimShape DEF ClaimIn, ClaimBy
<1>5. ~ResetIn(r)
  <2> SUFFICES ASSUME NEW a \in Agents, ResetPartition(a) PROVE FALSE
    BY DEF ResetIn
  <2>1. job[a] \in JobIds /\ ResetRunningJobToPending(job[a])
    BY <1>1 DEF ResetPartition
  <2> QED
    BY <1>1, <2>1, ResetStays
<1>6. ~JobSaved(r) /\ ~PartSaved(r)
  BY <1>1, SaveShape DEF JobSaved, PartSaved
<1>7. CASE FannedBy(r)
  <2>1. PICK w \in Workers : SqsFanOut(w) /\ job[w][1] = r
    BY <1>7 DEF FannedBy
  <2>2. /\ At(w, "run") /\ pc[w] # "idle" /\ IsCoordinator(job[w]) /\ w \in Agents
        /\ jobs' = [k \in JobIds |-> IF k \in PartitionIds(r) /\ jobs[k].status = "ABSENT"
                                     THEN NewRow(now) ELSE jobs[k]]
    BY <2>1, AgentFacts DEF SqsFanOut, FanOut, EnsureJobPartitions, Present, Running
  <2>3. job[w] = JobOf(w) /\ job[w] = <<r, 0>>
    BY <1>1, <2>1, <2>2, ParentFacts DEF SqsTypeInv, HandlingOK, At, JobOf, IsCoordinator
  <2>4. j \in PartitionIds(r)
    BY <2>2
  <2>5. Parent(j) = <<r, 0>> /\ 1 <= j[2]
    <3>1. Parent(j) = <<r, 0>> /\ IsPartition(j)
      BY <1>1, <2>4, FamilyFacts
    <3>2. j[2] \in Nat
      BY JobIdFacts, MaxPartitionsAssumption
    <3> QED
      BY <3>1, <3>2 DEF IsPartition
  <2> PICK h \in Handling : h = handling[w]
    BY <1>1
  <2>6. handling'[w] = [h EXCEPT !.step = "fan_out", !.next = 1]
    BY <1>1, <2>1 DEF SqsFanOut
  <2>7. handling'[w].step = "fan_out" /\ handling'[w].msg = h.msg /\ handling'[w].next = 1
    BY <2>6 DEF Handling
  <2>8. handling'[w].msg[1] = Parent(j)
    <3>1. handling'[w].msg[1] = JobOf(w)
      BY <2>7 DEF JobOf
    <3> QED
      BY <2>3, <2>5, <3>1
  <2> QED
    BY <2>5, <2>7, <2>8
<1> QED
  BY <1>2, <1>3, <1>4, <1>5, <1>6, <1>7, FamilySteps

(* A message is there, or to be sent, as long as its job needs it.          *)
LEMMA MessagesStillThere ==
    ASSUME SqsInv, SqsNext, NEW r \in Roots, UnlostFamily(r), Unlost(r)'
    PROVE  MessagesThere(r)'
<1> SUFFICES ASSUME NEW j \in JobIds, j[1] = r, NeedsMessage(j)'
             PROVE  \/ \E m \in queue' : m[1] = j
                    \/ ~IsPartition(j) /\ r \in unsent'
                    \/ \E w \in Workers : /\ handling'[w].step = "fan_out"
                                          /\ handling'[w].msg[1] = Parent(j)
                                          /\ handling'[w].next <= j[2]
  BY DEF MessagesThere, HasMessage, ToBeSent, At, JobOf, IsPartition, Parent
<1>1. TypeInv /\ HandledPast(r) /\ jobs'[j].status # "ABSENT"
  BY DEF SqsInv, SqsTypeInv, UnlostFamily, NeedsMessage
<1>2. CASE jobs[j].status = "ABSENT"
  BY <1>1, <1>2, NewAreSent
<1>3. CASE jobs[j].status # "ABSENT"
  <2>1. NeedsMessage(j) /\ Posted(j)
    BY <1>1, <1>3, NothingUndone, NeedsBefore DEF TypeInv, RowsPosted, Present
  <2>2. CASE HasMessage(j)
    BY <1>1, <2>1, <2>2, MessagesStay
  <2>3. CASE ~IsPartition(j) /\ r \in unsent
    <3>1. j = <<r, 0>>
      BY <2>3, ParentFacts
    <3> QED
      BY <2>3, <3>1, RootsToSend
  <2>4. ASSUME NEW w \in Workers, At(w, "fan_out"), JobOf(w) = Parent(j), handling[w].next <= j[2]
        PROVE  \/ \E m \in queue' : m[1] = j
               \/ /\ handling'[w].step = "fan_out" /\ handling'[w].msg[1] = Parent(j)
                  /\ handling'[w].next <= j[2]
    BY <2>1, <2>4, PartitionsToSend
  <2>5. HasMessage(j) \/ ToBeSent(j)
    BY <2>1 DEF UnlostFamily, MessagesThere
  <2> QED
    BY <2>2, <2>3, <2>4, <2>5 DEF ToBeSent
<1> QED
  BY <1>2, <1>3

(* What is on its way to be deleted or dead-lettered needs no message.      *)
LEMMA HandledStillPast ==
    ASSUME SqsInv, SqsNext, NEW r \in Roots, UnlostFamily(r), Unlost(r)'
    PROVE  HandledPast(r)'
<1> SUFFICES ASSUME NEW w \in Workers, handling'[w].step \in {"delete", "dead_letter", "undo"},
                    NEW j, j = handling'[w].msg[1], j[1] = r
             PROVE  handling'[w].step # "undo" /\ Past(j)'
  BY DEF HandledPast, At, JobOf, Past, Known, Posted, IsPartition, Parent, IsCoordinator, Partitions
<1>1. /\ SqsTypeInv /\ SqsTypeInv' /\ TypeInv /\ jobs \in [JobIds -> Row]
      /\ handling \in [Workers -> Handling] /\ w \in Agents
      /\ HandledPast(r) /\ Grows /\ FamiliesMove
  BY SqsTypeStep, SqsGrows, SqsFamilies, AgentFacts
  DEF SqsInv, SqsTypeInv, SqsTypeOK, UnlostFamily, TypeInv, TypeOK
<1>2. j \in JobIds
  BY <1>1 DEF SqsTypeInv, SqsTypeOK, HandlingOK, Handling, Messages
<1>3. Past(j) => Past(j)'
  BY <1>1, <1>2, NothingUndone, PastStays
<1>4. CASE handling'[w] = handling[w]
  BY <1>1, <1>3, <1>4 DEF HandledPast, At, JobOf
<1>5. CASE handling'[w] # handling[w]
  <2>1. j = JobOf(w) /\ \/ LookUp(w) /\ Stale(JobOf(w))
                        \/ SqsSave(w) /\ Update(w).status \in Terminal
                        \/ DeadLetter(w)
                        \/ EnqueuePartition(w) /\ handling'[w].step = "delete"
                        \/ EnqueuePartitionFails(w)
    BY <1>1, <1>5, EndsTurn DEF JobOf
  <2>2. ~EnqueuePartitionFails(w)
    BY <2>1, Lost DEF EnqueuePartitionFails, QueueFault, Losses
  <2>3. ~At(w, "free") => Known(j)
    BY <2>1 DEF SqsInv, KnownJobs
  <2>4. CASE LookUp(w) /\ Stale(JobOf(w))
    <3>1. Past(j) /\ GoTo(w, "delete")
      BY <2>1, <2>3, <2>4 DEF LookUp, Stale, At, Past
    <3> QED
      BY <1>1, <1>3, <3>1, MovedTo DEF Steps
  <2>5. CASE SqsSave(w) /\ Update(w).status \in Terminal
    <3>1. At(w, "run") /\ pc[w] # "idle" /\ Finish(w, AfterRun(Update(w).status))
      BY <2>5 DEF SqsSave, SaveJobResult, SavePartitionResult, Running
    <3>2. j = job[w] /\ Known(j)'
      BY <1>1, <1>2, <2>1, <2>3, <3>1, KnownKept DEF SqsTypeInv, HandlingOK, At, JobOf
    <3>3. \/ UpdateJobResult(Update(w))
          \/ UpdateIntegrationPartitionResult(Update(w)) /\ IsPartition(job[w])
      BY <2>5 DEF SqsSave, SaveJobResult, SavePartitionResult
    <3>4. jobs'[j].status \in Terminal \cup {"ABSENT"}
      <4>1. CASE jobs[j].status = "ABSENT"
        BY <1>1, <3>1, <3>2, <3>3, <4>1, SavedRows
      <4>2. CASE jobs[j].status # "ABSENT"
        BY <1>1, <2>5, <3>1, <3>2, <3>3, <4>2, SavedRows, UpdateTells
      <4> QED
        BY <4>1, <4>2
    <3>5. GoTo(w, "delete") \/ GoTo(w, "dead_letter")
      BY <2>5, <3>1 DEF Finish, AfterRun, Terminal
    <3>6. handling'[w].step # "undo"
      BY <1>1, <3>5, MovedTo DEF Steps
    <3> QED
      BY <3>2, <3>4, <3>6 DEF Past
  <2>6. CASE DeadLetter(w)
    <3>1. At(w, "dead_letter") /\ GoTo(w, "delete")
      BY <2>6 DEF DeadLetter
    <3>2. Past(j)
      BY <1>1, <2>1, <3>1 DEF HandledPast, At
    <3> QED
      BY <1>1, <1>3, <3>1, <3>2, MovedTo DEF Steps
  <2>7. CASE EnqueuePartition(w) /\ handling'[w].step = "delete"
    <3>1. At(w, "fan_out")
      BY <2>7 DEF EnqueuePartition
    <3>2. IsCoordinator(j) /\ Known(j) /\ Owns(w, j)
      BY <1>1, <2>1, <2>3, <3>1, NextToSend DEF At, Owns, JobOf
    <3>3. jobs[j].status # "PENDING" /\ jobs[j] \in Row
      BY <1>1, <1>2, <3>2 DEF SqsInv, SqsHeld, OwnedIsTaken
    <3>4. Past(j)
      BY <3>2, <3>3 DEF Past, Row, Statuses, Terminal
    <3> QED
      BY <1>3, <2>7, <3>4
  <2> QED
    BY <2>1, <2>2, <2>4, <2>5, <2>6, <2>7
<1> QED
  BY <1>4, <1>5

LEMMA LossStep == LossInv /\ [SqsNext]_sqsVars => LossInv'
<1> SUFFICES ASSUME LossInv, [SqsNext]_sqsVars PROVE LossInv'
  OBVIOUS
<1>1. SqsInv /\ SqsInv'
  BY SqsInvStep DEF LossInv
<1>2. ASSUME SqsNext, NEW r \in Roots, Unlost(r)'
      PROVE  UnlostFamily(r)'
  <2>1. UnlostFamily(r)
    BY <1>2, UnlostBefore DEF LossInv
  <2> QED
    BY <1>1, <1>2, <2>1, FamilyStillGoesOn, MessagesStillThere, HandledStillPast DEF UnlostFamily
<1>3. CASE UNCHANGED sqsVars
  <2>1. /\ queue' = queue /\ unsent' = unsent /\ handling' = handling /\ struck' = struck
        /\ pc' = pc /\ job' = job /\ input' = input /\ jobs' = jobs
    BY <1>3 DEF sqsVars, queueVars, vars, agentVars, tableVars
  <2>2. ASSUME NEW r \in Roots
        PROVE  /\ Unlost(r)' <=> Unlost(r)
               /\ FamilyGoesOn(r)' <=> FamilyGoesOn(r)
               /\ MessagesThere(r)' <=> MessagesThere(r)
               /\ HandledPast(r)' <=> HandledPast(r)
    <3>1. Unlost(r)' <=> Unlost(r)
      BY <2>1 DEF Unlost, Struck
    <3>2. FamilyGoesOn(r)' <=> FamilyGoesOn(r)
      BY <2>1 DEF FamilyGoesOn, ParentSettled, NoneFailed, ParentWaits, ChildrenHeld,
                  HeldByNone, IsOf, IsPartition
    <3>3. MessagesThere(r)' <=> MessagesThere(r)
      BY <2>1 DEF MessagesThere, NeedsMessage, HasMessage, ToBeSent, IsCoordinator,
                  IsPartition, Partitions, Parent, At, JobOf
    <3>4. HandledPast(r)' <=> HandledPast(r)
      BY <2>1 DEF HandledPast, Past, Known, Posted, IsCoordinator, IsPartition, Partitions,
                  Parent, At, JobOf
    <3> QED
      BY <3>1, <3>2, <3>3, <3>4
  <2>3. \A r \in Roots : Unlost(r)' => UnlostFamily(r)'
    BY <2>2 DEF LossInv, UnlostFamily
  <2> QED
    BY <1>1, <2>3 DEF LossInv
<1>4. CASE SqsNext
  BY <1>1, <1>2, <1>4 DEF LossInv
<1> QED
  BY <1>3, <1>4

LEMMA LossInit == SqsInit => LossInv
<1> SUFFICES ASSUME SqsInit PROVE LossInv
  OBVIOUS
<1>1. /\ \A j \in JobIds : jobs[j].status = "ABSENT"
      /\ \A w \in Workers : handling[w].step = "free"
  BY DEF SqsInit, Init, InitTable, NoRow, Free
<1>2. ASSUME NEW r \in Roots
      PROVE  UnlostFamily(r)
  <2>1. <<r, 0>> \in JobIds
    BY MaxPartitionsAssumption DEF JobIds
  <2> QED
    BY <1>1, <2>1 DEF UnlostFamily, FamilyGoesOn, ParentSettled, NoneFailed, ParentWaits,
                      ChildrenHeld, MessagesThere, NeedsMessage, HandledPast, At
<1> QED
  BY <1>2, SqsInvInit DEF LossInv

LEMMA LossMeansNoneStuck == LossInv => OnlyLossStrandsJobs
<1> SUFFICES ASSUME LossInv, NEW j \in JobIds, Stuck(j), Unlost(j[1]) PROVE FALSE
  BY DEF OnlyLossStrandsJobs, Unlost
<1> DEFINE r == j[1]
<1>1. r \in Roots /\ SqsInv /\ UnlostFamily(r) /\ jobs \in [JobIds -> Row]
  BY JobIdFacts DEF LossInv, SqsInv, SqsTypeInv, TypeInv, TypeOK
<1>2. jobs[j].status # "PENDING"
  BY <1>1 DEF Stuck, UnlostFamily, MessagesThere, NeedsMessage
<1>3. jobs[j].status = "RUNNING" /\ HeldByNone(j)
  BY <1>2 DEF Stuck, Busy, HeldByNone
<1>4. ~IsPartition(j)
  BY <1>1, <1>3 DEF UnlostFamily, FamilyGoesOn, ChildrenHeld, IsOf
<1>5. j = <<r, 0>>
  BY <1>4, ParentFacts
<1>6. PICK k \in JobIds : IsOf(r, k) /\ jobs[k].status \in {"PENDING", "RUNNING"}
  BY <1>1, <1>3, <1>5 DEF UnlostFamily, FamilyGoesOn, ParentWaits
<1>7. Undecided(r)
  BY <1>6 DEF Undecided, ChildRows, IsOf, Present, Terminal
<1> QED
  BY <1>2, <1>4, <1>7 DEF Stuck

(* However messages are redelivered, delayed, duplicated by a repeated      *)
(* fan-out or deleted as stale, a job is stuck only when a loss struck its  *)
(* root: for any jobs, workers, budgets and number of faults.               *)
THEOREM OnlyLossesStrandJobs == SqsSpec => []OnlyLossStrandsJobs
  BY LossInit, LossStep, LossMeansNoneStuck, PTL DEF SqsSpec
=============================================================================
