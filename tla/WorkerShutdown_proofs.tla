------------------------ MODULE WorkerShutdown_proofs ------------------------
(* Theorems about WorkerShutdown, for every number of jobs, of processes    *)
(* and of tasks.                                                            *)
EXTENDS WorkerShutdown, PostgresOutcomes_proofs

(* A task that claimed a job since the signal does not poll again, and no   *)
(* claim is late before the signal.                                         *)
LateInv ==
    /\ late \in [Stopping -> {0, 1}]
    /\ at \in [Stopping -> {"check", "poll", "turn", "select", "ended"}]
    /\ \A t \in Stopping :
        /\ ~shutdown => late[t] = 0
        /\ late[t] = 1 => at[t] # "poll"

LEMMA LateInit == ShutdownInit => LateInv
BY DEF ShutdownInit, LateInv

(* A move of a task that makes no claim, and goes to poll only before the   *)
(* signal.                                                                  *)
LEMMA LateMove ==
    ASSUME LateInv, NEW t \in Stopping,
           NEW to \in {"check", "poll", "turn", "select", "ended"},
           at' = [at EXCEPT ![t] = to], to = "poll" => ~shutdown,
           UNCHANGED <<shutdown, late>>
    PROVE  LateInv'
BY DEF LateInv

LEMMA LoopKeepsLateInv ==
    ASSUME LateInv, NEW t \in Stopping, Loop(t)
    PROVE  LateInv'
<1>1. CASE Check(t)
  <2>1. CASE shutdown
    BY <1>1, <2>1, LateMove DEF Check, GoTo
  <2>2. CASE ~shutdown
    BY <1>1, <2>2, LateMove DEF Check, GoTo
  <2> QED
    BY <2>1, <2>2
<1>2. CASE PollClaims(t)
  (* It polls, so it has made no late claim yet.                            *)
  <2>1. late[t] = 0
    BY <1>2 DEF PollClaims, LateInv
  <2>2. /\ at' = [at EXCEPT ![t] = "turn"]
        /\ late' = [late EXCEPT ![t] = IF shutdown THEN late[t] + 1 ELSE late[t]]
        /\ shutdown' = shutdown
    BY <1>2 DEF PollClaims, GoTo
  <2> QED
    BY <2>1, <2>2 DEF LateInv
<1>3. CASE PollFindsNothing(t)
  BY <1>3, LateMove DEF PollFindsNothing, GoTo
<1>4. CASE Turn(t)
  <2>1. CASE pc'[t] = "idle"
    BY <1>4, <2>1, LateMove DEF Turn, GoTo
  <2>2. CASE pc'[t] # "idle"
    BY <1>4, <2>2, LateMove DEF Turn, GoTo
  <2> QED
    BY <2>1, <2>2
<1>5. CASE Changed(t)
  BY <1>5, LateMove DEF Changed, GoTo
<1>6. CASE Slept(t)
  BY <1>6, LateMove DEF Slept, GoTo
<1> QED
  BY <1>1, <1>2, <1>3, <1>4, <1>5, <1>6 DEF Loop

LEMMA StepKeepsLateInv == LateInv /\ [ShutdownNext]_shutdownVars => LateInv'
<1> SUFFICES ASSUME LateInv, [ShutdownNext]_shutdownVars PROVE LateInv'
  OBVIOUS
<1>1. CASE UNCHANGED loopVars
  BY <1>1 DEF LateInv, loopVars
<1>2. CASE \E t \in Stopping : Loop(t)
  BY <1>2, LoopKeepsLateInv
<1>3. CASE Signal
  BY <1>3 DEF Signal, LateInv
<1>4. CASE Return
  BY <1>4 DEF Return, LateInv
<1> QED
  BY <1>1, <1>2, <1>3, <1>4 DEF ShutdownNext, shutdownVars, loopVars

(* After the signal a task of the process claims at most one more job.      *)
THEOREM AtMostOneLateClaimTheorem == ShutdownSpec => []AtMostOneLateClaim
<1>1. LateInv => AtMostOneLateClaim
  BY DEF LateInv, AtMostOneLateClaim
<1> QED
  BY <1>1, LateInit, StepKeepsLateInv, PTL DEF ShutdownSpec

-----------------------------------------------------------------------------
(* A worker in its loop takes only the steps of PostgresWorkers, or none.   *)
LEMMA LoopStepsAreSteps ==
    ASSUME NEW t \in Stopping, Loop(t)
    PROVE  Next \/ UNCHANGED vars
<1>0. t \in Workers /\ t \in Agents
  BY ShutdownAssumption DEF Agents
<1>1. CASE PollClaims(t)
  BY <1>0, <1>1 DEF PollClaims, Next
<1>2. CASE Turn(t)
  BY <1>0, <1>2 DEF Turn, Next
<1>3. CASE Check(t) \/ PollFindsNothing(t) \/ Changed(t) \/ Slept(t)
  BY <1>3 DEF Check, PollFindsNothing, Changed, Slept
<1> QED
  BY <1>1, <1>2, <1>3 DEF Loop

LEMMA ShutdownStepsAreSteps == [ShutdownNext]_shutdownVars => [Next]_vars
<1> SUFFICES ASSUME [ShutdownNext]_shutdownVars PROVE Next \/ UNCHANGED vars
  OBVIOUS
<1>1. CASE \E r \in Roots, q \in Requests : CreateJob(r, q) \/ CreateFailingJob(r, q)
  BY <1>1 DEF Next
<1>2. CASE ClearJobs
  BY <1>2 DEF Next
<1>3. CASE \E w \in Others : Step(w) \/ \E j \in JobIds : Receive(w, j)
  <2>1. Others \subseteq Workers /\ Others \subseteq Agents
    BY DEF Others, Agents
  <2> QED
    BY <1>3, <2>1 DEF Next
<1>4. CASE \E t \in Stopping : Loop(t)
  BY <1>4, LoopStepsAreSteps
<1>5. CASE Signal \/ Return
  BY <1>5 DEF Signal, Return
<1>6. CASE UNCHANGED shutdownVars
  BY <1>6 DEF shutdownVars
<1> QED
  BY <1>1, <1>2, <1>3, <1>4, <1>5, <1>6 DEF ShutdownNext

(* The workers with their loop and their stop implement PostgresWorkers, so *)
(* what is proved of its specification holds of theirs: the loop adds no    *)
(* way to touch the table.                                                  *)
THEOREM ShutdownImplementsWorkers == ShutdownSpec => Spec
<1>1. ShutdownInit => Init
  BY DEF ShutdownInit
<1> QED
  BY <1>1, ShutdownStepsAreSteps, PTL DEF ShutdownSpec, Spec
-----------------------------------------------------------------------------
(* A task is in a turn exactly while it holds a job, and the process has    *)
(* returned only when its tasks have ended.                                 *)
Joined == process = "returned" => \A t \in Stopping : at[t] = "ended"
InTurn == \A t \in Stopping : at[t] = "turn" <=> pc[t] # "idle"

LoopTypes == /\ at \in [Stopping -> {"check", "poll", "turn", "select", "ended"}]
             /\ shutdown \in BOOLEAN
             /\ process \in {"running", "joining", "returned"}
             /\ late \in [Stopping -> Nat]

StopInv == TypeOK /\ LoopTypes /\ Joined /\ InTurn

(* What the steps of an agent leave alone of another.                       *)
LEMMA OthersUntouched ==
    ASSUME NEW a \in Agents, NEW t \in Agents, t # a, pc \in [Agents -> {"idle", "running", "resetting"}],
           (\E j \in JobIds : Receive(a, j)) \/ Step(a)
    PROVE  pc'[t] = pc[t]
<1>1. CASE \E j \in JobIds : Receive(a, j)
  BY <1>1 DEF Receive, Take
<1>2. CASE Step(a)
  BY <1>2, TurnGoesOn DEF Release, GoReset
<1> QED
  BY <1>1, <1>2

LEMMA LoopKeepsStopInv ==
    ASSUME StopInv, TypeOK', NEW t \in Stopping, Loop(t)
    PROVE  StopInv'
<1> USE DEF GoTo, LoopTypes
<1>1. /\ t \in Agents /\ Stopping \subseteq Agents /\ pc \in [Agents -> {"idle", "running", "resetting"}]
      /\ LoopTypes /\ Joined /\ InTurn
  BY ShutdownAssumption DEF Agents, StopInv, TypeOK
<1>2. process # "returned"
  BY <1>1 DEF Loop, Check, PollClaims, PollFindsNothing, Turn, Changed, Slept, Joined
<1>3. LoopTypes' /\ process' = process
  BY <1>1 DEF Loop, Check, PollClaims, PollFindsNothing, Turn, Changed, Slept
<1>4. Joined'
  BY <1>2, <1>3 DEF Joined
<1>5. InTurn'
  <2>1. \A s \in Stopping : s # t => pc'[s] = pc[s] /\ at'[s] = at[s]
    <3>1. \A s \in Stopping : s # t => at'[s] = at[s]
      BY <1>1 DEF Loop, Check, PollClaims, PollFindsNothing, Turn, Changed, Slept
    <3>2. \A s \in Stopping : s # t => pc'[s] = pc[s]
      <4>1. CASE PollClaims(t) \/ Turn(t)
        BY <1>1, <4>1, OthersUntouched DEF PollClaims, Turn
      <4>2. CASE Check(t) \/ PollFindsNothing(t) \/ Changed(t) \/ Slept(t)
        BY <4>2 DEF Check, PollFindsNothing, Changed, Slept, vars, agentVars
      <4> QED
        BY <4>1, <4>2 DEF Loop
    <3> QED
      BY <3>1, <3>2
  <2>2. at'[t] = "turn" <=> pc'[t] # "idle"
    <3>1. CASE PollClaims(t)
      <4>1. at'[t] = "turn" /\ pc' = [pc EXCEPT ![t] = "running"]
        BY <1>1, <3>1 DEF PollClaims, Receive, Take
      <4> QED
        BY <1>1, <4>1
    <3>2. CASE Turn(t)
      BY <1>1, <3>2 DEF Turn
    <3>3. CASE Check(t) \/ PollFindsNothing(t) \/ Changed(t) \/ Slept(t)
      <4>1. pc' = pc /\ at[t] # "turn" /\ at'[t] # "turn"
        BY <1>1, <3>3 DEF Check, PollFindsNothing, Changed, Slept, vars, agentVars
      <4> QED
        BY <1>1, <4>1 DEF InTurn
    <3> QED
      BY <3>1, <3>2, <3>3 DEF Loop
  <2> QED
    BY <1>1, <2>1, <2>2 DEF InTurn
<1> QED
  BY <1>3, <1>4, <1>5 DEF StopInv

LEMMA StopStep == StopInv /\ TypeOK' /\ [ShutdownNext]_shutdownVars => StopInv'
<1> SUFFICES ASSUME StopInv, TypeOK', [ShutdownNext]_shutdownVars
             PROVE  StopInv'
  OBVIOUS
<1>1. /\ Stopping \subseteq Agents /\ pc \in [Agents -> {"idle", "running", "resetting"}]
      /\ LoopTypes /\ Joined /\ InTurn
  BY ShutdownAssumption DEF Agents, StopInv, TypeOK
<1>2. ASSUME UNCHANGED loopVars, \A t \in Stopping : pc'[t] = pc[t]
      PROVE  StopInv'
  BY <1>1, <1>2 DEF loopVars, StopInv, LoopTypes, Joined, InTurn
<1>3. ASSUME UNCHANGED loopVars,
             \/ \E r \in Roots, q \in Requests : CreateJob(r, q) \/ CreateFailingJob(r, q)
             \/ ClearJobs
      PROVE  StopInv'
  <2>1. pc' = pc
    BY <1>3 DEF CreateJob, CreateFailingJob, ClearJobs, agentVars
  <2> QED
    BY <1>2, <1>3, <2>1
<1>4. ASSUME UNCHANGED loopVars,
             NEW w \in Others, Step(w) \/ \E j \in JobIds : Receive(w, j)
      PROVE  StopInv'
  <2>1. w \in Agents /\ w \notin Stopping
    BY DEF Others, Agents
  <2>2. \A t \in Stopping : pc'[t] = pc[t]
    BY <1>1, <1>4, <2>1, OthersUntouched
  <2> QED
    BY <1>2, <1>4, <2>2
<1>5. ASSUME Signal \/ Return
      PROVE  StopInv'
  BY <1>1, <1>5
  DEF Signal, Return, vars, agentVars, StopInv, LoopTypes, Joined, InTurn
<1>6. ASSUME UNCHANGED shutdownVars
      PROVE  StopInv'
  BY <1>2, <1>6 DEF shutdownVars, vars, agentVars
<1>7. ASSUME UNCHANGED loopVars,
             \/ \E r \in Roots, q \in Requests : CreateJob(r, q) \/ CreateFailingJob(r, q)
             \/ ClearJobs
             \/ \E w \in Others : Step(w) \/ \E j \in JobIds : Receive(w, j)
      PROVE  StopInv'
  BY <1>3, <1>4, <1>7
<1>8. ASSUME NEW t \in Stopping, Loop(t)
      PROVE  StopInv'
  BY <1>8, LoopKeepsStopInv
<1> QED
  BY <1>5, <1>6, <1>7, <1>8 DEF ShutdownNext

LEMMA StopAlways == ShutdownSpec => []StopInv
<1>1. ShutdownInit => Joined /\ LoopTypes /\ InTurn
  <2> SUFFICES ASSUME ShutdownInit PROVE Joined /\ LoopTypes /\ InTurn
    OBVIOUS
  <2>1. Joined /\ LoopTypes
    BY DEF ShutdownInit, Joined, LoopTypes
  <2>2. \A t \in Stopping : at[t] = "check" /\ pc[t] = "idle"
    BY ShutdownAssumption DEF ShutdownInit, Init, Agents
  <2> QED
    BY <2>1, <2>2 DEF InTurn
<1>2. Joined /\ LoopTypes /\ InTurn /\ TypeOK => StopInv
  BY DEF StopInv
<1> QED
  BY <1>1, <1>2, StopStep, ShutdownImplementsWorkers, TypeCorrect, PTL DEF ShutdownSpec

(* The loop's variables keep their types beside the table's.                *)
THEOREM ShutdownTypeCorrect == ShutdownSpec => []ShutdownTypeOK
<1>1. StopInv => ShutdownTypeOK
  BY DEF StopInv, LoopTypes, ShutdownTypeOK
<1> QED
  BY <1>1, StopAlways, PTL

(* A process that was stopped has let go of all its jobs, and left none of  *)
(* them RUNNING for nobody: the tasks are awaited, and without a fault no   *)
(* turn ends with the row as it was claimed.                                *)
THEOREM StopNeverLeavesOrphans == ShutdownSpec => []StopLeavesNoOrphan
<1> DEFINE NoFault == faults = 0
<1>1. ShutdownInit => NoFault
  BY DEF ShutdownInit, Init
<1>2. NoFault /\ [ShutdownNext]_shutdownVars => NoFault'
  <2> SUFFICES ASSUME [Next]_vars PROVE faults' = faults
    BY ShutdownStepsAreSteps
  <2>1. ASSUME NEW a \in Agents, Step(a) \/ AgentFault(a) PROVE faults' = faults
    BY <2>1, ShutdownAssumption
    DEF Step, SaveJobResult, SavePartitionResult, RejectPartitionResult, ResetPartition,
        FanOut, FanOutRejected, AgentFault, Abandon, SavePartitionFails,
        SavePartitionReplyLost, Fault
  <2> QED
    BY <2>1, ShutdownAssumption
    DEF Next, CreateJob, CreateFailingJob, ClearJobs, ClearJobsFails, Fault, Receive, RunById,
        Take, vars, agentVars
<1>3. NoFault /\ OrphanInv /\ StopInv => StopLeavesNoOrphan
  <2> SUFFICES ASSUME faults = 0, OrphanInv, StopInv
               PROVE  Orphans = {} /\ (process = "returned" => \A t \in Stopping : ~Busy(t))
    BY DEF StopLeavesNoOrphan
  <2>1. Orphans = {}
    BY FS_EmptySet, FS_CardinalityType DEF OrphanInv
  <2> QED
    BY <2>1 DEF StopInv, Joined, InTurn, Busy
<1> HIDE DEF NoFault
<1> QED
  BY <1>1, <1>2, <1>3, StopAlways, OrphanAlways, ShutdownImplementsWorkers, PTL DEF ShutdownSpec
=============================================================================
