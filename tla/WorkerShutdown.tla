---------------------------- MODULE WorkerShutdown ----------------------------
(***************************************************************************)
(* The loop around a worker's turns, and its stop (start_worker_loop,      *)
(* worker_task_loop).  One process is told to stop by a signal while the   *)
(* workers of other processes go on as in PostgresWorkers.  Its tasks      *)
(* learn of it through a watch channel: a task looks at the flag before it *)
(* polls, and afterwards waits for the channel to change or for the poll   *)
(* interval to pass, whichever comes first.  The process returns when all  *)
(* its tasks have ended.                                                   *)
(*                                                                         *)
(* The stop alone is the subject here: the faults and the runs by hand are *)
(* in PostgresWorkers.                                                     *)
(***************************************************************************)
EXTENDS PostgresWorkers

CONSTANT Stopping    \* the worker tasks of the process that is told to stop

ASSUME ShutdownAssumption ==
    /\ Stopping \subseteq Workers
    /\ Runners = {} /\ FaultKinds = {}

VARIABLES
    at,        \* task -> where it is in its loop
    shutdown,  \* the value in the watch channel
    process,   \* "running", "joining" its tasks or "returned"
    late       \* task -> the claims it made since the signal

loopVars     == <<at, shutdown, process, late>>
shutdownVars == <<vars, loopVars>>

ShutdownTypeOK ==
    /\ TypeOK
    /\ at       \in [Stopping -> {"check", "poll", "turn", "select", "ended"}]
    /\ shutdown \in BOOLEAN
    /\ process  \in {"running", "joining", "returned"}
    /\ late     \in [Stopping -> Nat]

ShutdownInit ==
    /\ Init
    /\ at       = [t \in Stopping |-> "check"]
    /\ shutdown = FALSE
    /\ process  = "running"
    /\ late     = [t \in Stopping |-> 0]

GoTo(t, to) == at' = [at EXCEPT ![t] = to]

(* Mutant: the flag is not looked at before polling.                        *)
Check_Always(t) ==
    /\ at[t] = "check"
    /\ GoTo(t, "poll")
    /\ UNCHANGED <<vars, shutdown, process, late>>

Check(t) ==
    /\ at[t] = "check"
    /\ GoTo(t, IF shutdown THEN "ended" ELSE "poll")
    /\ UNCHANGED <<vars, shutdown, process, late>>

(* process_next_pending_job: a claim, and the turn that follows it; or      *)
(* nothing is found, every PENDING row being locked by another.             *)
PollClaims(t) ==
    /\ at[t] = "poll"
    /\ \E j \in JobIds : Receive(t, j)
    /\ GoTo(t, "turn")
    /\ late' = [late EXCEPT ![t] = IF shutdown THEN @ + 1 ELSE @]
    /\ UNCHANGED <<shutdown, process>>

PollFindsNothing(t) ==
    /\ at[t] = "poll"
    /\ \A j \in JobIds : jobs[j].status = "PENDING" => j \in Lockable
    /\ GoTo(t, "select")
    /\ UNCHANGED <<vars, shutdown, process, late>>

Turn(t) ==
    /\ at[t] = "turn"
    /\ Step(t)
    /\ GoTo(t, IF pc'[t] = "idle" THEN "select" ELSE "turn")
    /\ UNCHANGED <<shutdown, process, late>>

(* changed(): the flag was set after the task subscribed.                   *)
Changed(t) ==
    /\ at[t] = "select" /\ shutdown
    /\ GoTo(t, "ended")
    /\ UNCHANGED <<vars, shutdown, process, late>>

Slept(t) ==
    /\ at[t] = "select"
    /\ GoTo(t, "check")
    /\ UNCHANGED <<vars, shutdown, process, late>>

Loop(t) ==
    Check(t) \/ PollClaims(t) \/ PollFindsNothing(t) \/ Turn(t) \/ Changed(t) \/ Slept(t)

(* SIGTERM or Ctrl+C.                                                       *)
Signal ==
    /\ process = "running"
    /\ shutdown' = TRUE
    /\ process'  = "joining"
    /\ UNCHANGED <<vars, at, late>>

(* Mutant: the tasks are not waited for; what they were doing is dropped.   *)
Return_WithoutJoining ==
    /\ process = "joining"
    /\ process' = "returned"
    /\ at' = [t \in Stopping |-> "ended"]
    /\ pc' = [a \in Agents |-> IF a \in Stopping THEN "idle" ELSE pc[a]]
    /\ UNCHANGED <<tableVars, job, seen, faults, shutdown, late>>

(* Every task is awaited; then the process exits.                           *)
Return ==
    /\ process = "joining"
    /\ \A t \in Stopping : at[t] = "ended"
    /\ process' = "returned"
    /\ UNCHANGED <<vars, at, shutdown, late>>

Others == Workers \ Stopping

ShutdownNext ==
    \/ /\ \/ \E r \in Roots, q \in Requests : CreateJob(r, q) \/ CreateFailingJob(r, q)
          \/ ClearJobs
          \/ \E w \in Others : Step(w) \/ \E j \in JobIds : Receive(w, j)
       /\ UNCHANGED loopVars
    \/ \E t \in Stopping : Loop(t)
    \/ Signal \/ Return

ShutdownSpec == ShutdownInit /\ [][ShutdownNext]_shutdownVars

(* A task is scheduled, its statements are answered and its sleep ends; the *)
(* other processes keep polling.  No signal need come.                      *)
ShutdownFairness ==
    /\ \A w \in Others :
        /\ WF_shutdownVars((\E j \in JobIds : Receive(w, j)) /\ UNCHANGED loopVars)
        /\ WF_shutdownVars(Step(w) /\ UNCHANGED loopVars)
    /\ \A t \in Stopping : WF_shutdownVars(Loop(t))
    /\ WF_shutdownVars(Return)
    /\ WF_shutdownVars(FinishDelete /\ UNCHANGED <<agentVars, loopVars>>)

ShutdownFairSpec == ShutdownSpec /\ ShutdownFairness

-----------------------------------------------------------------------------
(* A process that was stopped leaves no job half done: every row its tasks  *)
(* claimed was saved or given back before it returned, and they hold none.  *)
StopLeavesNoOrphan ==
    process = "returned" => Orphans = {} /\ \A t \in Stopping : ~Busy(t)

(* After the signal a task claims at most the one job whose poll it had     *)
(* begun, however the change of the flag races with its sleep.              *)
AtMostOneLateClaim == \A t \in Stopping : late[t] <= 1

(* A process told to stop returns, however much work is left in the table.  *)
StopIsHeeded == process = "joining" ~> process = "returned"
=============================================================================
