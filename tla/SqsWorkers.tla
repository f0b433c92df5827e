------------------------------ MODULE SqsWorkers ------------------------------
(***************************************************************************)
(* The service with the Amazon SQS queue (api/src/queue/sqs_job_queue.rs). *)
(* The table is still where jobs are claimed and saved, by the actions of  *)
(* PostgresWorkers; a message only names a job, and is what makes a worker *)
(* claim it by id.                                                         *)
(*                                                                         *)
(* SQS is external: a message sent is delivered at least once, and again   *)
(* whenever the visibility timeout runs out before it is deleted.  Hence a *)
(* message may be received at any time until it is deleted, also while     *)
(* another worker is at work on it.                                        *)
(***************************************************************************)
EXTENDS PostgresWorkers

CONSTANT DeadLetterQueue    \* is SQS_DLQ_URL set?

ASSUME DeadLetterQueueAssumption == DeadLetterQueue \in BOOLEAN

(* WORKER_COUNT is a number.                                                *)
ASSUME WorkersFiniteAssumption == IsFiniteSet(Workers)

(* What may also go wrong: a send of the API server ("send"), a send of a   *)
(* fan-out ("enqueue"), a delete, a send to the dead-letter queue, and a    *)
(* redrive policy that takes a message out of the queue.                    *)
CONSTANT QueueFaultKinds

(* (A commit whose reply is lost is the subject of PostgresWorkers.)        *)
ASSUME QueueFaultKindsAssumption ==
    /\ "reply" \notin FaultKinds
    /\ QueueFaultKinds \subseteq {"send", "enqueue", "delete", "dead_letter", "redrive"}

VARIABLES
    queue,      \* the messages sent and not deleted
    dlq,        \* the dead-letter queue: who moved which job there
    unsent,     \* roots inserted by a POST that has yet to send the message
    handling,   \* worker -> what it does with the message it received
    struck      \* what may have cost a root its messages or its worker so far

queueVars == <<queue, dlq, unsent, handling, struck>>
sqsVars   == <<vars, queueVars>>

Messages == JobIds \X (Nat \ {0})
NoMessage == <<>>
Free     == [step |-> "free", msg |-> NoMessage, next |-> 0]

(* "run" lasts as long as the agent's turn in PostgresWorkers, "fan_out"    *)
(* until every partition is sent.                                           *)
Steps    == {"free", "run", "check", "fan_out", "undo", "delete", "dead_letter"}
Handling == [step : Steps, msg : Messages \cup {NoMessage}, next : 0..MaxPartitions]

SqsTypeOK ==
    /\ TypeOK
    /\ queue    \subseteq Messages
    /\ dlq      \subseteq {"worker", "redrive"} \X JobIds
    /\ unsent   \subseteq Roots
    /\ handling \in [Workers -> Handling]
    /\ struck   \subseteq (QueueFaultKinds \cup 
                               {"abandon", "fan_out_by_hand", "failed_by_hand"}) \X Roots

SqsInit ==
    /\ Init
    /\ queue    = {}
    /\ dlq      = {}
    /\ unsent   = {}
    /\ handling = [w \in Workers |-> Free]
    /\ struck   = {}

At(w, step)    == handling[w].step = step
JobOf(w)       == handling[w].msg[1]
Keep(w)        == handling' = [handling EXCEPT ![w] = Free]
GoTo(w, step)  == handling' = [handling EXCEPT ![w].step = step]
QueueFault(kind, r) ==
    /\ kind \in QueueFaultKinds
    /\ faults < MaxFaults
    /\ faults' = faults + 1
    /\ struck' = struck \cup {<<kind, r>>}
    /\ UNCHANGED <<tableVars, pc, job, seen>>

(* Copies of a message are told apart by a number not in use.               *)
Send(j) ==
    LET used == {m[2] : m \in {n \in queue \cup {handling[w].msg : w \in Workers} :
                                 n # NoMessage /\ n[1] = j}}
        id   == CHOOSE i \in 1..Cardinality(used) + 1 : i \notin used
    IN  queue' = queue \cup {<<j, id>>}

-----------------------------------------------------------------------------
(* The API server: the insert commits, then the message is sent.            *)

PostJob(r, q) ==
    /\ CreateJob(r, q) \/ CreateFailingJob(r, q)
    /\ unsent' = unsent \cup {r}
    /\ UNCHANGED <<queue, dlq, handling, struck>>

Enqueue(r) ==
    /\ r \in unsent
    /\ Send(<<r, 0>>)
    /\ unsent' = unsent \ {r}
    /\ UNCHANGED <<vars, dlq, handling, struck>>

(* The client is answered 500, or hung up in between: the row stays.        *)
EnqueueFails(r) ==
    /\ QueueFault("send", r)
    /\ r \in unsent
    /\ unsent' = unsent \ {r}
    /\ UNCHANGED <<queue, dlq, handling>>

SqsClear ==
    /\ ClearJobs
    /\ UNCHANGED queueVars

SqsClearFails ==
    /\ ClearJobsFails
    /\ UNCHANGED queueVars

-----------------------------------------------------------------------------
(* receive: take a message, claim its job by id; if that fails, look why.   *)

SqsReceive(w, m) ==
    /\ At(w, "free") /\ m \in queue
    /\ handling' = [handling EXCEPT ![w] =
          [step |-> IF jobs[m[1]].status = "PENDING" THEN "run" ELSE "check",
           msg  |-> m, next |-> 0]]
    /\ IF jobs[m[1]].status = "PENDING"
       THEN ClaimJobById(m[1]) /\ Take(w, m[1])
       ELSE UNCHANGED vars
    /\ UNCHANGED <<queue, dlq, unsent, struck>>

(* Mutant: a message that claims nothing is never deleted.                  *)
Stale_Never(j) == FALSE

(* A message of a job that is decided or gone is stale.                     *)
Stale(j) == jobs[j].status \in Terminal \cup {"ABSENT"}

(* get_job_by_id, a statement after the claim that failed.                  *)
LookUp(w) ==
    /\ At(w, "check")
    /\ IF Stale(JobOf(w)) THEN GoTo(w, "delete") ELSE Keep(w)
    /\ UNCHANGED <<vars, queue, dlq, unsent, struck>>

DeleteMessage(w) ==
    /\ At(w, "delete")
    /\ queue' = queue \ {handling[w].msg}
    /\ Keep(w)
    /\ UNCHANGED <<vars, dlq, unsent, struck>>

(* The request fails; or the handle is of an older delivery and SQS ignores *)
(* it, which costs nothing.                                                 *)
DeleteFails(w) ==
    /\ At(w, "delete")
    /\ QueueFault("delete", JobOf(w)[1])
    /\ Keep(w)
    /\ UNCHANGED <<queue, dlq, unsent>>

-----------------------------------------------------------------------------
(* After the run: retry_later, dead_letter or complete, by the status that  *)
(* this run computed, whatever the row holds by then.                       *)

(* Mutant: a job to be retried is completed in the queue.                   *)
AfterRun_Forgets(status) ==
    CASE status = "PENDING" -> "delete" [] status = "FAILED" -> "dead_letter"
      [] OTHER -> "delete"

(* Mutant: every failed attempt is dead-lettered.                           *)
AfterRun_DeadLettersRetries(status) ==
    IF status \in {"PENDING", "FAILED"} THEN "dead_letter" ELSE "delete"

(* Mutant: a job given up is completed in the queue.                        *)
AfterRun_NoDeadLetter(status) == IF status = "PENDING" THEN "free" ELSE "delete"

AfterRun(status) ==
    CASE status = "PENDING" -> "free"
      [] status = "FAILED"  -> "dead_letter"
      [] OTHER              -> "delete"

Finish(w, step) == IF step = "free" THEN Keep(w) ELSE GoTo(w, step)

SqsSave(w) ==
    /\ At(w, "run")
    /\ SaveJobResult(w) \/ SavePartitionResult(w)
    /\ Finish(w, AfterRun(Update(w).status))
    /\ UNCHANGED <<queue, dlq, unsent, struck>>

(* The save fails: the reset follows, and the message stays in the queue.   *)
SqsSaveFails(w) ==
    /\ At(w, "run")
    /\ SavePartitionFails(w)
    /\ UNCHANGED queueVars

SqsReject(w) ==
    /\ At(w, "run")
    /\ RejectPartitionResult(w)
    /\ UNCHANGED queueVars

SqsReset(w) ==
    /\ At(w, "run")
    /\ ResetPartition(w) \/ FanOutRejected(w)
    /\ Keep(w)
    /\ UNCHANGED <<queue, dlq, unsent, struck>>

DeadLetter(w) ==
    /\ At(w, "dead_letter")
    /\ dlq' = dlq \cup (IF DeadLetterQueue THEN {<<"worker", JobOf(w)>>} ELSE {})
    /\ GoTo(w, "delete")
    /\ UNCHANGED <<vars, queue, unsent, struck>>

(* (A send whose reply is lost is a DeadLetter followed by a DeleteFails.)  *)
DeadLetterFails(w) ==
    /\ At(w, "dead_letter") /\ DeadLetterQueue
    /\ QueueFault("dead_letter", JobOf(w)[1])
    /\ Keep(w)
    /\ UNCHANGED <<queue, dlq, unsent>>

-----------------------------------------------------------------------------
(* Fan-out: the partitions are inserted in one transaction, then a message  *)
(* is sent for every partition of the parent, old or new, by index.         *)

SqsFanOut(w) ==
    /\ At(w, "run")
    /\ FanOut(w)
    /\ handling' = [handling EXCEPT ![w] = [@ EXCEPT !.step = "fan_out", !.next = 1]]
    /\ UNCHANGED <<queue, dlq, unsent, struck>>

(* Mutant: one partition more than there are.                               *)
LastPartition_OffByOne(w) ==
    handling[w].next = Cardinality(Partitions(JobOf(w)[1])) + 1

LastPartition(w) == handling[w].next = Cardinality(Partitions(JobOf(w)[1]))

EnqueuePartition(w) ==
    /\ At(w, "fan_out")
    /\ Send(<<JobOf(w)[1], handling[w].next>>)
    /\ IF LastPartition(w)
       THEN GoTo(w, "delete")
       ELSE handling' = [handling EXCEPT ![w].next = @ + 1]
    /\ UNCHANGED <<vars, dlq, unsent, struck>>

(* The request fails, or only its reply is lost.                            *)
EnqueuePartitionFails(w) ==
    /\ At(w, "fan_out")
    /\ QueueFault("enqueue", JobOf(w)[1])
    /\ UNCHANGED queue \/ Send(<<JobOf(w)[1], handling[w].next>>)
    /\ GoTo(w, "undo")
    /\ UNCHANGED <<dlq, unsent>>

(* The parent goes back to PENDING, and its message stays: the fan-out will *)
(* be done again.                                                           *)
UndoFanOut(w) ==
    /\ At(w, "undo")
    /\ ResetRunningJobToPending(JobOf(w))
    /\ Keep(w)
    /\ UNCHANGED <<agentVars, queue, dlq, unsent, struck>>

-----------------------------------------------------------------------------
(* The worker dies at any point of its turn; the message is redelivered.    *)
SqsAbandon(w) ==
    /\ ~At(w, "free")
    /\ IF At(w, "run") THEN Abandon(w)
       ELSE Fault("abandon") /\ UNCHANGED <<tableVars, pc, job, seen>>
    /\ struck' = struck \cup {<<"abandon", JobOf(w)[1]>>}
    /\ Keep(w)
    /\ UNCHANGED <<queue, dlq, unsent>>

(* SQS moves a message received too often; it counts receives, not claims.  *)
Redrive(m) ==
    /\ QueueFault("redrive", m[1][1])
    /\ m \in queue
    /\ queue' = queue \ {m}
    /\ dlq'   = dlq \cup {<<"redrive", m[1]>>}
    /\ UNCHANGED <<unsent, handling>>

(* POST /jobs/{id}/run builds a Postgres queue whatever the service uses:   *)
(* nothing it does touches a message.                                       *)
ByHand(c) ==
    /\ SavePartitionFails(c) \/ \E j \in JobIds : RunById(c, j)
    /\ UNCHANGED queueVars

SaveByHand(c) ==
    /\ \/ SaveJobResult(c) \/ SavePartitionResult(c) \/ RejectPartitionResult(c)
       \/ ResetPartition(c) \/ FanOutRejected(c)
    /\ struck' = IF Running(c) /\ ~IsCoordinator(job[c]) /\ Update(c).status = "FAILED"
                 THEN struck \cup {<<"failed_by_hand", job[c][1]>>} ELSE struck
    /\ UNCHANGED <<queue, dlq, unsent, handling>>

FanOutByHand(c) ==
    /\ FanOut(c)
    /\ struck' = struck \cup {<<"fan_out_by_hand", job[c][1]>>}
    /\ UNCHANGED <<queue, dlq, unsent, handling>>

AbandonByHand(c) ==
    /\ Abandon(c)
    /\ struck' = struck \cup {<<"abandon", job[c][1]>>}
    /\ UNCHANGED <<queue, dlq, unsent, handling>>

SqsStep(w) ==
    \/ LookUp(w) \/ DeleteMessage(w) \/ DeadLetter(w)
    \/ SqsSave(w) \/ SqsReject(w) \/ SqsReset(w) \/ SqsFanOut(w)
    \/ EnqueuePartition(w) \/ UndoFanOut(w)

SqsFault(w) ==
    DeleteFails(w) \/ DeadLetterFails(w) \/ EnqueuePartitionFails(w) \/ SqsAbandon(w)

SqsNext ==
    \/ \E r \in Roots, q \in Requests : PostJob(r, q)
    \/ \E r \in Roots : Enqueue(r) \/ EnqueueFails(r)
    \/ SqsClear \/ SqsClearFails
    \/ \E w \in Workers, m \in queue : SqsReceive(w, m)
    \/ \E w \in Workers : SqsStep(w) \/ SqsSaveFails(w) \/ SqsFault(w)
    \/ \E m \in queue : Redrive(m)
    \/ \E c \in Runners : ByHand(c) \/ SaveByHand(c) \/ FanOutByHand(c) \/ AbandonByHand(c)

SqsSpec == SqsInit /\ [][SqsNext]_sqsVars

(* A request made of SQS or of Postgres is answered, so a turn ends and a   *)
(* POST sends its message.  Workers poll forever, and SQS does not pass     *)
(* over the same message for ever: one that can be received time and again  *)
(* is received.                                                             *)
SqsFairness ==
    /\ \A r \in Roots : WF_sqsVars(Enqueue(r))
    /\ \A w \in Workers : WF_sqsVars(SqsStep(w))
    /\ \A c \in Runners : WF_sqsVars(SaveByHand(c) \/ FanOutByHand(c))
    /\ \A j \in JobIds : SF_sqsVars(\E w \in Workers, m \in queue :
                                        m[1] = j /\ SqsReceive(w, m))
    /\ WF_sqsVars(FinishDelete /\ UNCHANGED <<agentVars, queueVars>>)

SqsFairSpec == SqsSpec /\ SqsFairness

-----------------------------------------------------------------------------
(* Properties.                                                              *)

HasMessage(j) == \E m \in queue : m[1] = j
Fanning(r)    == \E w \in Workers : ~At(w, "free") /\ JobOf(w) = <<r, 0>>
                                    /\ handling[w].step \in {"fan_out", "undo"}
ToBeSent(j)   == \/ ~IsPartition(j) /\ j[1] \in unsent
                 \/ \E w \in Workers : /\ At(w, "fan_out") /\ JobOf(w) = Parent(j)
                                       /\ handling[w].next <= j[2]
ToFanOut(j)   == \/ jobs[Parent(j)].status = "PENDING"
                 \/ \E w \in Workers : At(w, "undo") /\ JobOf(w) = Parent(j)
                 \/ \E a \in Agents : Busy(a) /\ job[a] = Parent(j)
Undecided(r)  == \E j \in ChildRows(r) : jobs[j].status \notin Terminal

(* A job nothing will ever move: PENDING without a message, sent or to be   *)
(* sent; or RUNNING with nobody at work on it and no partition to wait for. *)
Stuck(j) ==
    \/ /\ jobs[j].status = "PENDING"
       /\ ~HasMessage(j) /\ ~ToBeSent(j)
       /\ ~(IsPartition(j) /\ ToFanOut(j))
    \/ /\ jobs[j].status = "RUNNING"
       /\ \A a \in Agents : ~(Busy(a) /\ job[a] = j)
       /\ IsPartition(j) \/ ~(Fanning(j[1]) \/ Undecided(j[1]))

(* What loses a message that is needed, or the worker of a claimed row.     *)
Losses == {"abandon", "send", "enqueue", "redrive", "fan_out_by_hand"}

Struck(r, kinds) == \E kind \in kinds : <<kind, r>> \in struck

(* However messages are redelivered, delayed, duplicated by a repeated      *)
(* fan-out or deleted as stale, a message is there as long as its job needs *)
(* one.  Failed saves, deletes, dead-letterings and clears strand nothing:  *)
(* a job is stuck only when its message was never sent, was moved by SQS,   *)
(* its worker died, its fan-out had to be undone or was made by hand.       *)
OnlyLossStrandsJobs ==
    \A j \in JobIds : Stuck(j) => Struck(j[1], Losses)

(* A message delivered twice does not run its job twice at once, and the    *)
(* attempt that ends writes the row its claim made RUNNING.  (A coordinator *)
(* claimed again may meanwhile be failed by a partition; it writes nothing  *)
(* of its own row then.)                                                    *)
RedeliveryIsHarmless ==
    \A a \in Agents : Busy(a) =>
        /\ \A b \in Agents : Busy(b) /\ job[a] = job[b] => a = b
        /\ Present(job[a]) /\ ~IsCoordinator(job[a])
              => jobs[job[a]].status = "RUNNING" /\ jobs[job[a]].retry_count = seen[a]

(* The worker dead-letters a job only once it is FAILED (or was cleared).   *)
DeadLetteredIsFailed ==
    \A j \in JobIds : <<"worker", j>> \in dlq => jobs[j].status \in {"FAILED", "ABSENT"}

(* A job given up after its attempts is in the dead-letter queue, or on its *)
(* way there, unless the send failed, the worker died before it or a run by *)
(* hand made the last attempt: that another worker deletes the redelivered  *)
(* message as stale does not lose it.                                       *)
ExhaustedIsDeadLettered ==
    \A j \in JobIds :
        /\ jobs[j].status = "FAILED" /\ jobs[j].error = "attempt"
        /\ <<"worker", j>> \notin dlq
        /\ \A w \in Workers : ~(At(w, "dead_letter") /\ JobOf(w) = j)
        => Struck(j[1], {"abandon", "dead_letter", "failed_by_hand"})

(* Everything posted is decided or cleared, and no message is left.         *)
WorkedOff ==
    /\ queue = {}
    /\ \A j \in JobIds : jobs[j].status \notin {"PENDING", "RUNNING"}

(* Unless one of those losses happens, the queue is worked off whatever     *)
(* saves, deletes and dead-letterings fail: no job stays undecided, and no  *)
(* message is received for ever, be it of a cancelled job or a cleared one. *)
QueueDrains ==
    []~(\E r \in Roots : Struck(r, Losses)) => []<>WorkedOff

(* What distributes_and_aggregates_integration_partitions asserts once the  *)
(* queue is worked off: with all its partitions COMPLETED, so is a parent.  *)
CompletedPartitionsCompleteTheParent ==
    queue = {} /\ unsent = {} /\ (\A w \in Workers : At(w, "free")) =>
        \A r \in Roots :
            /\ ChildRows(r) # {}
            /\ \A j \in PartitionIds(r) : jobs[j].status = "COMPLETED" /\ jobs[j].result = "value"
            => jobs[<<r, 0>>].status = "COMPLETED"
=============================================================================
