# Verification of math-compute-platform

TLA+ models of the job service in `src/api` and of its terminal client in `src/math`,
TLC runs that check them on small instances, and proofs checked by TLAPS. Paths below are
relative to the repository; `job_repository.rs` and the like are under `src/api/src`,
`app.rs`, `wizard.rs` and `details.rs` under `src/math/src`.

## The system

Clients post jobs over HTTP; the rows of one PostgreSQL table are the jobs; worker
tasks, in one process or in many, claim PENDING rows, run them and write the result.
A Monte Carlo integration is not run itself: the worker that claims it inserts one child
row for each partition, and the transaction that saves the last child's result merges
them and decides the parent.

| Component | State | Operations | Talks to |
| --- | --- | --- | --- |
| Job table (`jobs/job_repository.rs`, `migrations/`) | the rows | insert, fan-out insert, two claims, reset, result update, partition update, delete, reads | everyone, by SQL |
| Partition transaction (`update_integration_partition_result`) | row locks | lock parent, write child, cancel siblings or read them, decide parent | the other transactions, by locks |
| Worker loop (`worker/worker_loop.rs`) | per task: the claimed job, as it was read at the claim | receive, run, save, reset, fan-out | queue, table |
| Run by id (`POST /jobs/{id}/run`) | the same, inside a request handler | claim by id, run, save | table |
| Endpoints (`jobs/job_endpoints.rs`) | none | post, post a failing job, clear, read | table, queue |
| Postgres queue | none: the row is the message | receive is the claim | table |
| SQS queue (`queue/sqs_job_queue.rs`) | messages, visibility, dead-letter queue | send, receive and claim, delete, dead-letter | table, AWS |
| Shutdown (`start_worker_loop`) | a watch channel | raise, poll, join | worker tasks |
| Sampling (`tasks/monte_carlo_integration.rs`) | none | divide samples, sample a range, merge, finalize | worker, partition transaction |
| Reads and metrics | none | details and progress, list, counts | table |
| Terminal client (`src/math`) | screen, form, task list | keys, submit, refresh | the HTTP API |

What is hard in it:

* Claims, saves, resets and deletes of any number of processes interleave statement by
  statement. Saves write a row by id, without looking at its status, and count attempts from what
  the worker read at the claim: only exclusive claims keep that right.
* The last partitions of an integration finish at once; the transaction must neither
  lose the completion nor deadlock.
* A worker dies, a save fails, a commit's reply is lost, a request is cut off, a DELETE
  runs in the middle of everything.
* With SQS a message is delivered at least once, while the row it names has a life of its
  own; sends, deletes and dead-letterings fail one by one, between commits of the table.
* A process is told to stop while its tasks poll, run or sleep.
* The client asks for the fields of a job one by one and may post them more than once.
* Sample ranges must tile the samples exactly, or the aggregate is rejected after all the
  work is done.

What makes each part correct: the table's rows are decided once and by the right
evidence; the transaction is atomic and deadlock-free among workers; a claim is
exclusive, attempts are counted and budgets kept; everything posted is decided; a message
is there as long as its job needs one, and no longer; a stopped process finishes what it
claimed; what is read of a job is consistent; the ranges tile and their statistics add up;
the form posts what was entered, and the service accepts it if its expression parses. `PROJECT.json` lists the hazards line by line, with the properties that cover each.

## Modules

| Module | Models |
| --- | --- |
| `JobRepository` | the table and every statement that writes it, each one atomic step |
| `PostgresWorkers` | clients, workers and run-by-id handlers over that table, with faults; the system's specification |
| `JobContract` | what a client is promised of a job: the abstract specification |
| `PartitionTransaction` | the partition transaction statement by statement, with row locks, next to the rest of `PostgresWorkers` |
| `SqsWorkers` | the same clients and workers with the SQS queue and its dead-letter queue |
| `WorkerShutdown` | the loop around a worker's turns and its stop, next to workers of another process |
| `JobReads` | what is read of a job and its progress, over `PostgresWorkers` |
| `PartitionSamples` | the loop of `partition_samples` |
| `SampleStatistics` | what the ranges add up to: Welford's recurrence, `merge`, `finalize_result` |
| `TerminalClient` | the terminal client: screens, list, details and the form that posts |
| `MC*` | small instances: the requests considered and the symmetries |
| `PostgresWorkers_proofs`, `PostgresOutcomes_proofs`, `PostgresContract_proofs` | theorems about types and claims; how jobs end; the contract and the reads |
| `PartitionTransaction_proofs`, `SqsWorkers_proofs`, `WorkerShutdown_proofs`, `SampleStatistics_proofs`, `TerminalClient_proofs` | theorems about the module of that name (the ranges of `PartitionSamples` with the statistics) |

`PostgresWorkers` extends `JobRepository`; `PartitionTransaction` extends
`PostgresWorkers` and implements it; `PostgresWorkers` implements `JobContract`: both
are checked by TLC and proved. `SqsWorkers`, `WorkerShutdown` and `JobReads` extend
`PostgresWorkers` and use its actions, so that there is one model of the table.
`SampleStatistics` extends `PartitionSamples`. `TerminalClient` stands alone: of the
service it needs the ids of the stored jobs and its checks of a posted request (`Accepted`), which it
has beside the form's own.

### Table and workers

A job is `<<root, index>>`: index 0 is what a client posted, index i its i-th partition
(UUIDs of partitions are fresh, but `(parent_job_id, partition_index)` is UNIQUE). A row
keeps `status`, `retry_count`, `result`, `error` and `created_at`. Data is abstracted to
what decides something: a result is absent, finite, or contains a number JSON stores as
null; an error text is one of the places that write one. `started_at` and `completed_at`
decide nothing. What running a job gives is a function of its stored input, because the
sampling is seeded by (seed, sample index, dimension).

An agent (a worker task or a `/run` request) is `idle`, `running` (claimed, up to the
save) or `resetting` (the partition save reported an error; the reset is still to be
sent). `job` and `seen` are what it read at the claim. Each statement of the code is one
action, so any other agent or client may step in between:

| Action | Code |
| --- | --- |
| `CreateJob`, `CreateFailingJob` | the POST endpoints and `insert_job` |
| `ClearJobs` | `clear_jobs`: begins with a snapshot (`doomed`), ends with the rows and their partitions gone |
| `Receive`, `RunById` | the two claims |
| `SaveJobResult` | `run_job` and `update_job_result` |
| `SavePartitionResult`, `RejectPartitionResult` | `update_integration_partition_result` committing, or rolling back |
| `ResetPartition` | `reset_running_job_to_pending` after a failed partition save |
| `FanOut`, `FanOutRejected` | `fan_out_integration_job` |
| `Abandon` | the agent stops: crash, panic of the blocking task, hung-up client, or a failed statement the code does not follow with a reset |
| `SavePartitionFails`, `SavePartitionReplyLost` | the transaction fails; it commits but the worker sees an error |
| `ClearJobsFails` | the DELETE fails |

Two modelling decisions are about PostgreSQL rather than about the code. `Lockable` lets a
polling claim pass over rows that a transaction in flight may have locked (SKIP LOCKED),
which is wider than what a given moment allows. And `RecordFailure` lets the cancelling
UPDATE miss a sibling that a reset has just put back to PENDING: a reset takes no lock on
the parent and may commit after the UPDATE took its snapshot. Without
the first `tx_two_jobs` fails, without the second `tx_atomic` does. `now` ticks at each insert, so `created_at` follows the order of
commits; the clocks of several servers need not, which would only reorder claims.

### The partition transaction

`PartitionTransaction` keeps the variables of `PostgresWorkers` as the committed state
and adds, per transaction, the statement it is at, the row it waits for, the rows its
statement has still to lock, and who holds each row. Statements pick rows from a snapshot, lock
them one by one and look at them again. Single-row statements hold nothing while they
wait and stay atomic. DELETE takes rows in any order, so it can deadlock with a partition
transaction; a transaction in a cycle is then rolled back.

### The SQS queue

A message names a job, and receiving it is what makes a worker claim that job by id. `queue` is
the set of messages sent and not deleted; a message is told from its copies by a number. SQS is
external: until it is deleted a message may be received at any time, also while another
worker is at work on it, which covers the visibility timeout running out, late and repeated
deliveries, and receives in any order. What a worker does next with its message is `handling`:

| Action | Code |
| --- | --- |
| `PostJob`, `Enqueue`, `EnqueueFails` | the insert of `create_job`, then its `enqueue` |
| `SqsReceive`, `LookUp` | `receive`: the claim, and the look-up of a job that was not claimed |
| `SqsSave`, `SqsReject`, `SqsReset`, `SqsSaveFails` | `save_job_result`, then by the status it returns |
| `DeadLetter`, `DeadLetterFails` | `dead_letter`'s send |
| `DeleteMessage`, `DeleteFails` | `delete_message`, of a stale, completed or dead-lettered message |
| `SqsFanOut`, `EnqueuePartition`, `EnqueuePartitionFails`, `UndoFanOut` | `fan_out_integration_job` and its loop of sends |
| `SqsAbandon` | the worker dies at any of these points |
| `Redrive` | a redrive policy takes a message out of the queue |
| `ByHand`, `SaveByHand`, `FanOutByHand`, `AbandonByHand` | `POST /jobs/{id}/run`, which builds a Postgres queue whatever the service uses |

A send that fails may have been received or not (`EnqueuePartitionFails`). A commit of the table whose reply
is lost is not among the faults here (`SqsWorkers` assumes so): it is the subject of `pg_contract`, and the
theorems about claims under SQS rest on its absence. `struck` remembers,
for the properties, which roots met which of the losses.

### Shutdown

A task of the process that is stopped is `at` the check of the flag, the poll, a turn (the
actions of `PostgresWorkers`) or the `select!`. The poll may begin before the signal and
claim after it, `late` counts such claims. `Changed` and `Slept` are the two arms of the
`select!`; either may win. Workers of other processes take their steps of `PostgresWorkers`.

### Reads

A read is one statement and changes nothing, so `get_job_by_id` and `get_job_progress` are functions of
a state. `get_job` makes both, one after the other: its answer takes the row from one state
of a behaviour and the progress from a later one, which is what the temporal formula
`CompletedShowsEveryPartition` says. Progress counts partitions; samples follow, since a
partition's share never changes.

### Statistics

Numbers are exact fractions. The value of a sample is any function of its index: the sampling is
deterministic, so nothing else is known of it. Ranges come from `PartitionSamples`. The loop over a range
(`Turns`) and the merge of the stored results by partition index (`Merged`) are recursive functions, so that they
can be proved about. The property compares numbers, not fractions (`Denotes`).

### The terminal client

One action per key press that does something; a key that sends a request waits for its
answer before the next key is read, so an answer is part of the key's action
(`submit_request`, `submit_request_Refused`, `submit_request_AnswerLost`). A text is the sequence of
its comma-separated parts, a part a whole number or a word, which is what the parsers make of it; `Spelling`
gives the characters of a word and `Bytes` the length of an expression, as far as the checks look at them.
The form's checks (`validate_field`, with the literals of `wizard.rs`) and the service's (`Accepted`, with the `MAX_*`
constants of `monte_carlo_integration.rs`) are two lists here as they are two in the code, and share no
limit and no name check. One of the service's has no counterpart: `parse_expression`, by evalexpr, of which `Expressions`
says what it accepts. Numbers are taken to survive JSON exactly. The form
is `request`, as in `RequestWizard`; `form` remembers, for the properties, what was accepted
field by field, the last request sent, and the posts, jobs and errors of it. Other
clients post and clear in between.

## Runs

| Run | Instance | Shows |
| --- | --- | --- |
| `pg_safety` | 2 jobs, 2 partitions, 2 workers (budget 2), 1 run-by-id (budget 3), 1 crash or failed save | exclusive claims, exact completion and failure, a RUNNING integration has work left, budgets, orphans only by faults, finality, attempts counted |
| `pg_contract` | 1 job, 3 partitions, 3 workers, 1 run-by-id, 2 faults of any kind | the table implements `JobContract` even when a commit's reply is lost; a COMPLETED job is read with every partition completed; progress never goes back |
| `pg_liveness` | 2 jobs, each alone, of a partition that completes, or of 2 of which one fails; 2 processes of one task of which one may be stopped, no fault, fairness | everything posted is decided or cleared; the stopped process claims at most once more, leaves no row RUNNING without a worker, and returns |
| `tx_atomic` | 1 integration of 2 or 3 partitions, 2 workers, 1 run-by-id, 1 fault of any kind, row locks | the transaction implements the atomic step; workers alone never deadlock |
| `tx_two_jobs` | 2 jobs, integrations of 2 partitions or none, 2 workers, no fault, row locks | the same with a younger job to claim past locked rows (SKIP LOCKED) |
| `sqs` | 1 job, alone or of 2 partitions that complete or one of which fails, 2 workers, 1 run-by-id, 1 fault of any kind but a lost reply of a commit, fairness | a message is there as long as its job needs one, unless lost; redelivery is harmless; jobs given up are dead-lettered unless that was lost too, and workers dead-letter no other; the queue is worked off |
| `client` | pages of 2 tasks, 4 jobs, forms of both kinds with texts on either side of every limit, 1 post that fails or whose answer is lost, terminals of two heights | what the form sends is accepted unless its expression does not parse, and is what was entered; digits open what they label; a second job only after an error; nothing is scrolled away |
| `samples` | all samples and partitions up to 14; every value of up to 6 samples | the ranges tile the samples evenly, and the merged mean and variance are those of all samples |
| `pg_overflow` | no fault, fairness, a partition with a non-finite statistic | **violated**: an integration that is never decided |
| `pg_cancel` | 1 integration, 2 failing partitions, 2 workers | **violated**: a PENDING partition under a FAILED parent |
| `sqs_lost` | 1 integration of 2 partitions, 2 workers, 1 failed send of the fan-out | **violated**: an integration RUNNING for ever with every partition COMPLETED |
| `client_stale` | forms of pi, 1 failed post | **violated**: the request sent has not the value entered last |

Why the bounds are enough. Two jobs give one to be cleared or run next to the other;
partitions of one integration interact only through their parent, and three of them give
a first, a middle and a last. The two budgets differ, so the mixed case occurs, and each is
reached. Three workers and a run-by-id request allow a partition to be run twice while a third
agent finishes a sibling. One fault finds what any single fault breaks; two allow a
lost reply followed by a crash or by another lost reply. `MaxFaults` is the only bound on behaviour: retries
are bounded by the code's budgets, time by the inserts. One job is enough for the queue: messages of two jobs share nothing but the workers, and
the two workers can meet on any message of it, on copies made by a repeated fan-out, and at
any point of each other's turn. Two tasks a page and four jobs give a list of two pages, the
second full or half full, that shrinks and grows. The texts of each field are blank, an ordinary value, and values on
either side of each limit: 10 and 11 names, 1000 and 1001 bytes, 1, 2, 100000000 and 100000001 samples, 0, 1, 1024 and
1025 partitions, equal bounds, equal and ill-spelled names, an expression that does not parse; `MaxU64` is
2000000000 there, as TLC's integers have 32 bits. For each check of the form there is a text that fails it alone, so that to drop or widen
a check of the form, or to lower a limit of the service, breaks `FormAgreesWithService`.
The fractions of a sum of 14 samples stay small; with up to 6 samples
every function to `{-1, 0, 3}` is tried, which has equal, opposite and uneven values.
Workers, and in `pg_safety` jobs, are declared symmetric where no fairness tells them apart; `pg_contract` has a
temporal formula under symmetry, of which TLC warns: it is `[](A => []B)` with `A` and `B` symmetric in
the workers, a safety property, so permuting the workers of a counterexample gives one again.
`CHECK_DEADLOCK FALSE` is set where
the system really may stop: `partition_samples` returns, the client may be closed, and once
every job has been posted and cleared, or decided and its messages deleted, the
statement-level and the SQS model have nothing to do.

The violations are listed under `findings`. `pg_overflow`: partial statistics whose squared
deviations overflow are stored as null, the last partition's save fails to decode them,
and `save_job_result` resets the partition without counting an attempt, for ever, where
the README promises `WORKER_MAX_RETRIES` failed attempts. `pg_cancel`: the cancelling
UPDATE takes only the siblings PENDING at that moment; one that is running and fails later
goes back to PENDING under a FAILED parent, which
`failed_partition_fails_parent_and_cancels_pending_siblings` asserts away. `sqs_lost`: when one
send of a fan-out reports an error, the parent is reset to PENDING, but partitions sent
before (or that very one, if only the reply was lost) are run; the last of them to complete finds the
parent not RUNNING and leaves it; fanned out again, it has no partition left to wait for.
`client_stale`: `accept_field` pushes the last field's value before the post, so that after a
failed post the value entered instead is pushed behind it and `build_request` sends the first again.

Not a violation, and worth knowing: with a lost reply, exclusive claims really are lost
(the reset puts back to PENDING a row another worker may have claimed since), so
`ClaimIsExclusive`, `TerminalIsFinal` and `AttemptsAreCounted` are claimed without that
fault only. What a client sees stays right: that is what `pg_contract` checks, with one exception met
while writing `ProgressNeverGoesBack`: two agents may then run one partition, and the later one may
overwrite the failure of the other, so that a FAILED job shows no failed partition. With SQS,
`OnlyLossStrandsJobs` lists what strands a job: its message was never sent or was moved by a redrive
policy, its worker died, its fan-out was undone, or it was fanned out by `/run`, which sends no messages.
A redrive policy counts receives, also those in vain while the job is RUNNING, so the
README's `maxReceiveCount` of `WORKER_MAX_RETRIES` does not exclude the second. Of these losses the property
says only that there are no others; the code does not prevent them.

The form does not parse an expression, so one that evalexpr refuses is sent, and refused by `POST /jobs` once the form is
filled in; `FormAgreesWithService` says that this is the only request it sends in vain.

### Fairness

`worker_task_loop` polls again after every turn, with a sleep, so claiming is weakly fair
for each worker (as a whole: no particular job is promised). A statement that was sent
is answered, so each agent's turn and a DELETE that was begun finish. Nothing is assumed of
clients or of run-by-id requests that were not made. Crashes are not excluded by fairness
but by `MaxFaults = 0` in the liveness runs: a crashed worker's row stays RUNNING for ever
(`OrphansNeedFaults` says that this is the only way). With the loop modelled
(`WorkerShutdown`) each of its steps is weakly fair for a task as a whole: it is scheduled,
its statements are answered and its sleep ends. A task may lose every poll's race for a job to
others, and the signal need not come.

With SQS (`SqsFairness`) a turn ends and a POST sends its message, weakly fair. Receiving is strongly
fair for each job: workers poll forever, and SQS does not pass over the same job's messages for
ever, though each may be received in vain any number of times in between. Failures are not
excluded by fairness: `QueueDrains` assumes only that none of the losses above strikes, and holds
with failed saves, deletes, dead-letterings and clears.

## Proofs

For any sets of jobs and agents, any budgets, partitions and faults. Every invariant a passing
run checks is a theorem, and so is every action property and both refinements. Assumptions on constants stand in the modules: disjoint kinds of agents, natural
bounds, requests and answers as the endpoints make them, and for SQS a finite set of workers. Two hypotheses are the theorems' own, and the code does not always satisfy them:
`NoLostReply` (no commit is reported as a failure) and `DeadLetterQueue` (one is configured).

**Types and claims** (`PostgresWorkers_proofs`).
* `TypeCorrect`. Types alone are not inductive: `run_job` is applied to the partition's stored
  input, so `TypeInv` adds that every row and every claim is of a job that was posted, with at
  least that many partitions. It uses what the endpoints validate of requests.
* `ClaimsAreExclusive`, and from the same invariant the action properties `DecidedStaysDecided` and
  `AttemptsNeverForgotten`, under `NoLostReply`. Exclusive claims alone are not inductive: a
  partition's save writes its parent's row. `ClaimInv` adds that a parent with partitions
  is not PENDING and held by nobody (`ParentsFannedOut`), that a partition somebody holds
  disappears only together with its parent (`ClaimedWithParent`, so that a fan-out cannot
  insert anew a row somebody still holds), and that only partitions are reset. One lemma per
  action keeps it; `SavedRows` says what a save may do to rows other than its own.

**How jobs end** (`PostgresOutcomes_proofs`).
* `BudgetIsRespected`: `BudgetInv` adds that an undecided row, and the count an agent read at its
  claim, are below the larger budget. It needs no exclusive claims, so it holds with lost replies.
* `CompletionIsAlwaysExact`, also with lost replies. With them two agents may save one partition, so the
  argument cannot be that the second finds the row taken; it is that both save the same.
  `FamilyInv` says that a family's partitions are there all together, that a completed one has
  the result its input gives (`Outcome`), and that a FAILED parent has a partition whose input gives an error,
  which therefore never completes; and of parents only (`RootsHeld`) that they are held by one agent.
* `FailureIsAlwaysExact`, under `NoLostReply`: without it a partition that failed may be overwritten.
* `RunningIntegrationAlwaysHasWork`, also with lost replies: `WorkLeft` says that under a RUNNING parent no
  partition is FAILED and one is not COMPLETED. It cannot be had from `CompletionIsAlwaysExact`, as a partition may
  be COMPLETED with a result that does not aggregate; that the save of such a last one is rejected is what it takes.
* `OrphansAlwaysNeedFaults`: each step adds at most one row to the RUNNING ones nobody works on, and
  only a fault adds any (`OrphanInv` counts them, with the library's facts on cardinalities).
* `RunningIsAttended`, from these two: until a fault strikes, every RUNNING job is held by an agent or has a
  partition that is PENDING or held. This is the safety half of `EveryJobIsDecided`: fairness has then only to let
  the agents and the claims go on.

**The contract and the reads** (`PostgresContract_proofs`).
* `ContractIsKept`: `Spec => ImplementsContract`, with lost replies. Every step is shown to leave a
  job's phase and completed partitions, to open it, to add a partition, to decide it or to
  clear it, and only one job moves at a time but in a DELETE. `ContractInv` adds to `FamilyInv` that a
  DELETE takes jobs that were posted.
* `ProgressOnlyGrows` and `CompletedIsShownWhole` (of the form `[](A => []B)`), from the same case
  analysis: what a client reads is a function of the contract's variables.

**The row locks** (`PartitionTransaction_proofs`).
* `TransactionIsAlwaysAtomic`: `TxSpec => Spec`, so that everything above holds with the transaction
  taken statement by statement. `LockInv` says what a transaction may rely on between its
  statements: past its parent's row it holds that row and the status it read there is still so, so there is
  one such transaction per family (`OnePerFamily`); the siblings PENDING under the cancelling UPDATE are
  cancelled, still to be looked at, or put back by a reset since; the DELETE holds rows of its
  snapshot only.
* `WorkersNeverWaitInACycle`: from the same invariant, an agent waits for a row of its own family,
  and an agent that holds one of those waits for nobody but the DELETE (`NobodyWaitsForTheWaiting`). `TxTypeCorrect` for the types.

**The SQS queue** (`SqsWorkers_proofs`).
* `RedeliveryNeverHarms`, `DecidedStaysDecidedWithSqs` and `DeadLetteredIsAlwaysFailed`. The claims' invariant
  does not carry over: here a coordinator may be claimed again after its fan-out was undone. `SqsInv`
  makes a worker own the job it claimed and also the parent whose partitions it is still
  sending (`Owns`; one owner per job, no owned job PENDING), and says that what a message, a handling or
  the dead-letter queue names was posted and, once gone, does not come back (`Known`).
* `ExhaustedAlwaysDeadLettered`, under `DeadLetterQueue`: a job given up stays so, and the only ways off the
  path to the queue are the losses listed.
* `OnlyLossesStrandJobs`. That no job is stuck is not inductive. `LossInv` says of a family none
  of the losses struck: a parent that waits has a PENDING or RUNNING partition and is
  never claimed again, a RUNNING partition is somebody's, every job that needs a message has one or
  is about to, and the messages about to be deleted are of jobs past that need. `SqsTypeCorrect` for
  the types.

**Shutdown** (`WorkerShutdown_proofs`).
* `ShutdownImplementsWorkers`, `ShutdownSpec => Spec`: what is proved above holds of a process that stops.
* `AtMostOneLateClaimTheorem`; `LateInv` adds that a task with a late claim is not about to poll, and
  that no claim is late before the signal.
* `StopNeverLeavesOrphans`: `StopInv` adds that a task holds a job exactly while it is in a turn, and that the
  process has returned only when its tasks have ended; with `OrphansAlwaysNeedFaults` through the
  refinement. `ShutdownTypeCorrect` for the types.

**Samples** (`SampleStatistics_proofs`).
* `RangesAreDisjoint`, `RangesCover` and `RangesAreEven`, for any numbers of samples and partitions, by an
  invariant that gives the start of the next range in closed form.
* `DividedStatisticsAreAlwaysExact`, for any values, numbers of samples and partitions. `StandsFor` says that a partial
  statistic has the number, the mean and the squared deviations of samples with a given sum and sum of squares.
  Two polynomial identities make it pass through a turn of the loop and through a merge (`WelfordIdentity`, `MergeIdentity`;
  `WelfordStands` and `MergeStands` carry them over to fractions); that `Gcd` divides both its
  arguments is what makes a reduced fraction the same number (`GcdDivides`, `FractionIs`). `StatisticsInv` adds that
  each range starts where the one before ends. The functions are defined by recursion and used by
  induction, and the library's theorems on both take operators: so that they exist (`SumsAre`, `TurnsAre`,
  `MergedAre`) and what they hold is proved by a least counterexample (`LeastNumber`).

**The terminal client** (`TerminalClient_proofs`), for any texts, answers, terminals, pages and jobs.
* `FormAlwaysAgreesWithService` and `FirstPostIsAlwaysWhatWasEntered`: `FieldsInv` says that each of the values kept
  passed its check, also after a failed post, when the list of values only grows past those a request is
  built of. `ChecksLookBack`: a check looks at no value but those of the fields before, so a
  value stays valid while others are pushed. `PiRequest`, `NamesAgree` and `IntegrationRequest` compare the
  two lists of checks one by one: a request built of a whole form is accepted if and only if its expression parses.
* `DigitsAlwaysOpenWhatTheyLabel`: `ListInv` adds that the page starts within the list. That `NewestFirst`, a
  CHOOSE, is a list at all takes an induction on finite sets; as the library's induction
  theorems take an operator, it is done by a minimal counterexample (`Minimal`, `LeastNumber`,
  `NewestFirstExists`), from the well-founded order of the subsets of a finite set.
* `NothingIsEverScrolledAway`, `SecondJobNeedsErrorTheorem` (while the form is open every job it made was answered
  with an error) and `ClientTypeCorrect`.

Model-checked only: all liveness (`EveryJobIsDecided`, `StopIsHeeded`, `QueueDrains`), which is out of the prover's
reach, as is everything that needs ENABLED.

## Not modelled

* The rounding of floating-point numbers: `SampleStatistics` is exact, and `PostgresWorkers` abstracts
  what a run gives to finite, non-finite or error. Expressions, their evaluation and the
  generator of sample points are functions nothing else depends on.
* `estimate_pi`: random points and an i32 counter, which would wrap only after 2^31 hits, out of
  the reach of any bound; a narrower counter would not be this one.
* `GET /jobs` and `GET /metrics`: one SELECT each, without state or race.
* SQS messages that are not job ids: only this program sends messages.
* The client's drawing, its metrics line and its messages; the text of timestamps, by which it
  sorts; the grammar of expressions (evalexpr's: `Expressions` is any set of texts). Numbers in a text are whole, and
  the rounding that serde_json's parser may add to a bound with many digits is not considered.
* Health probes, configuration, migrations at start-up and error texts have no state worth
  checking.
* The width of `retry_count`: it never passes the larger budget, which is an i32 too.

## What is left

Every safety property above is both checked and proved. What a further step could add:

1. `QueueDrains` and `EveryJobIsDecided` on larger instances; their safety halves are `OnlyLossesStrandJobs` and
   `RunningIsAttended`.
2. A model of the rounding of `f64` in the statistics: the exactness proved is that of the formulas.
