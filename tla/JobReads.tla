------------------------------- MODULE JobReads -------------------------------
(***************************************************************************)
(* What clients read of a job and its progress (api/src/jobs), next to the *)
(* workers of PostgresWorkers.  A read is one statement, so one snapshot   *)
(* of the table, and changes nothing: it is a function of a state.  But    *)
(* GET /jobs/{id} is two of them, the row and then the progress, of two    *)
(* states of a behaviour with any steps of others in between.              *)
(***************************************************************************)
EXTENDS PostgresWorkers

(* The row; "ABSENT" is answered with 404.                                  *)
get_job_by_id(id) == jobs[id]

Count(rows, status) == Cardinality({j \in rows : jobs[j].status = status})

(* The counts are taken of the partitions; without any there is no progress *)
(* to show.                                                                 *)
get_job_progress(r) ==
    [total     |-> Cardinality(ChildRows(r)),
     pending   |-> Count(ChildRows(r), "PENDING"),
     running   |-> Count(ChildRows(r), "RUNNING"),
     completed |-> Count(ChildRows(r), "COMPLETED"),
     failed    |-> Count(ChildRows(r), "FAILED")]

-----------------------------------------------------------------------------
ShowsEveryPartition(r) ==
    LET progress == get_job_progress(r)
    IN  \/ progress.total = 0 /\ get_job_by_id(<<r, 0>>).status = "ABSENT"
        \/ progress.completed = Cardinality(Partitions(r))

(* Although the two reads of get_job are apart, with a COMPLETED            *)
(* integration it shows every partition completed, unless the job was       *)
(* cleared in between.  (With one that is still RUNNING it may, too; and    *)
(* after a lost reply one that is FAILED may show no failed partition, see  *)
(* ProgressNeverGoesBack.)                                                  *)
CompletedShowsEveryPartition ==
    \A r \in Roots :
        [](get_job_by_id(<<r, 0>>).status = "COMPLETED" /\ Partitions(r) # {}
              => []ShowsEveryPartition(r))

(* A client that polls a job never sees its progress go back, nor another   *)
(* number of partitions, whatever is retried, reset or fanned out again.    *)
(* (Of the failed partitions it may see fewer: after a lost reply a reset   *)
(* takes a partition from the agent that claimed it since, two agents run   *)
(* it, and the later one overwrites the failure of the other.)              *)
ProgressNeverGoesBack ==
    [][\A r \in Roots :
        LET progress == get_job_progress(r) IN
        progress.total # 0 /\ progress.total' # 0 =>
            /\ progress.total' = progress.total
            /\ progress.completed' >= progress.completed]_vars
=============================================================================
