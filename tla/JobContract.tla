----------------------------- MODULE JobContract -----------------------------
(***************************************************************************)
(* What the service promises of a posted job, whoever runs it and however  *)
(* often: it is open until it is decided, it is decided once, a result     *)
(* counts each partition exactly once, and an integration is completed by  *)
(* the very step that records its last partition, neither before nor       *)
(* after.                                                                  *)
(***************************************************************************)
EXTENDS Integers

CONSTANTS Roots, MaxPartitions

VARIABLES
    phase,   \* root -> what the client can know of the job
    need,    \* root -> the partitions its result is made of
    done     \* root -> the partitions recorded so far

vars == <<phase, need, done>>

Phases  == {"none", "open", "completed", "failed", "removed"}
Indexes == 1..MaxPartitions

TypeOK ==
    /\ phase \in [Roots -> Phases]
    /\ need  \in [Roots -> SUBSET Indexes]
    /\ done  \in [Roots -> SUBSET Indexes]

Init ==
    /\ phase = [r \in Roots |-> "none"]
    /\ need  = [r \in Roots |-> {}]
    /\ done  = [r \in Roots |-> {}]

(* A client posts a job; an integration into n partitions, any other task   *)
(* into none.                                                               *)
Submit(r, n) ==
    /\ phase[r] = "none"
    /\ phase' = [phase EXCEPT ![r] = "open"]
    /\ need'  = [need EXCEPT ![r] = 1..n]
    /\ UNCHANGED done

(* A partition is recorded, once.  The last one decides an open job.        *)
RecordPartition(r, i) ==
    /\ phase[r] \in {"open", "failed"}
    /\ i \in need[r] \ done[r]
    /\ done'  = [done EXCEPT ![r] = @ \cup {i}]
    /\ phase' = [phase EXCEPT ![r] =
                    IF @ = "open" /\ done'[r] = need[r] THEN "completed" ELSE @]
    /\ UNCHANGED need

CompleteSimple(r) ==
    /\ phase[r] = "open" /\ need[r] = {}
    /\ phase' = [phase EXCEPT ![r] = "completed"]
    /\ UNCHANGED <<need, done>>

Fail(r) ==
    /\ phase[r] = "open"
    /\ phase' = [phase EXCEPT ![r] = "failed"]
    /\ UNCHANGED <<need, done>>

(* Clearing takes jobs at once, with all that was recorded, and for good.   *)
Remove(cleared) ==
    /\ \A r \in cleared : phase[r] # "none"
    /\ phase' = [r \in Roots |-> IF r \in cleared THEN "removed" ELSE phase[r]]
    /\ done'  = [r \in Roots |-> IF r \in cleared THEN {} ELSE done[r]]
    /\ UNCHANGED need

Next ==
    \/ \E r \in Roots, n \in 0..MaxPartitions : Submit(r, n)
    \/ \E r \in Roots, i \in Indexes : RecordPartition(r, i)
    \/ \E r \in Roots : CompleteSimple(r) \/ Fail(r)
    \/ \E cleared \in SUBSET Roots : Remove(cleared)

Spec == Init /\ [][Next]_vars
=============================================================================
