-------------------------- MODULE MCPostgresWorkers --------------------------
(* Small instances of PostgresWorkers for TLC.                              *)
EXTENDS PostgresWorkers, TLC

Integral(outcomes) == [task |-> "monte_carlo_integration", outcomes |-> outcomes]
EstimatePi         == [task |-> "monte_carlo_pi", outcomes |-> <<"value">>]
FailOnPurpose      == [task |-> "intentional_failure", outcomes |-> <<"error">>]

(* Partitions that complete, fail and overflow, next to a job without any.  *)
MixedRequests ==
    {FailOnPurpose, Integral(<<"value", "value">>), Integral(<<"value", "error">>),
     Integral(<<"value", "non_finite">>)}

(* An integration that completes, one that fails and cancels a sibling, and *)
(* a job without partitions.                                                *)
FiniteRequests == {FailOnPurpose, Integral(<<"value">>), Integral(<<"value", "error">>)}

OverflowRequests == {EstimatePi, Integral(<<"value", "non_finite">>)}

ContractRequests == {EstimatePi, FailOnPurpose,
                     Integral(<<"value", "value", "value">>),
                     Integral(<<"value", "error", "error">>)}

FailingPartitions == {Integral(<<"error", "error">>)}

Symmetry       == Permutations(Workers) \cup Permutations(Roots)
WorkerSymmetry == Permutations(Workers)
=============================================================================
