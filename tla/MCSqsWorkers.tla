----------------------------- MODULE MCSqsWorkers -----------------------------
(* Small instances of SqsWorkers for TLC.                                   *)
EXTENDS SqsWorkers, TLC

Integral(outcomes) == [task |-> "monte_carlo_integration", outcomes |-> outcomes]
FailOnPurpose      == [task |-> "intentional_failure", outcomes |-> <<"error">>]

(* A job without partitions, one whose partitions complete, and one with a  *)
(* partition that fails.                                                    *)
QueuedRequests ==
    {FailOnPurpose, Integral(<<"value", "value">>), Integral(<<"value", "error">>)}

CompletingPartitions == {Integral(<<"value", "value">>)}

Symmetry == Permutations(Workers)
=============================================================================
