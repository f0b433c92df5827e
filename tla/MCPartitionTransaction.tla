------------------------ MODULE MCPartitionTransaction ------------------------
(* Small instances of PartitionTransaction for TLC.                         *)
EXTENDS PartitionTransaction, TLC

Integral(outcomes) == [task |-> "monte_carlo_integration", outcomes |-> outcomes]

(* Integrations of two and of three partitions.                             *)
Integrals == {Integral(<<"error", "error">>), Integral(<<"value", "error">>),
              Integral(<<"value", "non_finite">>),
              Integral(<<"value", "value", "value">>)}

(* An integration and a job without partitions, posted before or after it.  *)
IntegralAndPi == {[task |-> "monte_carlo_pi", outcomes |-> <<"value">>],
                  Integral(<<"value", "error">>)}

Symmetry == Permutations(Workers)
=============================================================================
