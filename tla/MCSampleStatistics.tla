-------------------------- MODULE MCSampleStatistics --------------------------
(* Every division of few samples, with every value of each.                 *)
EXTENDS SampleStatistics, MCPartitionSamples

FewValues == {-1, 0, 3}
=============================================================================
