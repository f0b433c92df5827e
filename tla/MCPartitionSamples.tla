-------------------------- MODULE MCPartitionSamples --------------------------
(* Every pair of small arguments, the rejected ones included.               *)
EXTENDS PartitionSamples

Small == 0..14
=============================================================================
