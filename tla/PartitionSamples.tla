--------------------------- MODULE PartitionSamples ---------------------------
(***************************************************************************)
(* partition_samples (api/src/tasks/monte_carlo_integration.rs): the loop  *)
(* that divides the samples of an integration into one range for each      *)
(* partition.  A result counts every sample once only if the ranges tile   *)
(* 0..samples-1, and sample_partition refuses an empty range and one that  *)
(* runs past the last sample.                                              *)
(***************************************************************************)
EXTENDS Integers, Sequences

CONSTANTS SampleCounts, PartitionCounts    \* the arguments considered

ASSUME CountsAssumption == SampleCounts \subseteq Nat /\ PartitionCounts \subseteq Nat

VARIABLES
    samples, partitions,    \* the arguments
    index, sample_start,    \* the loop's variables
    ranges,                 \* the ranges pushed so far
    pc                      \* "start", "loop", "ok" or "err"

vars == <<samples, partitions, index, sample_start, ranges, pc>>

Range == [index : Nat, sample_start : Nat, sample_count : Nat]

TypeOK ==
    /\ samples \in SampleCounts
    /\ partitions \in PartitionCounts
    /\ index \in Nat
    /\ sample_start \in Nat
    /\ ranges \in Seq(Range)
    /\ pc \in {"start", "loop", "ok", "err"}

Init ==
    /\ samples \in SampleCounts
    /\ partitions \in PartitionCounts
    /\ index = 0
    /\ sample_start = 0
    /\ ranges = <<>>
    /\ pc = "start"

Reject ==
    /\ pc = "start"
    /\ partitions = 0 \/ partitions > samples
    /\ pc' = "err"
    /\ UNCHANGED <<samples, partitions, index, sample_start, ranges>>

Accept ==
    /\ pc = "start"
    /\ partitions # 0 /\ partitions <= samples
    /\ pc' = "loop"
    /\ UNCHANGED <<samples, partitions, index, sample_start, ranges>>

base_size              == samples \div partitions
larger_partition_count == samples % partitions

(* Mutant: the remainder is dropped.                                        *)
sample_count_NoRemainder == base_size

(* Mutant: the remainder all goes to the first partition.                   *)
sample_count_Unbalanced == base_size + IF index = 0 THEN larger_partition_count ELSE 0

sample_count == base_size + IF index < larger_partition_count THEN 1 ELSE 0

(* Mutant: the start moves by the base size only.                           *)
Push_StartLags ==
    /\ pc = "loop" /\ index < partitions
    /\ ranges' = Append(ranges, [index |-> index, sample_start |-> sample_start,
                                 sample_count |-> sample_count])
    /\ sample_start' = sample_start + base_size
    /\ index' = index + 1
    /\ UNCHANGED <<samples, partitions, pc>>

Push ==
    /\ pc = "loop" /\ index < partitions
    /\ ranges' = Append(ranges, [index |-> index, sample_start |-> sample_start,
                                 sample_count |-> sample_count])
    /\ sample_start' = sample_start + sample_count
    /\ index' = index + 1
    /\ UNCHANGED <<samples, partitions, pc>>

Return ==
    /\ pc = "loop" /\ index = partitions
    /\ pc' = "ok"
    /\ UNCHANGED <<samples, partitions, index, sample_start, ranges>>

Next == Reject \/ Accept \/ Push \/ Return

Spec == Init /\ [][Next]_vars

-----------------------------------------------------------------------------
(* Properties.                                                              *)

Covers(range, s) ==
    range.sample_start <= s /\ s < range.sample_start + range.sample_count

(* No sample is drawn by two partitions.                                    *)
NoSampleTwice ==
    \A k, l \in 1..Len(ranges) :
        k < l => ranges[k].sample_start + ranges[k].sample_count <= ranges[l].sample_start

(* When the loop ends every sample is drawn by some partition, and by none  *)
(* that sample_partition would refuse: no range is empty, none runs past    *)
(* the last sample, and there is one for each partition index.              *)
EverySampleDrawn ==
    pc = "ok" =>
        /\ Len(ranges) = partitions
        /\ \A k \in 1..Len(ranges) :
              /\ ranges[k].index = k - 1
              /\ ranges[k].sample_count > 0
              /\ ranges[k].sample_start + ranges[k].sample_count <= samples
        /\ \A s \in 0..(samples - 1) : \E k \in 1..Len(ranges) : Covers(ranges[k], s)

(* The work is shared evenly: two ranges differ by one sample at most.      *)
SharesAreEven ==
    \A k, l \in 1..Len(ranges) : ranges[k].sample_count <= ranges[l].sample_count + 1
=============================================================================
