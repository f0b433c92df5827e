--------------------------- MODULE SampleStatistics ---------------------------
(***************************************************************************)
(* What the partitions of PartitionSamples are for: each one's samples are *)
(* summed up by Welford's recurrence (sample_partition), the sums merged   *)
(* in the order of the partitions (merge) and turned into the result       *)
(* (finalize_result), all of api/src/tasks/monte_carlo_integration.rs.     *)
(*                                                                         *)
(* The value of a sample is a function of its index, the seed and the      *)
(* expression; here any function.  Numbers are exact fractions: the        *)
(* rounding of f64 is left out, and with it the square root of the         *)
(* standard error, which is a function of the variance.                    *)
(***************************************************************************)
EXTENDS PartitionSamples

CONSTANTS
    Values,        \* the values the expression may take
    MostSampled    \* bound on the samples with which every function is tried

ASSUME ValuesAssumption == Values \subseteq Int /\ MostSampled \in Nat

VARIABLE values    \* sample index -> value

StatisticsInit ==
    /\ Init
    /\ values \in IF samples <= MostSampled THEN [0..samples - 1 -> Values]
                  ELSE {[i \in 0..samples - 1 |-> i]}

StatisticsNext == Next /\ UNCHANGED values

StatisticsSpec == StatisticsInit /\ [][StatisticsNext]_<<vars, values>>

-----------------------------------------------------------------------------
(* Fractions in lowest terms, with a positive denominator.                  *)

Abs(n) == IF n < 0 THEN -n ELSE n
Gcd(a, b) == IF a = 0 THEN b
             ELSE CHOOSE d \in 1..b : /\ a % d = 0 /\ b % d = 0
                                      /\ \A e \in d + 1..b : a % e # 0 \/ b % e # 0
Fraction(n, d) == LET g == Gcd(Abs(n), d) IN [num |-> n \div g, den |-> d \div g]
Whole(n)       == [num |-> n, den |-> 1]
Plus(p, q)     == Fraction(p.num * q.den + q.num * p.den, p.den * q.den)
Minus(p, q)    == Fraction(p.num * q.den - q.num * p.den, p.den * q.den)
Times(p, q)    == Fraction(p.num * q.num, p.den * q.den)
Over(p, n)     == Fraction(p.num, p.den * n)

empty == [sample_count |-> 0, mean |-> Whole(0), squared_deviation_sum |-> Whole(0)]

(* One turn of the loop of sample_partition.                                *)
Welford(sum, value) ==
    LET count == sum.sample_count + 1
        delta == Minus(Whole(value), sum.mean)
        mean  == Plus(sum.mean, Over(delta, count))
    IN  [sample_count |-> count, mean |-> mean,
         squared_deviation_sum |->
            Plus(sum.squared_deviation_sum, Times(delta, Minus(Whole(value), mean)))]

(* The loop over the samples of a range: what it holds after each turn.     *)
Turns(start, count) ==
    LET held[local \in 0..count] ==
            IF local = 0 THEN empty ELSE Welford(held[local - 1], values[start + local - 1])
    IN  held

sample_partition(start, count) == Turns(start, count)[count]

(* Mutant: the distance of the two means is left out.                       *)
merge_NoShift(left, right) ==
    LET count == left.sample_count + right.sample_count
        delta == Minus(right.mean, left.mean)
    IN  IF left.sample_count = 0 THEN right
        ELSE IF right.sample_count = 0 THEN left
        ELSE [sample_count |-> count,
              mean |-> Plus(left.mean, Over(Times(delta, Whole(right.sample_count)), count)),
              squared_deviation_sum |-> Plus(left.squared_deviation_sum,
                                             right.squared_deviation_sum)]

merge(left, right) ==
    LET count == left.sample_count + right.sample_count
        delta == Minus(right.mean, left.mean)
        shift == Over(Times(Times(delta, delta),
                            Whole(left.sample_count * right.sample_count)), count)
    IN  IF left.sample_count = 0 THEN right
        ELSE IF right.sample_count = 0 THEN left
        ELSE [sample_count |-> count,
              mean |-> Plus(left.mean, Over(Times(delta, Whole(right.sample_count)), count)),
              squared_deviation_sum |->
                Plus(Plus(left.squared_deviation_sum, right.squared_deviation_sum), shift)]

(* The last partition's save merges them all, by partition_index.           *)
Merged ==
    LET held[k \in 0..Len(ranges)] ==
            IF k = 0 THEN empty
            ELSE merge(held[k - 1], sample_partition(ranges[k].sample_start,
                                                     ranges[k].sample_count))
    IN  held

Aggregate == Merged[Len(ranges)]

(* The numbers the result is made of; "rejected" if the samples of the sum  *)
(* are not those asked for.                                                 *)
finalize_result(sum) ==
    IF sum.sample_count # samples THEN "rejected"
    ELSE [mean     |-> sum.mean,
          variance |-> Over(sum.squared_deviation_sum, sum.sample_count - 1)]

-----------------------------------------------------------------------------
(* The fraction p is the number n / d.                                      *)
Denotes(p, n, d) == p.den > 0 /\ p.num * d = n * p.den

(* The sums of the first k of the numbers f.                                *)
SumsOf(f) ==
    LET sum[k \in 0..samples] == IF k = 0 THEN 0 ELSE sum[k - 1] + f[k - 1]
    IN  sum

Totals  == SumsOf(values)
Squares == SumsOf([i \in 0..samples - 1 |-> values[i] * values[i]])

(* However the samples are divided, the result has the mean and the sample  *)
(* variance of all of them: n * sum x^2 - (sum x)^2 over n * (n - 1).       *)
(* (estimate and standard_error are these times the volume.)                *)
DividedStatisticsAreExact ==
    pc = "ok" /\ samples >= 2 =>
        LET total  == Totals[samples]
            square == Squares[samples]
            result == finalize_result(Aggregate)
        IN  /\ Aggregate.sample_count = samples
            /\ Denotes(result.mean, total, samples)
            /\ Denotes(result.variance, samples * square - total * total,
                       samples * (samples - 1))
=============================================================================
