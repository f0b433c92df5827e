------------------------ MODULE SampleStatistics_proofs ------------------------
(***************************************************************************)
(* The ranges of partition_samples tile the samples, whatever the number   *)
(* of samples and of partitions, and what the partitions give, merged, is  *)
(* what one pass over all samples would, whatever their values.            *)
(*                                                                         *)
(* The loop invariant that carries the first argument is the closed form   *)
(* of sample_start: index times the base size, plus one for each of the    *)
(* larger partitions already pushed.  For the second, partial statistics   *)
(* stand for the number, the sum and the sum of squares of some samples;   *)
(* a turn of Welford's recurrence and a merge add these up.                *)
(***************************************************************************)
EXTENDS SampleStatistics, WellFoundedInduction, TLAPS

Dividing == pc \in {"loop", "ok"}
Larger   == IF index < larger_partition_count THEN index ELSE larger_partition_count
Sizes    == {base_size, base_size + 1}

StartIsClosedForm ==
    Dividing => /\ partitions > 0 /\ partitions <= samples
                /\ index <= partitions
                /\ sample_start = index * base_size + Larger

RangesPushed ==
    /\ Len(ranges) = index
    /\ \A k \in 1..index : /\ ranges[k].index = k - 1
                           /\ ranges[k].sample_count \in Sizes
                           /\ ranges[k].sample_start + ranges[k].sample_count <= sample_start

DrawnSoFar ==
    \A s \in 0..(sample_start - 1) : \E k \in 1..index : Covers(ranges[k], s)

LoopInv ==
    /\ TypeOK
    /\ pc \in {"start", "err"} => index = 0 /\ sample_start = 0
    /\ pc = "ok" => index = partitions
    /\ StartIsClosedForm
    /\ RangesPushed
    /\ NoSampleTwice
    /\ DrawnSoFar

(* Dividing n by m > 0 leaves a remainder below m, and a positive quotient  *)
(* when m is at most n.                                                     *)
LEMMA DivisionFacts ==
    ASSUME NEW n \in Nat, NEW m \in Nat, m > 0
    PROVE  /\ n \div m \in Nat /\ n % m \in Nat
           /\ n % m < m
           /\ n = m * (n \div m) + (n % m)
           /\ m <= n => n \div m > 0
<1>1. n \div m \in Int /\ n % m \in Int /\ 0 <= n % m /\ n % m < m /\ n = m * (n \div m) + (n % m)
  BY SMT
<1>2. n \div m >= 0
  BY SMT
<1>3. m <= n => n \div m > 0
  BY SMT
<1> QED
  BY <1>1, <1>2, <1>3

(* The base size and the number of larger partitions, once the arguments    *)
(* are accepted.                                                            *)
LEMMA SizesAreNatural ==
    ASSUME TypeOK, partitions > 0, partitions <= samples
    PROVE  /\ base_size \in Nat /\ base_size > 0
           /\ larger_partition_count \in Nat
           /\ larger_partition_count < partitions
           /\ samples = partitions * base_size + larger_partition_count
<1>1. samples \in Nat /\ partitions \in Nat
  BY CountsAssumption DEF TypeOK
<1> QED
  BY <1>1, DivisionFacts DEF base_size, larger_partition_count

(* It holds on entry.                                                       *)
LEMMA InitEstablishes == Init => LoopInv
  BY CountsAssumption
  DEF Init, LoopInv, TypeOK, StartIsClosedForm, Dividing, RangesPushed,
      NoSampleTwice, DrawnSoFar

(* One turn of the loop.                                                    *)
LEMMA PushPreserves ==
    ASSUME LoopInv, Push
    PROVE  LoopInv'
<1> DEFINE r == [index |-> index, sample_start |-> sample_start,
                 sample_count |-> sample_count]
<1>1. /\ partitions > 0 /\ partitions <= samples /\ index < partitions
      /\ index \in Nat /\ sample_start \in Nat /\ samples \in Nat /\ partitions \in Nat
      /\ sample_start = index * base_size + Larger
      /\ pc = "loop" /\ ranges \in Seq(Range) /\ Len(ranges) = index
  BY CountsAssumption DEF LoopInv, TypeOK, StartIsClosedForm, Dividing, Push, RangesPushed
<1>2. /\ base_size \in Nat /\ base_size > 0
      /\ larger_partition_count \in Nat /\ larger_partition_count < partitions
  BY <1>1, SizesAreNatural DEF LoopInv
<1>3. /\ sample_count \in Nat /\ sample_count \in Sizes
      /\ r \in Range
  BY <1>1, <1>2 DEF sample_count, Sizes, Range
<1>4. /\ ranges' = Append(ranges, r)
      /\ sample_start' = sample_start + sample_count /\ index' = index + 1
      /\ samples' = samples /\ partitions' = partitions /\ pc' = pc
  BY DEF Push
<1>5. /\ ranges' \in Seq(Range) /\ Len(ranges') = index + 1
      /\ ranges'[index + 1] = r
      /\ \A k \in 1..index : ranges'[k] = ranges[k]
  BY <1>1, <1>3, <1>4
<1>6. /\ \A k \in 1..index : /\ ranges[k] \in Range
                            /\ ranges[k].sample_start + ranges[k].sample_count <= sample_start
                            /\ ranges[k].sample_start \in Nat
                            /\ ranges[k].sample_count \in Nat
  <2>1. \A k \in 1..index : ranges[k] \in Range
    BY <1>1
  <2> QED
    BY <2>1 DEF LoopInv, RangesPushed, Range
<1>7. TypeOK'
  BY <1>1, <1>3, <1>4, <1>5 DEF LoopInv, TypeOK
<1>8. StartIsClosedForm'
  <2>1. (index + 1) * base_size = index * base_size + base_size
    BY <1>1, <1>2
  <2> DEFINE before == index * base_size
             after  == (index + 1) * base_size
             larger == IF index + 1 < larger_partition_count
                       THEN index + 1 ELSE larger_partition_count
  <2>2. /\ Larger \in Nat /\ larger \in Nat /\ before \in Int /\ after \in Int
        /\ after = before + base_size /\ sample_start = before + Larger
        /\ sample_count + Larger = base_size + larger
    BY <2>1, <1>1, <1>2 DEF Larger, sample_count
  <2>3. sample_start' = sample_start + sample_count
    BY <1>4
  <2> HIDE DEF before, after, larger
  <2>4. sample_start' = after + larger
    BY <2>2, <2>3, <1>2, <1>3
  <2> USE DEF after, larger
  <2> QED
    BY <2>4, <1>1, <1>4 DEF StartIsClosedForm, Larger, base_size, larger_partition_count
<1>9. RangesPushed'
  <2> SUFFICES ASSUME NEW k \in 1..(index + 1)
               PROVE  /\ ranges'[k].index = k - 1
                      /\ ranges'[k].sample_count \in Sizes
                      /\ ranges'[k].sample_start + ranges'[k].sample_count
                            <= sample_start + sample_count
    BY <1>4, <1>5 DEF RangesPushed, Sizes, base_size
  <2>1. CASE k = index + 1
    BY <2>1, <1>1, <1>3, <1>5
  <2>2. CASE k \in 1..index
    BY <2>2, <1>1, <1>3, <1>5, <1>6 DEF LoopInv, RangesPushed
  <2> QED
    BY <2>1, <2>2, <1>1
<1>10. NoSampleTwice'
  <2> SUFFICES ASSUME NEW k \in 1..(index + 1), NEW l \in 1..(index + 1), k < l
               PROVE  ranges'[k].sample_start + ranges'[k].sample_count
                        <= ranges'[l].sample_start
    BY <1>5 DEF NoSampleTwice
  <2>1. k \in 1..index
    BY <1>1
  <2>2. CASE l = index + 1
    BY <2>1, <2>2, <1>5, <1>6
  <2>3. CASE l \in 1..index
    BY <2>1, <2>3, <1>1, <1>5 DEF LoopInv, NoSampleTwice
  <2> QED
    BY <2>2, <2>3, <1>1
<1>11. DrawnSoFar'
  <2> SUFFICES ASSUME NEW s \in 0..(sample_start' - 1)
               PROVE  \E k \in 1..index' : Covers(ranges'[k], s)
    BY Zenon DEF DrawnSoFar, Covers
  <2>1. s \in 0..(sample_start + sample_count - 1) /\ s \in Int
    BY <1>1, <1>3, <1>4
  <2>2. index' = index + 1
    BY <1>4
  <2>3. CASE s < sample_start
    <3>1. PICK k \in 1..index : Covers(ranges[k], s)
      BY <2>1, <2>3, <1>1, <1>3 DEF LoopInv, DrawnSoFar
    <3>2. k \in 1..index' /\ ranges'[k] = ranges[k]
      BY <2>2, <1>1, <1>5
    <3> QED
      BY <3>1, <3>2, Zenon
  <2>4. CASE s >= sample_start
    <3>1. Covers(ranges'[index + 1], s)
      BY <2>1, <2>4, <1>1, <1>3, <1>5 DEF Covers
    <3>2. index + 1 \in 1..index'
      BY <2>2, <1>1
    <3> QED
      BY <3>1, <3>2, Zenon
  <2> QED
    BY <2>1, <2>3, <2>4, <1>1
<1> QED
  BY <1>1, <1>4, <1>7, <1>8, <1>9, <1>10, <1>11 DEF LoopInv

(* Every step keeps it.                                                     *)
LEMMA StepPreserves == LoopInv /\ [Next]_vars => LoopInv'
<1> SUFFICES ASSUME LoopInv, [Next]_vars
             PROVE  LoopInv'
  OBVIOUS
<1>1. CASE Push
  BY <1>1, PushPreserves
<1>2. CASE Accept
  <2>1. /\ samples \in Nat /\ partitions \in Nat /\ index = 0 /\ sample_start = 0
        /\ partitions > 0 /\ partitions <= samples
    BY <1>2, CountsAssumption DEF LoopInv, TypeOK, Accept
  <2>2. base_size \in Nat /\ larger_partition_count \in Nat
    BY <2>1, SizesAreNatural DEF LoopInv
  <2>3. StartIsClosedForm'
    BY <1>2, <2>1, <2>2 DEF Accept, StartIsClosedForm, Larger, base_size, larger_partition_count
  <2> QED
    BY <1>2, <2>3 DEF LoopInv, TypeOK, Accept, Dividing, RangesPushed, NoSampleTwice,
                      DrawnSoFar, Covers, Sizes, base_size
<1>3. CASE Reject \/ Return \/ UNCHANGED vars
  BY <1>3 DEF LoopInv, TypeOK, Reject, Return, vars, Dividing, StartIsClosedForm, Larger,
              RangesPushed, NoSampleTwice, DrawnSoFar, Covers, Sizes, base_size,
              larger_partition_count
<1> QED
  BY <1>1, <1>2, <1>3 DEF Next

(* The loop invariant holds throughout, for all arguments.                  *)
THEOREM LoopInvariant == Spec => []LoopInv
  BY InitEstablishes, StepPreserves, PTL DEF Spec

(* The variables of partition_samples keep their types: in particular       *)
(* neither the index nor the start ever goes below zero.                    *)
THEOREM TypeCorrect == Spec => []TypeOK
  BY LoopInvariant, PTL DEF LoopInv

(* For every number of samples and of partitions, no two partitions draw    *)
(* the same sample.                                                         *)
THEOREM RangesAreDisjoint == Spec => []NoSampleTwice
  BY LoopInvariant, PTL DEF LoopInv

(* At the end of the loop the closed form is the number of samples.         *)
LEMMA LoopEnds ==
    ASSUME LoopInv, pc = "ok"
    PROVE  sample_start = samples
<1>1. /\ partitions > 0 /\ partitions <= samples /\ index = partitions
      /\ samples \in Nat /\ partitions \in Nat
      /\ sample_start = index * base_size + Larger
  BY CountsAssumption DEF LoopInv, TypeOK, StartIsClosedForm, Dividing
<1>2. /\ base_size \in Nat /\ larger_partition_count \in Nat
      /\ larger_partition_count < partitions
      /\ samples = partitions * base_size + larger_partition_count
  BY <1>1, SizesAreNatural DEF LoopInv
<1> QED
  BY <1>1, <1>2 DEF Larger

LEMMA InvariantCovers == LoopInv => EverySampleDrawn
<1> SUFFICES ASSUME LoopInv, pc = "ok"
             PROVE  EverySampleDrawn
  BY DEF EverySampleDrawn
<1>1. /\ partitions > 0 /\ partitions <= samples /\ index = partitions
      /\ samples \in Nat /\ partitions \in Nat /\ sample_start \in Nat
  BY CountsAssumption DEF LoopInv, TypeOK, StartIsClosedForm, Dividing
<1>2. base_size \in Nat /\ base_size > 0
  BY <1>1, SizesAreNatural DEF LoopInv
<1>3. sample_start = samples
  BY LoopEnds
<1>4. \A k \in 1..index : ranges[k].sample_count > 0
  BY <1>2 DEF LoopInv, RangesPushed, Sizes
<1>5. Len(ranges) = partitions
  BY <1>1 DEF LoopInv, RangesPushed
<1>6. \A s \in 0..(samples - 1) : \E k \in 1..index : Covers(ranges[k], s)
  BY <1>3 DEF LoopInv, DrawnSoFar
<1> QED
  BY <1>1, <1>3, <1>4, <1>5, <1>6 DEF LoopInv, RangesPushed, EverySampleDrawn

(* For every number of samples and of partitions, the ranges returned draw  *)
(* every sample, one range per partition index, none empty and none past    *)
(* the end: sample_partition refuses none of them.                          *)
THEOREM RangesCover == Spec => []EverySampleDrawn
  BY LoopInvariant, InvariantCovers, PTL

(* Every share is the base size or one more.                                *)
LEMMA InvariantShares == LoopInv => SharesAreEven
<1> SUFFICES ASSUME LoopInv, NEW k \in 1..Len(ranges), NEW l \in 1..Len(ranges)
             PROVE  ranges[k].sample_count <= ranges[l].sample_count + 1
  BY DEF SharesAreEven
<1>1. CASE Dividing
  <2>1. base_size \in Nat
    BY <1>1, SizesAreNatural DEF LoopInv, StartIsClosedForm
  <2> QED
    BY <2>1 DEF LoopInv, RangesPushed, Sizes
<1>2. CASE ~Dividing
  BY <1>2 DEF LoopInv, TypeOK, RangesPushed, Dividing
<1> QED
  BY <1>1, <1>2

(* For every number of samples and of partitions, no partition gets more    *)
(* than one sample more than another.                                       *)
THEOREM RangesAreEven == Spec => []SharesAreEven
  BY LoopInvariant, InvariantShares, PTL

-----------------------------------------------------------------------------
(* Numbers.                                                                 *)

(* A set of numbers that is not empty has a least one: induction is a       *)
(* search for the least counterexample.                                     *)
LEMMA LeastNumber ==
    ASSUME NEW S \in SUBSET Nat, S # {}
    PROVE  \E n \in S : \A m \in S : n <= m
<1>1. PICK n \in S : \A m \in S : ~ (<<m, n>> \in OpToRel(<, Nat))
  BY NatLessThanWellFounded, WFMin
<1>2. \A m \in S : ~ (m < n)
  BY <1>1 DEF OpToRel
<1> QED
  BY <1>2

(* Products.                                                                *)
LEMMA Products ==
    ASSUME NEW a \in Int, NEW b \in Int, NEW c \in Int
    PROVE  /\ a * b \in Int /\ a * b = b * a
           /\ a * (b * c) = (a * b) * c
           /\ a * (b + c) = a * b + a * c
  OBVIOUS

LEMMA PositiveProduct ==
    ASSUME NEW a \in Nat \ {0}, NEW b \in Nat \ {0}
    PROVE  a * b \in Nat \ {0}
  OBVIOUS

LEMMA Cancel ==
    ASSUME NEW a \in Int, NEW b \in Int, NEW c \in Nat \ {0}, a * c = b * c
    PROVE  a = b
  OBVIOUS

Fractions == [num : Int, den : Nat \ {0}]

(* A number below g and not negative that g divides is 0.                   *)
LEMMA NoSmallMultiple ==
    ASSUME NEW g \in Nat \ {0}, NEW t \in Int, 0 <= g * t, g * t < g
    PROVE  t = 0
<1>1. CASE t >= 1
  <2>1. g * t = g + g * (t - 1) /\ g * (t - 1) >= 0
    BY <1>1
  <2> QED
    BY <2>1
<1>2. CASE t <= -1
  <2>1. g * t = -g + g * (t + 1) /\ g * (-(t + 1)) >= 0 /\ g * (-(t + 1)) = -(g * (t + 1))
    BY <1>2
  <2> QED
    BY <2>1
<1> QED
  BY <1>1, <1>2

(* What g divides, it divides without a remainder, whatever its sign.       *)
LEMMA Divides ==
    ASSUME NEW n \in Int, NEW g \in Nat \ {0}, Abs(n) % g = 0
    PROVE  n \div g \in Int /\ n = g * (n \div g)
<1> DEFINE q == Abs(n) \div g
           d == n \div g
           r == n % g
<1>1. /\ Abs(n) \in Nat /\ (n = Abs(n) \/ n = -Abs(n))
      /\ q \in Int /\ Abs(n) = g * q
      /\ d \in Int /\ r \in Int /\ n = g * d + r /\ 0 <= r /\ r < g
  BY SMT DEF Abs
<1> HIDE DEF q, d, r
<1>2. PICK s \in {q, -q} : n = g * s
  <2>1. CASE n = Abs(n)
    BY <1>1, <2>1
  <2>2. CASE n = -Abs(n)
    <3>1. g * (-q) = -(g * q)
      BY <1>1
    <3> QED
      BY <1>1, <2>2, <3>1
  <2> QED
    BY <1>1, <2>1, <2>2
<1>3. s \in Int /\ s - d \in Int
  BY <1>1, <1>2
<1>4. g * (s - d) = g * s - g * d
  BY <1>1, <1>3
<1>5. g * (s - d) = r
  BY <1>1, <1>2, <1>3, <1>4
<1>6. s - d = 0
  BY <1>1, <1>3, <1>5, NoSmallMultiple
<1>7. s = d
  BY <1>1, <1>3, <1>6
<1> QED
  BY <1>1, <1>2, <1>7 DEF d

(* There is a greatest common divisor, and Gcd is one.                      *)
LEMMA GcdDivides ==
    ASSUME NEW a \in Nat, NEW b \in Nat \ {0}
    PROVE  /\ Gcd(a, b) \in Nat \ {0}
           /\ a % Gcd(a, b) = 0 /\ b % Gcd(a, b) = 0
<1> DEFINE Common(d) == a % d = 0 /\ b % d = 0
<1>1. CASE a = 0
  <2>1. 0 % b = 0 /\ b % b = 0
    <3>1. /\ 0 \div b \in Int /\ 0 % b \in Int /\ 0 = b * (0 \div b) + (0 % b)
          /\ 0 <= 0 % b /\ 0 % b < b
          /\ b \div b \in Int /\ b % b \in Int /\ b = b * (b \div b) + (b % b)
          /\ 0 <= b % b /\ b % b < b
      BY SMT
    <3> QED
      BY SMT
  <2> QED
    BY <1>1, <2>1 DEF Gcd
<1>2. CASE a # 0
  <2>1. Common(1)
    BY SMT
  <2> DEFINE Below == {m \in Nat : b - m \in 1..b /\ Common(b - m)}
  <2>2. b - 1 \in Below
    <3>1. b - 1 \in Nat /\ b - (b - 1) = 1
      OBVIOUS
    <3> HIDE DEF Common
    <3> QED
      BY <2>1, <3>1
  <2>3. PICK m \in Below : \A k \in Below : m <= k
    <3>1. Below \in SUBSET Nat /\ Below # {}
      BY <2>2
    <3> HIDE DEF Below
    <3> QED
      BY <3>1, LeastNumber
  <2> HIDE DEF Common
  <2>4. /\ b - m \in 1..b /\ Common(b - m)
        /\ \A e \in (b - m) + 1..b : ~ Common(e)
    <3>1. m \in Nat /\ b - m \in 1..b /\ Common(b - m)
      BY <2>3
    <3>2. ASSUME NEW e \in (b - m) + 1..b, Common(e)
          PROVE  FALSE
      <4>1. b - e \in Nat /\ b - (b - e) = e /\ e \in 1..b /\ b - e < m
        BY <3>1
      <4>2. b - e \in Below
        BY <3>2, <4>1
      <4> QED
        BY <2>3, <3>1, <4>1, <4>2
    <3> QED
      BY <3>1, <3>2
  <2> DEFINE Great(d) == Common(d) /\ \A e \in d + 1..b : ~ Common(e)
  <2>5. Gcd(a, b) = CHOOSE d \in 1..b : Great(d)
    BY <1>2 DEF Gcd, Common
  <2>6. \E d \in 1..b : Great(d)
    BY <2>4
  <2> HIDE DEF Great
  <2>7. Gcd(a, b) \in 1..b /\ Great(Gcd(a, b))
    BY <2>5, <2>6
  <2> QED
    BY <2>7 DEF Great, Common
<1> QED
  BY <1>1, <1>2

(* The fraction p is the number n / d.                                      *)
Is(p, n, d) == /\ p \in Fractions /\ n \in Int /\ d \in Nat \ {0}
               /\ p.num * d = n * p.den

(* Taking a fraction to its lowest terms does not change it.                *)
LEMMA FractionIs ==
    ASSUME NEW n \in Int, NEW d \in Nat \ {0}
    PROVE  Is(Fraction(n, d), n, d)
<1> DEFINE g == Gcd(Abs(n), d)
           x == n \div g
           y == d \div g
<1>1. Abs(n) \in Nat /\ Abs(d) = d
  BY DEF Abs
<1>2. g \in Nat \ {0} /\ Abs(n) % g = 0 /\ Abs(d) % g = 0
  BY <1>1, GcdDivides
<1>3. x \in Int /\ n = g * x /\ y \in Int /\ d = g * y
  <2> HIDE DEF g
  <2> QED
    BY <1>2, Divides
<1>4. Fraction(n, d) = [num |-> x, den |-> y]
  BY DEF Fraction
<1> HIDE DEF g, x, y
<1>5. y > 0
  <2>1. ASSUME y <= 0 PROVE FALSE
    <3>1. g * (-y) >= 0 /\ g * (-y) = -(g * y)
      BY <1>2, <1>3, <2>1
    <3> QED
      BY <1>3, <3>1
  <2> QED
    BY <1>3, <2>1
<1>6. x * (g * y) = (g * x) * y
  BY <1>2, <1>3
<1> QED
  BY <1>3, <1>4, <1>5, <1>6 DEF Is, Fractions

LEMMA WholeIs == ASSUME NEW n \in Int PROVE Is(Whole(n), n, 1)
  BY DEF Is, Fractions, Whole

(* Sums and products of fractions that are a / b and c / d.                 *)
LEMMA SumCross ==
    ASSUME NEW P \in Int, NEW Q \in Nat \ {0}, NEW R \in Int, NEW S \in Nat \ {0},
           NEW X \in Int, NEW Y \in Nat \ {0},
           NEW a \in Int, NEW b \in Nat \ {0}, NEW c \in Int, NEW d \in Nat \ {0},
           P * b = a * Q, R * d = c * S, X * (Q * S) = (P * S + R * Q) * Y
    PROVE  X * (b * d) = (a * d + c * b) * Y
<1>1. (X * (b * d)) * (Q * S) = (X * (Q * S)) * (b * d)
  OBVIOUS
<1>2. (X * (Q * S)) * (b * d) = ((P * S + R * Q) * Y) * (b * d)
  OBVIOUS
<1>3. ((P * S + R * Q) * Y) * (b * d) = (((P * b) * (S * d)) + ((R * d) * (Q * b))) * Y
  OBVIOUS
<1>4. (((P * b) * (S * d)) + ((R * d) * (Q * b))) * Y
        = (((a * Q) * (S * d)) + ((c * S) * (Q * b))) * Y
  OBVIOUS
<1>5. (((a * Q) * (S * d)) + ((c * S) * (Q * b))) * Y = ((a * d + c * b) * Y) * (Q * S)
  OBVIOUS
<1>6. Q * S \in Nat \ {0} /\ X * (b * d) \in Int /\ (a * d + c * b) * Y \in Int
  BY PositiveProduct
<1> DEFINE L == X * (b * d)
           M == (a * d + c * b) * Y
           T == Q * S
<1>7. L * T = M * T
  BY <1>1, <1>2, <1>3, <1>4, <1>5
<1> QED
  BY <1>6, <1>7, Cancel

LEMMA ProductCross ==
    ASSUME NEW P \in Int, NEW Q \in Nat \ {0}, NEW R \in Int, NEW S \in Nat \ {0},
           NEW X \in Int, NEW Y \in Nat \ {0},
           NEW a \in Int, NEW b \in Nat \ {0}, NEW c \in Int, NEW d \in Nat \ {0},
           P * b = a * Q, R * d = c * S, X * (Q * S) = (P * R) * Y
    PROVE  X * (b * d) = (a * c) * Y
<1>1. (X * (b * d)) * (Q * S) = (X * (Q * S)) * (b * d)
  OBVIOUS
<1>2. ((P * R) * Y) * (b * d) = ((P * b) * (R * d)) * Y
  OBVIOUS
<1>3. ((a * Q) * (c * S)) * Y = ((a * c) * Y) * (Q * S)
  OBVIOUS
<1>4. Q * S \in Nat \ {0} /\ X * (b * d) \in Int /\ (a * c) * Y \in Int
  BY PositiveProduct
<1> DEFINE L == X * (b * d)
           M == (a * c) * Y
           T == Q * S
<1>5. L * T = M * T
  BY <1>1, <1>2, <1>3
<1> QED
  BY <1>4, <1>5, Cancel

LEMMA PlusIs ==
    ASSUME NEW p, NEW q, NEW a, NEW b, NEW c, NEW d, Is(p, a, b), Is(q, c, d)
    PROVE  Is(Plus(p, q), a * d + c * b, b * d)
<1>1. /\ p.num \in Int /\ p.den \in Nat \ {0} /\ q.num \in Int /\ q.den \in Nat \ {0}
      /\ a \in Int /\ c \in Int /\ b \in Nat \ {0} /\ d \in Nat \ {0}
      /\ p.num * b = a * p.den /\ q.num * d = c * q.den
  BY DEF Is, Fractions
<1> DEFINE s == Plus(p, q)
<1>2. p.num * q.den + q.num * p.den \in Int /\ p.den * q.den \in Nat \ {0}
  BY <1>1, PositiveProduct
<1>3. /\ s \in Fractions
      /\ s.num * (p.den * q.den) = (p.num * q.den + q.num * p.den) * s.den
  BY <1>2, FractionIs DEF Plus, Is
<1> HIDE DEF s
<1>4. s.num \in Int /\ s.den \in Nat \ {0}
  BY <1>3 DEF Fractions
<1>5. s.num * (b * d) = (a * d + c * b) * s.den
  <2> DEFINE P == p.num  Q == p.den  R == q.num  S == q.den  X == s.num  Y == s.den
  <2>1. /\ P \in Int /\ Q \in Nat \ {0} /\ R \in Int /\ S \in Nat \ {0}
        /\ X \in Int /\ Y \in Nat \ {0}
        /\ P * b = a * Q /\ R * d = c * S /\ X * (Q * S) = (P * S + R * Q) * Y
    BY <1>1, <1>3, <1>4
  <2> HIDE DEF P, Q, R, S, X, Y
  <2>2. X * (b * d) = (a * d + c * b) * Y
    BY <1>1, <2>1, SumCross
  <2> QED
    BY <2>2 DEF X, Y
<1>6. a * d + c * b \in Int /\ b * d \in Nat \ {0}
  BY <1>1, PositiveProduct
<1> QED
  BY <1>3, <1>5, <1>6 DEF Is, s

(* A difference is the sum with the negative.                               *)
LEMMA MinusIs ==
    ASSUME NEW p, NEW q, NEW a, NEW b, NEW c, NEW d, Is(p, a, b), Is(q, c, d)
    PROVE  Is(Minus(p, q), a * d - c * b, b * d)
<1> DEFINE m == [num |-> -q.num, den |-> q.den]
<1>1. /\ p.num \in Int /\ p.den \in Nat \ {0} /\ q.num \in Int /\ q.den \in Nat \ {0}
      /\ a \in Int /\ c \in Int /\ b \in Nat \ {0} /\ d \in Nat \ {0}
      /\ q.num * d = c * q.den
  BY DEF Is, Fractions
<1>2. (-q.num) * d = -(q.num * d) /\ (-c) * q.den = -(c * q.den)
  BY <1>1
<1>3. Is(m, -c, d)
  BY <1>1, <1>2 DEF Is, Fractions
<1>4. Plus(p, m) = Minus(p, q)
  <2>1. (-q.num) * p.den = -(q.num * p.den)
    BY <1>1
  <2>2. p.num * q.den + (-q.num) * p.den = p.num * q.den - q.num * p.den
    BY <1>1, <2>1
  <2> QED
    BY <2>2 DEF Plus, Minus
<1>5. a * d + (-c) * b = a * d - c * b
  <2>1. (-c) * b = -(c * b)
    BY <1>1
  <2> QED
    BY <1>1, <2>1
<1> HIDE DEF m
<1>6. Is(Plus(p, m), a * d + (-c) * b, b * d)
  BY <1>3, PlusIs
<1> QED
  BY <1>4, <1>5, <1>6

LEMMA TimesIs ==
    ASSUME NEW p, NEW q, NEW a, NEW b, NEW c, NEW d, Is(p, a, b), Is(q, c, d)
    PROVE  Is(Times(p, q), a * c, b * d)
<1>1. /\ p.num \in Int /\ p.den \in Nat \ {0} /\ q.num \in Int /\ q.den \in Nat \ {0}
      /\ a \in Int /\ c \in Int /\ b \in Nat \ {0} /\ d \in Nat \ {0}
      /\ p.num * b = a * p.den /\ q.num * d = c * q.den
  BY DEF Is, Fractions
<1> DEFINE s == Times(p, q)
<1>2. p.num * q.num \in Int /\ p.den * q.den \in Nat \ {0}
  BY <1>1, PositiveProduct
<1>3. s \in Fractions /\ s.num * (p.den * q.den) = (p.num * q.num) * s.den
  BY <1>2, FractionIs DEF Times, Is
<1> HIDE DEF s
<1>4. s.num \in Int /\ s.den \in Nat \ {0}
  BY <1>3 DEF Fractions
<1>5. s.num * (b * d) = (a * c) * s.den
  <2> DEFINE P == p.num  Q == p.den  R == q.num  S == q.den  X == s.num  Y == s.den
  <2>1. /\ P \in Int /\ Q \in Nat \ {0} /\ R \in Int /\ S \in Nat \ {0}
        /\ X \in Int /\ Y \in Nat \ {0}
        /\ P * b = a * Q /\ R * d = c * S /\ X * (Q * S) = (P * R) * Y
    BY <1>1, <1>3, <1>4
  <2> HIDE DEF P, Q, R, S, X, Y
  <2>2. X * (b * d) = (a * c) * Y
    BY <1>1, <2>1, ProductCross
  <2> QED
    BY <2>2 DEF X, Y
<1>6. a * c \in Int /\ b * d \in Nat \ {0}
  BY <1>1, PositiveProduct
<1> QED
  BY <1>3, <1>5, <1>6 DEF Is, s

LEMMA OverIs ==
    ASSUME NEW p, NEW a, NEW b, Is(p, a, b), NEW n \in Nat \ {0}
    PROVE  Is(Over(p, n), a, b * n)
<1> DEFINE inverse == [num |-> 1, den |-> n]
<1>1. Is(inverse, 1, n)
  BY DEF Is, Fractions
<1>2. p.num \in Int /\ a \in Int
  BY DEF Is, Fractions
<1>3. Times(p, inverse) = Over(p, n) /\ a * 1 = a
  BY <1>2 DEF Times, Over
<1> HIDE DEF inverse
<1> QED
  BY <1>1, <1>3, TimesIs

(* A number may be written with any other numerator and denominator of the  *)
(* same proportion.                                                         *)
LEMMA Rewritten ==
    ASSUME NEW p, NEW a, NEW b, NEW c \in Int, NEW d \in Nat \ {0}, Is(p, a, b),
           a * d = c * b
    PROVE  Is(p, c, d)
<1>1. /\ p.num \in Int /\ p.den \in Nat \ {0} /\ a \in Int /\ b \in Nat \ {0}
      /\ p.num * b = a * p.den
  BY DEF Is, Fractions
<1> DEFINE x == p.num
           y == p.den
<1>2. /\ (x * d) * b = (x * b) * d
      /\ (a * y) * d = (a * d) * y
      /\ (c * b) * y = (c * y) * b
  BY <1>1
<1>3. (x * d) * b = (c * y) * b /\ x * d \in Int /\ c * y \in Int
  BY <1>1, <1>2
<1> HIDE DEF x, y
<1>4. x * d = c * y
  BY <1>1, <1>3, Cancel
<1> QED
  BY <1>4 DEF Is, x, y

(* Partial statistics stand for n samples with the sum t and the sum of     *)
(* squares q: their mean is t / n and, what the recurrences keep, their     *)
(* squared deviations add up to (n * q - t * t) / n.                        *)
StandsFor(sum, n, t, q) ==
    /\ n \in Nat /\ t \in Int /\ q \in Int
    /\ sum.sample_count = n
    /\ n = 0 => t = 0 /\ q = 0 /\ sum = empty
    /\ n > 0 => Is(sum.mean, t, n) /\ Is(sum.squared_deviation_sum, n * q - t * t, n)

(* The identity behind one turn of the recurrence.                          *)
LEMMA WelfordIdentity ==
    ASSUME NEW n \in Int, NEW t \in Int, NEW q \in Int, NEW v \in Int
    PROVE  (n * q - t * t) * (n + 1) + (v * n - t) * (v * n - t)
             = n * ((n + 1) * (q + v * v) - (t + v) * (t + v))
  OBVIOUS

(* The identity behind a merge.                                             *)
LEMMA MergeIdentity ==
    ASSUME NEW n \in Int, NEW t \in Int, NEW q \in Int,
           NEW m \in Int, NEW u \in Int, NEW p \in Int
    PROVE  ((n * q - t * t) * m + (m * p - u * u) * n) * (n + m)
             + (u * n - t * m) * (u * n - t * m)
             = (n * m) * ((n + m) * (q + p) - (t + u) * (t + u))
  OBVIOUS

(* One more sample.                                                         *)
LEMMA WelfordStands ==
    ASSUME NEW sum, NEW n, NEW t, NEW q, StandsFor(sum, n, t, q), NEW v \in Int
    PROVE  StandsFor(Welford(sum, v), n + 1, t + v, q + v * v)
<1> DEFINE delta == Minus(Whole(v), sum.mean)
           mean  == Plus(sum.mean, Over(delta, n + 1))
           turn  == Times(delta, Minus(Whole(v), mean))
           all   == Plus(sum.squared_deviation_sum, turn)
           k     == n + 1
           d     == v * n - t
           e     == (n + 1) * (q + v * v) - (t + v) * (t + v)
<1>1. /\ n \in Nat /\ t \in Int /\ q \in Int /\ sum.sample_count = n
      /\ k \in Nat \ {0} /\ d \in Int /\ e \in Int
      /\ t + v \in Int /\ q + v * v \in Int
  BY DEF StandsFor
<1>2. Welford(sum, v) = [sample_count |-> k, mean |-> mean, squared_deviation_sum |-> all]
  BY <1>1 DEF Welford
<1>3. Is(Whole(v), v, 1)
  BY WholeIs
<1> HIDE DEF delta, mean, turn, all
<1>4. CASE n = 0
  <2>1. t = 0 /\ q = 0 /\ sum.mean = Whole(0) /\ sum.squared_deviation_sum = Whole(0)
    BY <1>4 DEF StandsFor, empty
  <2>2. Is(Whole(0), 0, 1)
    BY WholeIs
  <2>3. Is(delta, v, 1)
    <3>1. Is(delta, v * 1 - 0 * 1, 1 * 1)
      BY <1>3, <2>1, <2>2, MinusIs DEF delta
    <3> QED
      BY <3>1
  <2>4. Is(mean, v, 1)
    <3>1. Is(Over(delta, n + 1), v, 1 * 1)
      BY <1>4, <2>3, OverIs
    <3>2. Is(mean, 0 * (1 * 1) + v * 1, 1 * (1 * 1))
      BY <2>1, <2>2, <3>1, PlusIs DEF mean
    <3> QED
      BY <3>2
  <2>5. Is(turn, v * 0, 1)
    <3>1. Is(Minus(Whole(v), mean), v * 1 - v * 1, 1 * 1)
      BY <1>3, <2>4, MinusIs
    <3>2. Is(Minus(Whole(v), mean), 0, 1)
      BY <3>1
    <3>3. Is(turn, v * 0, 1 * 1)
      BY <2>3, <3>2, TimesIs DEF turn
    <3> QED
      BY <3>3
  <2>6. Is(all, 0, 1)
    <3>1. Is(all, 0 * 1 + (v * 0) * 1, 1 * 1)
      BY <2>1, <2>2, <2>5, PlusIs DEF all
    <3> QED
      BY <3>1
  <2>7. k = 1 /\ t + v = v /\ (n + 1) * (q + v * v) - (t + v) * (t + v) = 0
    BY <1>4, <2>1
  <2> QED
    BY <1>1, <1>2, <2>4, <2>6, <2>7 DEF StandsFor
<1>5. CASE n > 0
  <2>1. Is(sum.mean, t, n) /\ Is(sum.squared_deviation_sum, n * q - t * t, n)
    BY <1>5 DEF StandsFor
  <2>2. Is(delta, d, n)
    <3>1. Is(delta, v * n - t * 1, 1 * n)
      BY <1>3, <2>1, MinusIs DEF delta
    <3>2. v * n - t * 1 = d /\ 1 * n = n
      BY <1>1
    <3> HIDE DEF d
    <3> QED
      BY <3>1, <3>2
  <2>3. Is(mean, t + v, k)
    <3>1. Is(Over(delta, n + 1), d, n * k)
      BY <1>1, <2>2, OverIs
    <3>2. Is(mean, t * (n * k) + d * n, n * (n * k))
      BY <2>1, <3>1, PlusIs DEF mean
    <3>3. (t * (n * k) + d * n) * k = (t + v) * (n * (n * k))
      BY <1>1
    <3> HIDE DEF k, d
    <3> QED
      BY <1>1, <3>2, <3>3, Rewritten
  <2>4. Is(Minus(Whole(v), mean), d, k)
    <3>1. Is(Minus(Whole(v), mean), v * k - (t + v) * 1, 1 * k)
      BY <1>3, <2>3, MinusIs
    <3>2. v * k - (t + v) * 1 = d /\ 1 * k = k
      BY <1>1
    <3> HIDE DEF k, d
    <3> QED
      BY <3>1, <3>2
  <2>5. Is(turn, d * d, n * k)
    BY <2>2, <2>4, TimesIs DEF turn
  <2>6. Is(all, (n * q - t * t) * (n * k) + (d * d) * n, n * (n * k))
    BY <2>1, <2>5, PlusIs DEF all
  <2>7. ((n * q - t * t) * (n * k) + (d * d) * n) * k = e * (n * (n * k))
    <3> DEFINE a == n * q - t * t
    <3>1. a \in Int /\ a * k + d * d = n * e
      BY <1>1, WelfordIdentity
    <3> HIDE DEF a, d, e, k
    <3>2. (a * (n * k) + (d * d) * n) * k = (a * k + d * d) * (n * k)
      BY <1>1, <3>1
    <3>3. (n * e) * (n * k) = e * (n * (n * k))
      BY <1>1
    <3>4. (a * (n * k) + (d * d) * n) * k = e * (n * (n * k))
      BY <3>1, <3>2, <3>3
    <3> QED
      BY <3>4 DEF a
  <2>8. Is(all, e, k)
    <3> HIDE DEF e, d, k
    <3> QED
      BY <1>1, <2>6, <2>7, Rewritten
  <2> QED
    BY <1>1, <1>2, <2>3, <2>8 DEF StandsFor
<1> QED
  BY <1>1, <1>4, <1>5

(* The statistics of some samples and those of others.                      *)
LEMMA MergeStands ==
    ASSUME NEW left, NEW n, NEW t, NEW q, StandsFor(left, n, t, q),
           NEW right, NEW m, NEW u, NEW p, StandsFor(right, m, u, p)
    PROVE  StandsFor(merge(left, right), n + m, t + u, q + p)
<1> DEFINE delta == Minus(right.mean, left.mean)
           count == n + m
           mean  == Plus(left.mean, Over(Times(delta, Whole(m)), count))
           both  == Plus(left.squared_deviation_sum, right.squared_deviation_sum)
           shift == Over(Times(Times(delta, delta), Whole(n * m)), count)
           all   == Plus(both, shift)
           d     == u * n - t * m
           a     == (n * q - t * t) * m + (m * p - u * u) * n
           e     == (n + m) * (q + p) - (t + u) * (t + u)
<1>1. /\ n \in Nat /\ t \in Int /\ q \in Int /\ left.sample_count = n
      /\ m \in Nat /\ u \in Int /\ p \in Int /\ right.sample_count = m
      /\ count \in Nat /\ d \in Int /\ a \in Int /\ e \in Int
      /\ t + u \in Int /\ q + p \in Int
  BY DEF StandsFor
<1>2. CASE n = 0
  <2>1. merge(left, right) = right
    BY <1>1, <1>2 DEF merge
  <2>2. t = 0 /\ q = 0
    BY <1>2 DEF StandsFor
  <2>3. n + m = m /\ t + u = u /\ q + p = p
    BY <1>1, <1>2, <2>2
  <2> QED
    BY <2>1, <2>3
<1>3. CASE n # 0 /\ m = 0
  <2>1. merge(left, right) = left
    BY <1>1, <1>3 DEF merge
  <2>2. u = 0 /\ p = 0
    BY <1>3 DEF StandsFor
  <2>3. n + m = n /\ t + u = t /\ q + p = q
    BY <1>1, <1>3, <2>2
  <2> QED
    BY <2>1, <2>3
<1>4. CASE n # 0 /\ m # 0
  <2>1. merge(left, right) = [sample_count |-> count, mean |-> mean, squared_deviation_sum |-> all]
    BY <1>1, <1>4 DEF merge
  <2> HIDE DEF delta, mean, both, shift, all
  <2>2. /\ Is(left.mean, t, n) /\ Is(left.squared_deviation_sum, n * q - t * t, n)
        /\ Is(right.mean, u, m) /\ Is(right.squared_deviation_sum, m * p - u * u, m)
        /\ n \in Nat \ {0} /\ m \in Nat \ {0} /\ count \in Nat \ {0} /\ n * m \in Nat \ {0}
    BY <1>1, <1>4, PositiveProduct DEF StandsFor
  <2>3. Is(delta, d, m * n)
    BY <2>2, MinusIs DEF delta
  <2>4. Is(mean, t + u, count)
    <3>1. Is(Times(delta, Whole(m)), d * m, (m * n) * 1)
      <4>1. Is(Whole(m), m, 1)
        BY <1>1, WholeIs
      <4> HIDE DEF d
      <4> QED
        BY <2>3, <4>1, TimesIs
    <3>2. Is(Over(Times(delta, Whole(m)), count), d * m, ((m * n) * 1) * count)
      BY <2>2, <3>1, OverIs
    <3>3. Is(mean, t * (((m * n) * 1) * count) + (d * m) * n, n * (((m * n) * 1) * count))
      BY <2>2, <3>2, PlusIs DEF mean
    <3>4. t * count + d = n * (t + u)
      BY <1>1
    <3> HIDE DEF d, count
    <3>5. (t * (((m * n) * 1) * count) + (d * m) * n) * count
            = (t * count + d) * ((m * n) * count)
      BY <1>1
    <3>6. (n * (t + u)) * ((m * n) * count) = (t + u) * (n * (((m * n) * 1) * count))
      BY <1>1
    <3>7. (t * (((m * n) * 1) * count) + (d * m) * n) * count
            = (t + u) * (n * (((m * n) * 1) * count))
      BY <3>4, <3>5, <3>6
    <3> DEFINE x == t * (((m * n) * 1) * count) + (d * m) * n
               y == n * (((m * n) * 1) * count)
    <3>8. Is(mean, x, y) /\ x * count = (t + u) * y
      BY <3>3, <3>7
    <3> HIDE DEF x, y
    <3> QED
      BY <1>1, <2>2, <3>8, Rewritten
  <2>5. Is(both, a, n * m)
    BY <2>2, PlusIs DEF both
  <2>6. Is(shift, d * d, (n * m) * count)
    <3>1. Is(Times(delta, delta), d * d, (m * n) * (m * n))
      BY <2>3, TimesIs
    <3>2. Is(Times(Times(delta, delta), Whole(n * m)), (d * d) * (n * m), ((m * n) * (m * n)) * 1)
      BY <2>2, <3>1, WholeIs, TimesIs
    <3>3. Is(shift, (d * d) * (n * m), (((m * n) * (m * n)) * 1) * count)
      BY <2>2, <3>2, OverIs DEF shift
    <3> HIDE DEF d, count
    <3>4. ((d * d) * (n * m)) * ((n * m) * count) = (d * d) * ((((m * n) * (m * n)) * 1) * count)
      BY <1>1
    <3>5. d * d \in Int /\ (n * m) * count \in Nat \ {0}
      BY <1>1, <2>2, PositiveProduct
    <3> QED
      BY <3>3, <3>4, <3>5, Rewritten
  <2>7. Is(all, a * ((n * m) * count) + (d * d) * (n * m), (n * m) * ((n * m) * count))
    BY <2>5, <2>6, PlusIs DEF all
  <2>8. a * count + d * d = (n * m) * e
    BY <1>1, MergeIdentity
  <2>9. Is(all, e, count)
    <3> HIDE DEF a, d, e, count
    <3> DEFINE w == n * m
    <3>1. w \in Int
      BY <2>2
    <3> HIDE DEF w
    <3>2. (a * (w * count) + (d * d) * w) * count = (a * count + d * d) * (w * count)
      BY <1>1, <3>1
    <3>3. (w * e) * (w * count) = e * (w * (w * count))
      BY <1>1, <3>1
    <3>4. (a * (w * count) + (d * d) * w) * count = e * (w * (w * count))
      BY <2>8, <3>2, <3>3 DEF w
    <3>5. Is(all, a * (w * count) + (d * d) * w, w * (w * count))
      BY <2>7 DEF w
    <3> QED
      BY <1>1, <2>2, <3>4, <3>5, Rewritten
  <2> QED
    BY <1>1, <2>1, <2>2, <2>4, <2>9 DEF StandsFor
<1> QED
  BY <1>1, <1>2, <1>3, <1>4

(* A recursive function exists on 0..n if it does on 0..n - 1, so on every  *)
(* 0..n: there is no least n for which it does not.                         *)
LEMMA SumsAre ==
    ASSUME samples \in Nat, NEW f
    PROVE  /\ SumsOf(f)[0] = 0
           /\ \A k \in 1..samples : SumsOf(f)[k] = SumsOf(f)[k - 1] + f[k - 1]
<1> DEFINE Recursive(s, n) == s = [k \in 0..n |-> IF k = 0 THEN 0 ELSE s[k - 1] + f[k - 1]]
           Missing == {n \in Nat : ~ \E s : Recursive(s, n)}
<1>1. ASSUME Missing # {} PROVE FALSE
  <2>1. PICK n \in Missing : \A m \in Missing : n <= m
    <3>1. Missing \in SUBSET Nat
      OBVIOUS
    <3> HIDE DEF Missing
    <3> QED
      BY <1>1, <3>1, LeastNumber
  <2>2. n # 0
    <3>1. Recursive([k \in 0..0 |-> 0], 0)
      OBVIOUS
    <3> HIDE DEF Recursive
    <3> QED
      BY <2>1, <3>1
  <2>3. n \in Nat /\ n - 1 \in Nat /\ n - 1 \notin Missing
    <3>1. n \in Nat
      BY <2>1
    <3> HIDE DEF Missing
    <3> QED
      BY <2>1, <2>2, <3>1
  <2>4. PICK s : Recursive(s, n - 1)
    BY <2>3
  <2> DEFINE t == [k \in 0..n |-> IF k = 0 THEN 0 ELSE s[k - 1] + f[k - 1]]
  <2>5. \A k \in 0..n - 1 : t[k] = s[k]
    BY <2>3, <2>4
  <2>6. \A k \in 0..n : t[k] = IF k = 0 THEN 0 ELSE t[k - 1] + f[k - 1]
    <3>1. \A k \in 0..n : k # 0 => k - 1 \in 0..n - 1
      BY <2>3
    <3> QED
      BY <2>5, <3>1
  <2>7. Recursive(t, n)
    BY <2>6
  <2> QED
    BY <2>1, <2>7
<1>2. SumsOf(f) = CHOOSE s : Recursive(s, samples)
  BY DEF SumsOf
<1>3. \E s : Recursive(s, samples)
  BY <1>1
<1>4. Recursive(SumsOf(f), samples)
  <2> HIDE DEF Recursive
  <2> QED
    BY <1>2, <1>3
<1> QED
  BY <1>4

LEMMA TurnsAre ==
    ASSUME NEW start \in Nat, NEW count \in Nat
    PROVE  /\ Turns(start, count)[0] = empty
           /\ \A k \in 1..count :
                 Turns(start, count)[k] = Welford(Turns(start, count)[k - 1],
                                                  values[start + k - 1])
<1> DEFINE Recursive(s, n) ==
              s = [k \in 0..n |-> IF k = 0 THEN empty
                                  ELSE Welford(s[k - 1], values[start + k - 1])]
           Missing == {n \in Nat : ~ \E s : Recursive(s, n)}
<1>1. ASSUME Missing # {} PROVE FALSE
  <2>1. PICK n \in Missing : \A m \in Missing : n <= m
    <3>1. Missing \in SUBSET Nat
      OBVIOUS
    <3> HIDE DEF Missing
    <3> QED
      BY <1>1, <3>1, LeastNumber
  <2>2. n # 0
    <3>1. Recursive([k \in 0..0 |-> empty], 0)
      OBVIOUS
    <3> HIDE DEF Recursive
    <3> QED
      BY <2>1, <3>1
  <2>3. n \in Nat /\ n - 1 \in Nat /\ n - 1 \notin Missing
    <3>1. n \in Nat
      BY <2>1
    <3> HIDE DEF Missing
    <3> QED
      BY <2>1, <2>2, <3>1
  <2>4. PICK s : Recursive(s, n - 1)
    BY <2>3
  <2> DEFINE t == [k \in 0..n |-> IF k = 0 THEN empty
                                  ELSE Welford(s[k - 1], values[start + k - 1])]
  <2>5. \A k \in 0..n - 1 : t[k] = s[k]
    BY <2>3, <2>4
  <2>6. \A k \in 0..n : t[k] = IF k = 0 THEN empty
                               ELSE Welford(t[k - 1], values[start + k - 1])
    <3>1. \A k \in 0..n : k # 0 => k - 1 \in 0..n - 1
      BY <2>3
    <3> QED
      BY <2>5, <3>1
  <2>7. Recursive(t, n)
    BY <2>6
  <2> QED
    BY <2>1, <2>7
<1>2. Turns(start, count) = CHOOSE s : Recursive(s, count)
  BY DEF Turns
<1>3. \E s : Recursive(s, count)
  BY <1>1
<1>4. Recursive(Turns(start, count), count)
  <2> HIDE DEF Recursive
  <2> QED
    BY <1>2, <1>3
<1> QED
  BY <1>4

Part(k) == sample_partition(ranges[k].sample_start, ranges[k].sample_count)

LEMMA MergedAre ==
    ASSUME Len(ranges) \in Nat
    PROVE  /\ Merged[0] = empty
           /\ \A k \in 1..Len(ranges) : Merged[k] = merge(Merged[k - 1], Part(k))
<1> DEFINE Recursive(s, n) ==
              s = [k \in 0..n |-> IF k = 0 THEN empty
                                  ELSE merge(s[k - 1], Part(k))]
           Missing == {n \in Nat : ~ \E s : Recursive(s, n)}
<1>1. ASSUME Missing # {} PROVE FALSE
  <2>1. PICK n \in Missing : \A m \in Missing : n <= m
    <3>1. Missing \in SUBSET Nat
      OBVIOUS
    <3> HIDE DEF Missing
    <3> QED
      BY <1>1, <3>1, LeastNumber
  <2>2. n # 0
    <3>1. Recursive([k \in 0..0 |-> empty], 0)
      OBVIOUS
    <3> HIDE DEF Recursive
    <3> QED
      BY <2>1, <3>1
  <2>3. n \in Nat /\ n - 1 \in Nat /\ n - 1 \notin Missing
    <3>1. n \in Nat
      BY <2>1
    <3> HIDE DEF Missing
    <3> QED
      BY <2>1, <2>2, <3>1
  <2>4. PICK s : Recursive(s, n - 1)
    BY <2>3
  <2> DEFINE t == [k \in 0..n |-> IF k = 0 THEN empty
                                  ELSE merge(s[k - 1], Part(k))]
  <2>5. \A k \in 0..n - 1 : t[k] = s[k]
    BY <2>3, <2>4
  <2>6. \A k \in 0..n : t[k] = IF k = 0 THEN empty
                               ELSE merge(t[k - 1], Part(k))
    <3>1. \A k \in 0..n : k # 0 => k - 1 \in 0..n - 1
      BY <2>3
    <3> QED
      BY <2>5, <3>1
  <2>7. Recursive(t, n)
    BY <2>6
  <2> QED
    BY <2>1, <2>7
<1>2. Merged = CHOOSE s : Recursive(s, Len(ranges))
  BY DEF Merged, Part
<1>3. \E s : Recursive(s, Len(ranges))
  BY <1>1
<1>4. Recursive(Merged, Len(ranges))
  <2> HIDE DEF Recursive
  <2> QED
    BY <1>2, <1>3
<1> QED
  BY <1>4

(* Sums of integers are integers.                                           *)
LEMMA SumsAreIntegers ==
    ASSUME samples \in Nat, NEW f \in [0..samples - 1 -> Int]
    PROVE  \A k \in 0..samples : SumsOf(f)[k] \in Int
<1> DEFINE Wrong == {k \in 0..samples : SumsOf(f)[k] \notin Int}
<1>1. ASSUME Wrong # {} PROVE FALSE
  <2>1. PICK k \in Wrong : \A l \in Wrong : k <= l
    <3>1. Wrong \in SUBSET Nat
      OBVIOUS
    <3> HIDE DEF Wrong
    <3> QED
      BY <1>1, <3>1, LeastNumber
  <2>2. k \in 0..samples /\ SumsOf(f)[k] \notin Int
    BY <2>1
  <2>3. k # 0
    BY <2>2, SumsAre
  <2>4. /\ k \in 1..samples /\ k - 1 \in 0..samples - 1 /\ k - 1 \in 0..samples
        /\ f[k - 1] \in Int /\ k - 1 < k
    BY <2>2, <2>3
  <2>5. SumsOf(f)[k - 1] \in Int
    BY <2>1, <2>4
  <2> QED
    BY <2>2, <2>4, <2>5, SumsAre
<1> QED
  BY <1>1

(* The values of a state that StatisticsSpec reaches.                       *)
ValuesOK == samples \in Nat /\ values \in [0..samples - 1 -> Int]

LEMMA TotalsAre ==
    ASSUME ValuesOK
    PROVE  /\ Totals[0] = 0 /\ Squares[0] = 0
           /\ \A k \in 0..samples : Totals[k] \in Int /\ Squares[k] \in Int
           /\ \A k \in 0..samples - 1 :
                 /\ values[k] \in Int
                 /\ Totals[k + 1] = Totals[k] + values[k]
                 /\ Squares[k + 1] = Squares[k] + values[k] * values[k]
<1> DEFINE squared == [i \in 0..samples - 1 |-> values[i] * values[i]]
<1>1. samples \in Nat /\ values \in [0..samples - 1 -> Int]
  BY DEF ValuesOK
<1>2. squared \in [0..samples - 1 -> Int]
  BY <1>1
<1>3. \A k \in 0..samples - 1 : squared[k] = values[k] * values[k]
  OBVIOUS
<1>4. Totals = SumsOf(values) /\ Squares = SumsOf(squared)
  BY DEF Totals, Squares
<1> HIDE DEF squared
<1>5. \A k \in 0..samples : Totals[k] \in Int /\ Squares[k] \in Int
  BY <1>1, <1>2, <1>4, SumsAreIntegers
<1>6. /\ Totals[0] = 0 /\ Squares[0] = 0
      /\ \A k \in 1..samples : /\ Totals[k] = Totals[k - 1] + values[k - 1]
                                /\ Squares[k] = Squares[k - 1] + squared[k - 1]
  BY <1>1, <1>4, SumsAre
<1>7. ASSUME NEW k \in 0..samples - 1
      PROVE  /\ values[k] \in Int
             /\ Totals[k + 1] = Totals[k] + values[k]
             /\ Squares[k + 1] = Squares[k] + values[k] * values[k]
  <2>1. k + 1 \in 1..samples /\ (k + 1) - 1 = k /\ values[k] \in Int
    BY <1>1
  <2>2. Totals[k + 1] = Totals[(k + 1) - 1] + values[(k + 1) - 1]
    BY <1>6, <2>1
  <2>3. Squares[k + 1] = Squares[(k + 1) - 1] + squared[(k + 1) - 1]
    BY <1>6, <2>1
  <2> QED
    BY <1>3, <2>1, <2>2, <2>3
<1> QED
  BY <1>5, <1>6, <1>7

LEMMA EmptyStands == StandsFor(empty, 0, 0, 0)
  BY DEF StandsFor, empty

(* What a partition gives stands for the samples of its range.              *)
LEMMA PartitionStands ==
    ASSUME ValuesOK, NEW start \in Nat, NEW count \in Nat, start + count <= samples
    PROVE  StandsFor(sample_partition(start, count), count,
                     Totals[start + count] - Totals[start],
                     Squares[start + count] - Squares[start])
<1> DEFINE T(k) == Totals[start + k] - Totals[start]
           Q(k) == Squares[start + k] - Squares[start]
           OK(k) == StandsFor(Turns(start, count)[k], k, T(k), Q(k))
           Wrong == {k \in 0..count : ~ OK(k)}
<1>1. samples \in Nat
  BY DEF ValuesOK
<1>2. ASSUME Wrong # {} PROVE FALSE
  <2>1. PICK k \in Wrong : \A l \in Wrong : k <= l
    <3>1. Wrong \in SUBSET Nat
      OBVIOUS
    <3> HIDE DEF Wrong
    <3> QED
      BY <1>2, <3>1, LeastNumber
  <2>2. k \in 0..count /\ ~ OK(k)
    BY <2>1
  <2>3. k # 0
    <3>1. Totals[start] \in Int /\ Squares[start] \in Int
      BY <1>1, TotalsAre
    <3>2. start + 0 = start /\ T(0) = 0 /\ Q(0) = 0
      BY <3>1
    <3> HIDE DEF T, Q
    <3>3. OK(0)
      BY <3>2, EmptyStands, TurnsAre
    <3> HIDE DEF OK
    <3> QED
      BY <2>2, <3>3
  <2> DEFINE i == start + k - 1
  <2>4. /\ k \in 1..count /\ k - 1 \in 0..count /\ k - 1 < k /\ (k - 1) + 1 = k
        /\ i \in 0..samples - 1 /\ i = start + (k - 1) /\ i + 1 = start + k
        /\ i \in 0..samples /\ start \in 0..samples
    BY <1>1, <2>2, <2>3
  <2>5. OK(k - 1)
    <3> HIDE DEF OK
    <3> QED
      BY <2>1, <2>4
  <2>6. /\ values[i] \in Int
        /\ T(k) = T(k - 1) + values[i]
        /\ Q(k) = Q(k - 1) + values[i] * values[i]
    <3> HIDE DEF i
    <3>1. /\ values[i] \in Int /\ Totals[i] \in Int /\ Squares[i] \in Int
          /\ Totals[start] \in Int /\ Squares[start] \in Int
          /\ Totals[i + 1] = Totals[i] + values[i]
          /\ Squares[i + 1] = Squares[i] + values[i] * values[i]
      BY <2>4, TotalsAre
    <3>2. /\ T(k) = Totals[i + 1] - Totals[start] /\ T(k - 1) = Totals[i] - Totals[start]
          /\ Q(k) = Squares[i + 1] - Squares[start] /\ Q(k - 1) = Squares[i] - Squares[start]
      BY <2>4
    <3> HIDE DEF T, Q
    <3>3. values[i] * values[i] \in Int
      BY <3>1
    <3> QED
      BY <3>1, <3>2, <3>3
  <2>7. Turns(start, count)[k] = Welford(Turns(start, count)[k - 1], values[i])
    BY <2>4, TurnsAre
  <2> HIDE DEF i, T, Q
  <2>8. StandsFor(Welford(Turns(start, count)[k - 1], values[i]),
                  (k - 1) + 1, T(k - 1) + values[i], Q(k - 1) + values[i] * values[i])
    BY <2>5, <2>6, WelfordStands
  <2>9. OK(k)
    BY <2>4, <2>6, <2>7, <2>8
  <2> HIDE DEF OK
  <2> QED
    BY <2>2, <2>9
<1> HIDE DEF OK
<1>3. OK(count)
  BY <1>2
<1> QED
  BY <1>3 DEF OK, sample_partition

-----------------------------------------------------------------------------
(* The ranges adjoin: each begins where the one before it ends.             *)

EndOf(k) == IF k = 0 THEN 0 ELSE ranges[k].sample_start + ranges[k].sample_count

Adjoining ==
    /\ \A k \in 1..index : ranges[k].sample_start = EndOf(k - 1)
    /\ sample_start = EndOf(index)

LEMMA PushAdjoins ==
    ASSUME LoopInv, Adjoining, Push
    PROVE  Adjoining'
<1> DEFINE r == [index |-> index, sample_start |-> sample_start,
                 sample_count |-> sample_count]
<1>1. /\ index \in Nat /\ sample_start \in Nat /\ ranges \in Seq(Range) /\ Len(ranges) = index
      /\ ranges' = Append(ranges, r)
      /\ sample_start' = sample_start + sample_count /\ index' = index + 1
  BY DEF LoopInv, TypeOK, RangesPushed, Push
<1>2. /\ ranges'[index + 1] = r
      /\ \A k \in 1..index : ranges'[k] = ranges[k]
  BY <1>1
<1>3. \A k \in 0..index : EndOf(k)' = EndOf(k)
  BY <1>1, <1>2 DEF EndOf
<1>4. \A k : k = index + 1 => sample_start' = EndOf(k)'
  BY <1>1, <1>2 DEF EndOf
<1>5. ASSUME NEW k \in 1..index + 1
      PROVE  ranges'[k].sample_start = EndOf(k - 1)'
  <2>1. k - 1 \in 0..index /\ EndOf(k - 1)' = EndOf(k - 1)
    BY <1>1, <1>3
  <2>2. CASE k = index + 1
    BY <1>1, <1>2, <2>1, <2>2 DEF Adjoining
  <2>3. CASE k \in 1..index
    BY <1>2, <2>1, <2>3 DEF Adjoining
  <2> QED
    BY <1>1, <2>2, <2>3
<1>6. sample_start' = EndOf(index)'
  <2>1. \A k : k = index' => sample_start' = EndOf(k)'
    BY <1>1, <1>4
  <2> QED
    BY <2>1 DEF EndOf
<1> QED
  BY <1>1, <1>5, <1>6 DEF Adjoining

(* The values are those of the samples, whatever the loop does.             *)
StatisticsInv == LoopInv /\ Adjoining /\ ValuesOK

LEMMA StatisticsAlways == StatisticsSpec => []StatisticsInv
<1>1. StatisticsInit => StatisticsInv
  <2> SUFFICES ASSUME StatisticsInit PROVE StatisticsInv
    OBVIOUS
  <2>1. LoopInv /\ samples \in Nat
    BY InitEstablishes, CountsAssumption DEF StatisticsInit, Init
  <2>2. Adjoining
    BY DEF StatisticsInit, Init, Adjoining, EndOf
  <2>3. values \in [0..samples - 1 -> Int]
    <3>1. CASE samples <= MostSampled
      BY <3>1, ValuesAssumption DEF StatisticsInit
    <3>2. CASE ~ (samples <= MostSampled)
      BY <2>1, <3>2 DEF StatisticsInit
    <3> QED
      BY <3>1, <3>2
  <2> QED
    BY <2>1, <2>2, <2>3 DEF StatisticsInv, ValuesOK
<1>2. StatisticsInv /\ [StatisticsNext]_<<vars, values>> => StatisticsInv'
  <2> SUFFICES ASSUME StatisticsInv, [StatisticsNext]_<<vars, values>>
               PROVE  StatisticsInv'
    OBVIOUS
  <2>1. [Next]_vars /\ values' = values
    BY DEF StatisticsNext
  <2>2. LoopInv'
    BY <2>1, StepPreserves DEF StatisticsInv
  <2>3. samples' = samples
    BY <2>1 DEF Next, Reject, Accept, Push, Return, vars
  <2>4. Adjoining'
    <3>1. CASE Push
      BY <3>1, PushAdjoins DEF StatisticsInv
    <3>2. CASE Reject \/ Accept \/ Return \/ UNCHANGED vars
      BY <3>2 DEF StatisticsInv, Adjoining, EndOf, Reject, Accept, Return, vars
    <3> QED
      BY <2>1, <3>1, <3>2 DEF Next
  <2> QED
    BY <2>1, <2>2, <2>3, <2>4 DEF StatisticsInv, ValuesOK
<1> QED
  BY <1>1, <1>2, PTL DEF StatisticsSpec

(* The merge of the first k partitions stands for the samples before the    *)
(* end of the k-th.                                                         *)
LEMMA MergedStands ==
    ASSUME StatisticsInv, pc = "ok"
    PROVE  /\ StandsFor(Aggregate, samples, Totals[samples], Squares[samples])
           /\ samples \in Nat
<1> DEFINE OK(k) == StandsFor(Merged[k], EndOf(k), Totals[EndOf(k)], Squares[EndOf(k)])
           Wrong == {k \in 0..index : ~ OK(k)}
<1>1. /\ ValuesOK /\ LoopInv /\ Adjoining /\ samples \in Nat /\ index \in Nat
      /\ Len(ranges) = index /\ ranges \in Seq(Range)
  BY DEF StatisticsInv, ValuesOK, LoopInv, TypeOK, RangesPushed
<1>2. \A k \in 1..index : /\ ranges[k].sample_start \in Nat /\ ranges[k].sample_count \in Nat
                         /\ ranges[k].sample_start = EndOf(k - 1)
                         /\ EndOf(k) = EndOf(k - 1) + ranges[k].sample_count
                         /\ EndOf(k) <= samples
  <2>1. \A k \in 1..index : ranges[k] \in Range
    BY <1>1
  <2>2. EverySampleDrawn
    BY <1>1, InvariantCovers
  <2> QED
    BY <1>1, <2>1, <2>2 DEF Range, Adjoining, EndOf, EverySampleDrawn
<1>3. EndOf(index) = samples
  <2>1. sample_start = samples
    BY <1>1, LoopEnds
  <2> QED
    BY <1>1, <2>1 DEF Adjoining
<1>4. ASSUME Wrong # {} PROVE FALSE
  <2>1. PICK k \in Wrong : \A l \in Wrong : k <= l
    <3>1. Wrong \in SUBSET Nat
      OBVIOUS
    <3> HIDE DEF Wrong
    <3> QED
      BY <1>4, <3>1, LeastNumber
  <2>2. k \in 0..index /\ ~ OK(k)
    BY <2>1
  <2>3. k # 0
    <3>1. OK(0)
      BY <1>1, EmptyStands, MergedAre, TotalsAre DEF EndOf
    <3> HIDE DEF OK
    <3> QED
      BY <2>2, <3>1
  <2>4. k \in 1..index /\ k - 1 \in 0..index /\ k - 1 < k
    BY <1>1, <2>2, <2>3
  <2>5. OK(k - 1)
    <3> HIDE DEF OK
    <3> QED
      BY <2>1, <2>4
  <2> DEFINE from == EndOf(k - 1)
             upto == EndOf(k)
             count == ranges[k].sample_count
  <2>6. /\ from \in Nat /\ count \in Nat /\ upto = from + count /\ upto <= samples
        /\ ranges[k].sample_start = from
    BY <1>2, <2>4
  <2>7. Merged[k] = merge(Merged[k - 1], sample_partition(from, count))
    BY <1>1, <2>4, <2>6, MergedAre DEF Part
  <2>8. StandsFor(Merged[k - 1], from, Totals[from], Squares[from])
    BY <2>5
  <2> HIDE DEF from, upto, count, OK
  <2>9. StandsFor(sample_partition(from, count), count,
                  Totals[upto] - Totals[from], Squares[upto] - Squares[from])
    BY <1>1, <2>6, PartitionStands
  <2>10. StandsFor(Merged[k], from + count,
                   Totals[from] + (Totals[upto] - Totals[from]),
                   Squares[from] + (Squares[upto] - Squares[from]))
    BY <2>7, <2>8, <2>9, MergeStands
  <2>11. /\ Totals[from] + (Totals[upto] - Totals[from]) = Totals[upto]
         /\ Squares[from] + (Squares[upto] - Squares[from]) = Squares[upto]
    <3>1. from \in 0..samples /\ upto \in 0..samples
      BY <1>1, <2>6
    <3>2. /\ Totals[from] \in Int /\ Totals[upto] \in Int
          /\ Squares[from] \in Int /\ Squares[upto] \in Int
      BY <1>1, <3>1, TotalsAre
    <3> QED
      BY <3>2
  <2>12. StandsFor(Merged[k], upto, Totals[upto], Squares[upto])
    BY <2>6, <2>10, <2>11
  <2>13. OK(k)
    BY <2>12 DEF OK, upto
  <2> QED
    BY <2>2, <2>13
<1> HIDE DEF OK
<1>5. OK(index)
  BY <1>1, <1>4
<1> QED
  BY <1>1, <1>3, <1>5 DEF OK, Aggregate

(* Whatever the values of the samples, however many there are and however   *)
(* many partitions they are divided into: the partitions' statistics,       *)
(* merged by merge, give finalize_result the mean and the sample variance   *)
(* of all the samples.  (In exact numbers: f64 rounds.)                     *)
THEOREM DividedStatisticsAreAlwaysExact == StatisticsSpec => []DividedStatisticsAreExact
<1>1. StatisticsInv => DividedStatisticsAreExact
  <2> SUFFICES ASSUME StatisticsInv, pc = "ok", samples >= 2
               PROVE  LET total  == Totals[samples]
                          square == Squares[samples]
                          result == finalize_result(Aggregate)
                      IN  /\ Aggregate.sample_count = samples
                          /\ Denotes(result.mean, total, samples)
                          /\ Denotes(result.variance, samples * square - total * total,
                                     samples * (samples - 1))
    BY DEF DividedStatisticsAreExact
  <2> DEFINE t == Totals[samples]
             q == Squares[samples]
             e == samples * q - t * t
             variance == Over(Aggregate.squared_deviation_sum, samples - 1)
  <2>1. StandsFor(Aggregate, samples, t, q) /\ samples \in Nat
    BY MergedStands
  <2> HIDE DEF t, q
  <2>2. /\ Aggregate.sample_count = samples /\ samples - 1 \in Nat \ {0}
        /\ Is(Aggregate.mean, t, samples) /\ Is(Aggregate.squared_deviation_sum, e, samples)
    BY <2>1 DEF StandsFor
  <2>3. finalize_result(Aggregate) = [mean |-> Aggregate.mean, variance |-> variance]
    BY <2>2 DEF finalize_result
  <2> HIDE DEF e, variance
  <2>4. Is(variance, e, samples * (samples - 1))
    BY <2>2, OverIs DEF variance
  <2>5. /\ Denotes(Aggregate.mean, t, samples)
        /\ Denotes(variance, e, samples * (samples - 1))
    BY <2>2, <2>4 DEF Is, Denotes, Fractions
  <2> QED
    BY <2>2, <2>3, <2>5 DEF t, q, e
<1> QED
  BY <1>1, StatisticsAlways, PTL

=============================================================================
