\* partition_samples for every number of samples and of partitions up to 14,
\* and what the partitions add up to.
CONSTANTS
    SampleCounts <- Small
    PartitionCounts <- Small
    Values <- FewValues
    MostSampled = 6
SPECIFICATION StatisticsSpec
INVARIANTS
    NoSampleTwice
    EverySampleDrawn
    SharesAreEven
    DividedStatisticsAreExact
\* The function returns.
CHECK_DEADLOCK FALSE
