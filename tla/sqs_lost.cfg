\* The test of distributed integration: partitions completed, so is the parent.
CONSTANTS
    Roots = {r1}
    MaxPartitions = 2
    Requests <- CompletingPartitions
    Workers = {w1, w2}
    Runners = {}
    WorkerMaxRetries = 2
    FaultKinds = {}
    QueueFaultKinds = {"enqueue"}
    DeadLetterQueue = FALSE
    MaxFaults = 1
SPECIFICATION SqsSpec
INVARIANT
    CompletedPartitionsCompleteTheParent
