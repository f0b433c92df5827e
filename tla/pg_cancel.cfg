\* The test of the cancelling: no partition is PENDING once the parent is FAILED.
CONSTANTS
    Roots = {r1}
    MaxPartitions = 2
    Requests <- FailingPartitions
    Workers = {w1, w2}
    Runners = {}
    WorkerMaxRetries = 2
    FaultKinds = {}
    MaxFaults = 0
SPECIFICATION Spec
INVARIANT
    FailedParentHasNoPendingPartition
