\* One job of up to three partitions, every fault up to twice, and what is read of it.
\* (The workers are symmetric in every formula, and no fairness is assumed.)
CONSTANTS
    Roots = {r1}
    MaxPartitions = 3
    Requests <- ContractRequests
    Workers = {w1, w2, w3}
    Runners = {c1}
    WorkerMaxRetries = 2
    FaultKinds = {"abandon", "save", "reply", "clear"}
    MaxFaults = 2
SPECIFICATION Spec
SYMMETRY WorkerSymmetry
INVARIANT
    CompletionIsExact
PROPERTIES
    ImplementsContract
    CompletedShowsEveryPartition
    ProgressNeverGoesBack
