\* Two jobs, two processes, one is stopped: everything posted is still decided.
CONSTANTS
    Roots = {r1, r2}
    MaxPartitions = 2
    Requests <- FiniteRequests
    Workers = {w1, w2}
    Stopping = {w1}
    Runners = {}
    WorkerMaxRetries = 2
    FaultKinds = {}
    MaxFaults = 0
SPECIFICATION ShutdownFairSpec
INVARIANTS
    ShutdownTypeOK
    StopLeavesNoOrphan
    AtMostOneLateClaim
PROPERTIES
    EveryJobIsDecided
    StopIsHeeded
