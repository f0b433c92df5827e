\* The README: WORKER_MAX_RETRIES failed attempts and a job becomes failed.
CONSTANTS
    Roots = {r1, r2}
    MaxPartitions = 2
    Requests <- OverflowRequests
    Workers = {w1, w2}
    Runners = {}
    WorkerMaxRetries = 2
    FaultKinds = {}
    MaxFaults = 0
SPECIFICATION FairSpec
PROPERTIES
    EveryJobIsDecided
