\* Two jobs: polls pass over locked rows of the older to claim the younger.
CONSTANTS
    Roots = {r1, r2}
    MaxPartitions = 2
    Requests <- IntegralAndPi
    Workers = {w1, w2}
    Runners = {}
    WorkerMaxRetries = 1
    FaultKinds = {}
    MaxFaults = 0
    Clearer = clearer
    Nobody = nobody
SPECIFICATION TxSpec
SYMMETRY Symmetry
PROPERTIES
    TransactionIsAtomic
\* Once everything posted is cleared and every agent idle, nothing is left to do.
CHECK_DEADLOCK FALSE
