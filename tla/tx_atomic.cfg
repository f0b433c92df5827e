\* One integration of two or three partitions, statement by statement.
CONSTANTS
    Roots = {r1}
    MaxPartitions = 3
    Requests <- Integrals
    Workers = {w1, w2}
    Runners = {c1}
    WorkerMaxRetries = 1
    FaultKinds = {"abandon", "save", "reply", "clear"}
    MaxFaults = 1
    Clearer = clearer
    Nobody = nobody
SPECIFICATION TxSpec
SYMMETRY Symmetry
INVARIANTS
    TxTypeOK
    WorkersNeverDeadlock
PROPERTIES
    TransactionIsAtomic
\* Once everything posted is cleared and every agent idle, nothing is left to do.
CHECK_DEADLOCK FALSE
