\* One job of any kind, any one fault but a lost reply of a commit: a message is there as long as it is needed.
CONSTANTS
    Roots = {r1}
    MaxPartitions = 2
    Requests <- QueuedRequests
    Workers = {w1, w2}
    Runners = {c1}
    WorkerMaxRetries = 2
    FaultKinds = {"abandon", "save", "clear"}
    QueueFaultKinds = {"send", "enqueue", "delete", "dead_letter", "redrive"}
    DeadLetterQueue = TRUE
    MaxFaults = 1
SPECIFICATION SqsFairSpec
INVARIANTS
    SqsTypeOK
    OnlyLossStrandsJobs
    DeadLetteredIsFailed
    ExhaustedIsDeadLettered
    RedeliveryIsHarmless
PROPERTIES
    TerminalIsFinal
    QueueDrains
\* Once everything posted is decided and the queue is empty, nothing is left to do.
CHECK_DEADLOCK FALSE
