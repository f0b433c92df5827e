\* Two jobs of any kind, two workers and a run-by-id request, one fault.
CONSTANTS
    Roots = {r1, r2}
    MaxPartitions = 2
    Requests <- MixedRequests
    Workers = {w1, w2}
    Runners = {c1}
    WorkerMaxRetries = 2
    FaultKinds = {"abandon", "save"}
    MaxFaults = 1
SPECIFICATION Spec
SYMMETRY Symmetry
INVARIANTS
    TypeOK
    ClaimIsExclusive
    CompletionIsExact
    FailureIsExact
    RunningIntegrationHasWork
    BudgetRespected
    OrphansNeedFaults
PROPERTIES
    TerminalIsFinal
    AttemptsAreCounted
