SPECIFICATION FairSpec
CONSTANTS
    p1 = p1
    p2 = p2
    j1 = j1
    j2 = j2
    Procs = {p1, p2}
    Jobs = {j1, j2}
    Priority <- MCPriority
    MaxAttempts <- MCMaxAttempts
    MaxConcurrent = 1
    MaxFaults = 1
    MaxStops = 1
    PromoteBatchLimit = 1
    Undecodable <- MCUndecodable
INVARIANT QueueSafe
PROPERTIES CleanStop ImplementsLifecycle QueueProgresses
