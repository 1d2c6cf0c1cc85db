SPECIFICATION MCSpec
CONSTANTS
    None = None
    ann = ann
    bob = bob
    p1 = p1
    p2 = p2
    j1 = j1
    j2 = j2
    j3 = j3
    Processes = {p1, p2}
    AcquireRetryInterval = 1
    LockCheckInterval = 2
    StopTimeout = 2
    PingTime = 1
    MaxLosses = 2
    MaxErrors = 1
    MaxExits = 1
    Procs = {p1}
    Jobs = {j1, j2, j3}
    Priority <- MCPriority
    MaxAttempts <- MCMaxAttempts
    MaxConcurrent = 2
    MaxFaults = 1
    MaxStops = 1
INVARIANTS LeaderSafe MediaServed
PROPERTIES LeaderTakenOver StartsInOrder JobsSettle ImplementsLifecycle OvertakingBounded MediaCollected
CHECK_DEADLOCK FALSE
