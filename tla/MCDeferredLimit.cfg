SPECIFICATION Spec
CONSTANTS
    c1 = c1
    c2 = c2
    Copies = {c1}
    MaxAttempts = 20
    RetryDelays = {3, 4}
    SettleTimeout = 70
    MaxTime = 80
    MaxPolls = 1
    MaxFaults = 0
    MaxRestarts = 0
INVARIANT FallbackFirst
CHECK_DEADLOCK FALSE
