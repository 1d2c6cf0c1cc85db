SPECIFICATION Spec
CONSTANTS
    c1 = c1
    c2 = c2
    Copies = {c1, c2}
    MaxAttempts = 3
    RetryDelays = {1, 2}
    SettleTimeout = 3
    MaxTime = 5
    MaxPolls = 2
    MaxFaults = 0
    MaxRestarts = 1
INVARIANT CommittedOnce
CHECK_DEADLOCK FALSE
