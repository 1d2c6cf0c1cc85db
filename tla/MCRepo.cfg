SPECIFICATION MCSpec
CONSTANTS
    a1 = a1
    a2 = a2
    w1 = w1
    w2 = w2
    w3 = w3
    p1 = p1
    nothing = nothing
    NoPost = NoPost
    Actors = {a1, a2}
    Posts = {p1}
    Keys = {"self"}
    Writers = {w1, w2, w3}
    Workloads <- MCWorkloads
    MaxSerializationRetries = 3
    MaxFaults = 1
    Parts = {"commits", "tree"}
INVARIANTS RepoSafe RepoReads
PROPERTIES CallsEnd ImplementsEventLog
CHECK_DEADLOCK FALSE
