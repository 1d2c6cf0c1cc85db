SPECIFICATION MCSpec
CONSTANTS
    None = None
    w1 = w1
    w2 = w2
    me = me
    bs = bs
    bt = bt
    Workers = {w1, w2}
    Items = {1, 2}
    MaxAttempts = 2
    MaxTokens = 2
    MaxFaults = 1
    MaxLockLosses = 1
    MaxRecoveries = 1
    MaxLimited = 1
    Actors = {me, bs, bt}
    Local = {me}
    MaxDepth = 3
    Calls = {1, 2}
    PageSize = 2
    MaxPages = 3
    MaxMessages = 4
    MaxReactions = 1
    DmAttempts = 2
    Scripts <- MCOther
    Parts = {"dm"}
INVARIANT SentToRecipient
CHECK_DEADLOCK FALSE
