SPECIFICATION MCSpec
CONSTANTS
    me = me
    al = al
    rs = rs
    fe = fe
    ann = ann
    bob = bob
    n1 = n1
    n2 = n2
    n3 = n3
    n4 = n4
    n5 = n5
    l1 = l1
    None = None
    Actors <- MCActors
    Local <- MCLocal
    Kind <- MCKind
    Calls = {1, 2}
    Ops = {"Follow", "Unfollow", "Block", "Unblock", "Approve", "Reject", "BulkAccept", "WithdrawAll",
           "InFollow", "InUndo", "InUndoBlock", "InBlock", "InAccept", "InMove", "SetLocked", "Withdraw", "Poll"}
    Pairs <- MCPairs
    StartLocked <- MCStartLocked
    MovesTo <- MCMoves
    MaxCalls = 3
    MaxFaults = 1
INVARIANTS FollowsKept HalvesMeet IngestExact
PROPERTY CallsSettle
