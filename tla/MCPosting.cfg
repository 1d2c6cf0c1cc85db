SPECIFICATION MCSpec
CONSTANTS
    me = me
    al = al
    ro = ro
    fe = fe
    st = st
    bs = bs
    relay = relay
    None = None
    Nil = Nil
    Out = Out
    Names <- MCNames
    Candidates <- MCMembers
    Fedi = {"fe"}
    Visible = {"bs"}
    MaxLists = 2
    MaxMembers = 2
    SyncAttempts = 2
    Relays = {"r1", "r2"}
    ListScripts <- MCListScripts
    Actors <- MCActors
    Local <- MCLocal
    MaxDepth = 3
    PostIds <- MCPostIds
    IdsPerTick = 2
    WindowAges <- MCWindowAges
    LateralMaxTargets = 1
    Limits = {2}
    Untils <- MCUntils
    Sinces <- MCSinces
    Tables <- MCTables
    MaxChanges = 1
CHECK_DEADLOCK FALSE
INVARIANTS PagesShowVisible PagesHaveNoHole PrivacyKept PostsAccounted ListsSettle
