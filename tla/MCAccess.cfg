SPECIFICATION MCSpec
CONSTANTS
    None = None
    w1 = w1
    w3 = w3
    address = address
    knownApp = knownApp
    other = other
    session = session
    movedDid = movedDid
    Writers = {w1, w3}
    Broadcasters = {w3}
    MaxIds = 3
    BackfillPageSize = 1
    Capacity = 1
    MaxDisconnects = 2
    MaxFaults = 1
    AccountScripts <- MCScripts
    MigrationScripts <- MCMigrationScripts
    Parts = {"relay", "accounts", "migration"}
INVARIANTS RelaySafe AccessKept IdentityKept ImportComplete
PROPERTIES EventsArrive
CHECK_DEADLOCK FALSE
