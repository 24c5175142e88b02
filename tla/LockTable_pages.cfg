CONSTANTS
    Owners = {o1, o2}
    Locks = {l1}
    Requests = {r1, r2}
    Levels <- PageLevels
    Waits = {"nowait", "wait"}
    AstArgs = {TRUE}
    LOCK_ordering = TRUE
    MaxLocks = 1
    MaxCrashes = 1
    Calls = {"convert", "downgrade", "prior", "repost"}
    NoOwner = NoOwner
    NoLock = NoLock
    NoReq = NoReq
SYMMETRY Interchangeable
SPECIFICATION Spec
INVARIANTS TypeOK CountsExact QueuesExact EngineAgrees NoMissedDeadlock BlockageStaysOnLock
PROPERTIES GrantKept
