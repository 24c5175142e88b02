CONSTANTS
    Owners = {o1, o2}
    Locks = {l1}
    Requests = {r1, r2, r3}
    Levels <- PageLevels
    Waits = {"wait"}
    AstArgs = {TRUE}
    LOCK_ordering = TRUE
    MaxLocks = 1
    MaxCrashes = 1
    Calls = {"dup"}
    NoOwner = NoOwner
    NoLock = NoLock
    NoReq = NoReq
SYMMETRY Interchangeable
SPECIFICATION StraySpec
INVARIANTS FreedOwnerBlocksNobody
