CONSTANTS
    Owners = {o1, o2}
    Locks = {l1}
    Requests = {r1, r2}
    Levels <- ExclusiveLevel
    Waits = {"wait"}
    AstArgs = {TRUE}
    LOCK_ordering = TRUE
    MaxLocks = 1
    MaxCrashes = 1
    Calls = {"fini"}
    NoOwner = NoOwner
    NoLock = NoLock
    NoReq = NoReq
SPECIFICATION FairSpec
PROPERTIES WaitEnds
