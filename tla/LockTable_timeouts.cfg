CONSTANTS
    Owners = {o1, o2, o3}
    Locks = {l1}
    Requests = {r1, r2, r3}
    Levels <- MixedLevels
    Waits = {"timed"}
    AstArgs = {FALSE}
    LOCK_ordering = TRUE
    MaxLocks = 1
    MaxCrashes = 0
    Calls = {}
    NoOwner = NoOwner
    NoLock = NoLock
    NoReq = NoReq
SYMMETRY Interchangeable
SPECIFICATION Spec
INVARIANTS CountsExact NoForgottenGrant GrantedCompatible
PROPERTIES NoOvertaking
