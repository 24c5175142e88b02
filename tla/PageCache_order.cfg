SPECIFICATION Spec
CONSTANTS
    p1 = p1  p2 = p2  t1 = t1 t2 = t2  t3 = t3
    Proc = {p1, p2}
    Page = {1, 2, 3}
    Tra = {t1}
    TraOf <- OnlyP1
    MustWrite = {}
    Buffers = 3
    MaxWindows = 2
    MaxFetches <- Four_one
    MaxChanges = 3
    MaxFailures = 0
    MaxCrashes = 0
INVARIANTS DiskConsistent
CONSTRAINT OneWriter
CHECK_DEADLOCK FALSE
