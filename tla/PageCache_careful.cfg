SPECIFICATION FairSpec
CONSTANTS
    p1 = p1  p2 = p2  t1 = t1 t2 = t2  t3 = t3
    Proc = {p1, p2}
    Page = {1, 2, 3}
    Tra = {t1}
    TraOf <- OnlyP1
    MustWrite = {1}
    Buffers = 2
    MaxWindows = 1
    MaxFetches <- Three_one
    MaxChanges = 2
    MaxFailures = 0
    MaxCrashes = 0
INVARIANTS PrecedenceAcyclic
PROPERTIES Answered CarefulWrite
CHECK_DEADLOCK FALSE
