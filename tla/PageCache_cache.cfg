SPECIFICATION Spec
CONSTANTS
    p1 = p1  p2 = p2  t1 = t1 t2 = t2  t3 = t3
    Proc = {p1, p2}
    Page = {1, 2}
    Tra = {t1, t2, t3}
    TraOf <- TwoOne
    MustWrite = {}
    Buffers = 2
    MaxWindows = 2
    MaxFetches <- Two_two
    MaxChanges = 2
    MaxFailures = 1
    MaxCrashes = 1
INVARIANTS TypeOK Coherent Durable
SYMMETRY TraSymmetry
CHECK_DEADLOCK FALSE
