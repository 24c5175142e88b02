CONSTANTS
    Blocks = {l1, l2, l3}
    Roots = {db1, db2}
    Series = {tra}
    QueuedSeries = {tra}
    Keys = {k1, k2}
    Data = {0, 1, 2}
    MaxRequests = 4
    NoRoot = NoRoot
    NoName = NoName
SYMMETRY Interchangeable
SPECIFICATION Spec
INVARIANTS ExtremesExact CountExact
