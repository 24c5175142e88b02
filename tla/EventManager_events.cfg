CONSTANTS
    p1 = p1
    p2 = p2
    e1 = e1
    e2 = e2
    db1 = db1
    Proc = {p1, p2}
    Session = {1, 2, 3}
    Owner <- ThreeSessions
    Event = {e1, e2}
    Major = {db1}
    Parent <- OneMajor
    EventBlocks <- BothEvents
    Postings <- OneEvent
    Counts = {2}
    MaxPosts = 2
    MaxRequests = 2
    MaxCrashes = 1
    NoProc = NoProc
CHECK_DEADLOCK FALSE
SPECIFICATION FairSpec
INVARIANTS TypeOK ExactCounts BlocksExact NoLostWakeup
PROPERTIES Delivered
