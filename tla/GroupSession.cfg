SPECIFICATION GroupFairSpec
CONSTANTS
    ann = ann
    bob = bob
    p1 = p1
    p2 = p2
    j1 = j1
    j2 = j2
    u1 = u1
    u2 = u2
    host = host
    hostAgain = hostAgain
    scheduled = scheduled
    People <- TwoPeople
    Rows <- TwoRows
    Jobs <- TwoJobs
    Calls <- TwoCalls
    Closers <- HostAndScheduler
    Scheduler = scheduled
    MaxCrashes = 1
INVARIANTS
    CodeKept
PROPERTIES
    ClosedStaysSettled
    ExpiredCloses
