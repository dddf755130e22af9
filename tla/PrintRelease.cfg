SPECIFICATION FairSpec
CONSTANTS
    j1 = j1
    j2 = j2
    k1 = k1
    k2 = k2
    op1 = op1
    op2 = op2
    NoKiosk = NoKiosk
    Jobs <- TwoJobs
    Kiosks <- TwoKiosks
    Operators <- OneConsole
    ItemCount = 2
    MaxGrants = 2
    MaxFaults = 1
INVARIANTS
    TypeOK
    OneHolder
    RunsWithinGrants
    DoneMeansPrinted
PROPERTIES
    DoneIsFinal
    GrantsKept
    ReleaseSettles
CHECK_DEADLOCK FALSE
