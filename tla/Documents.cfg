SPECIFICATION FairSpec
CONSTANTS
    c1 = c1
    r1 = r1
    r2 = r2
    d1 = d1
    d2 = d2
    Clients <- OneClient
    Requests <- TwoRequests
    Docs <- TwoDocs
    Retention = 1
    MaxHour = 1
    MaxFaults = 1
    Stores <- DiskAndCloud
INVARIANTS
    TypeOK
    OneJobPerKey
    TwiceOnlyByRace
    KeepsDocument
PROPERTIES
    DocumentGoes
