SPECIFICATION Spec
CONSTANTS
    q1 = q1
    q2 = q2
    q3 = q3
    Requests <- Three
    FaultKinds <- EveryFault
    Modes <- BothModes
    MaxFaults = 2
    MaxPrints = 1
INVARIANTS
    TypeOK
    PaidBeforeReleased
    CreditedAsCharged
    RetriesDoNotCharge
    RetriesDoNotRelease
SYMMETRY Symmetric
