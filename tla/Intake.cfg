SPECIFICATION Spec
CONSTANTS
    r1 = r1
    r2 = r2
    Requests <- BothRequests
    Sizes <- OneOrTwo
    PerPage = 4
    Promotions <- Everything
    MaxUses = 1
    MaxEdits = 2
    MaxFaults = 2
INVARIANTS
    NeverOversold
    PaidInFull
SYMMETRY Symmetric
CHECK_DEADLOCK FALSE
