SPECIFICATION FairSpec
CONSTANTS
    s1 = s1
    s2 = s2
    d1 = d1
    d2 = d2
    NoShop = NoShop
    Sweep = Sweep
    Shops <- OneShop
    Home = s1
    Deliveries <- OneDelivery
    Marketplace = FALSE
    RenderOn = TRUE
    Consumers <- OnlyWorker
    Unhurried = TRUE
    FaultKinds <- RenderFaults
    MaxFaults = 4
    MaxSweeps = 1
    MaxAttempts = 3
    WindowAttempts = 1
INVARIANT RenderedWhenOffered
PROPERTIES
    HandedOverStays
    PaidSettles
CHECK_DEADLOCK FALSE
