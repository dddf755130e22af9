SPECIFICATION Spec
CONSTANTS
    s1 = s1
    s2 = s2
    d1 = d1
    d2 = d2
    NoShop = NoShop
    Sweep = Sweep
    Shops <- TwoShops
    Home = s1
    Deliveries <- TwoDeliveries
    Marketplace = TRUE
    RenderOn = TRUE
    Consumers <- Both
    Unhurried = FALSE
    FaultKinds <- MoneyAndQueueFaults
    MaxFaults = 1
    MaxSweeps = 1
    MaxAttempts = 1
    WindowAttempts = 2
INVARIANTS
    TypeOK
    PaidBeforeOffered
    ApprovedBeforeReady
    
SYMMETRY Symmetric
CHECK_DEADLOCK FALSE
