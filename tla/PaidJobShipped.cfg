SPECIFICATION FairSpec
CONSTANTS
    s1 = s1
    s2 = s2
    d1 = d1
    d2 = d2
    NoShop = NoShop
    Sweep = Sweep
    Shops <- OneShop
    Home = s1
    Deliveries <- OneDelivery
    Marketplace = FALSE
    RenderOn = TRUE
    Consumers <- OnlyRenderWorker
    Unhurried = TRUE
    FaultKinds <- NoFaults
    MaxFaults = 0
    MaxSweeps = 1
    MaxAttempts = 3
    WindowAttempts = 1
PROPERTIES
    CallbackFlips
CHECK_DEADLOCK FALSE
