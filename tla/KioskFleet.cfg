SPECIFICATION FairSpec
CONSTANTS
    k1 = k1
    beat = beat
    owner = owner
    a1 = a1
    a2 = a2
    Kiosks <- OneKiosk
    Beats <- OneBeat
    Editors <- OneEditor
    Alerts <- TwoAlerts
    OfflineAfter = 2
    Cooldown = 3
    MaxEdits = 1
    MaxKeys = 1
    MaxCrashes = 1
INVARIANTS
    TypeOK
    OneMailPerCooldown
PROPERTIES
    StaysOut
    SilentGoesOffline
