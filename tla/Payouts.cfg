SPECIFICATION Spec
CONSTANTS
    tick = tick
    owner = owner
    Payers <- OneOwner
    Instant <- OneOwner
    Fee = 2
    MinPayout = 1
    MaxPayouts = 2
    MaxEarned = 5
    MaxReversals = 0
    MaxRepeats = 1
    Errors <- Rejected
    Rollup = FALSE
INVARIANTS
    NoOverdraft
    RowTellsTruth
    AskedOncePerRow
PROPERTIES
    LedgerKept
CHECK_DEADLOCK FALSE
