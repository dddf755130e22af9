SPECIFICATION Spec
CONSTANTS
    tick = tick
    owner = owner
    Payers <- OneTick
    Instant <- Nobody
    Fee = 0
    MinPayout = 1
    MaxPayouts = 1
    MaxEarned = 2
    MaxReversals = 1
    MaxRepeats = 0
    Errors <- EveryError
    Rollup = TRUE
INVARIANT NothingCountedTwice
CHECK_DEADLOCK FALSE
