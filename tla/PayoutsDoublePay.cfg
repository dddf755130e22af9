SPECIFICATION Spec
CONSTANTS
    tick = tick
    owner = owner
    Payers <- Both
    Instant <- OneOwner
    Fee = 0
    MinPayout = 1
    MaxPayouts = 2
    MaxEarned = 1
    MaxReversals = 0
    MaxRepeats = 0
    Errors <- NoErrors
    Rollup = FALSE
INVARIANT NoOverdraft
CHECK_DEADLOCK FALSE
