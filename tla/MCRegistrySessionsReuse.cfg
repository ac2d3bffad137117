SPECIFICATION Spec
CONSTANTS
    Callers = {c1, c2}
    User = u
    Others = {o}
    MaximumUses = 2
    DeviceLock = TRUE
    Due = 1
    AccessLife = 2
    RefreshLife = 3
    MaxClock = 4
    MaxTokens = 3
    MaxTrouble = 0
INVARIANTS RefreshTokensAreNotReused
CHECK_DEADLOCK FALSE
