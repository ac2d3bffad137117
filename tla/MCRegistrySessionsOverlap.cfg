SPECIFICATION Spec
CONSTANTS
    Callers = {c1, c2}
    User = u
    Others = {o}
    MaximumUses = 2
    DeviceLock = TRUE
    Due = 1
    AccessLife = 1
    RefreshLife = 2
    MaxClock = 3
    MaxTokens = 3
    MaxTrouble = 2
INVARIANT CacheIsNeverSetBack
CHECK_DEADLOCK FALSE
