SPECIFICATION Spec
CONSTANTS
    NParts = 2
    PageSize = 1
    MaxAttempts = 2
    MaxFaults = 0
    MaxClientCrashes = 1
    MaxRegistryCrashes = 0
    MaxPauses = 0
    MaxUploads = 1
INVARIANTS OnlyMissingPartsSent
CHECK_DEADLOCK FALSE
