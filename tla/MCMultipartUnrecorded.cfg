SPECIFICATION FairSpec
CONSTANTS
    NParts = 1
    PageSize = 1000
    MaxAttempts = 2
    MaxFaults = 0
    MaxClientCrashes = 0
    MaxRegistryCrashes = 1
    MaxPauses = 0
    MaxUploads = 2
PROPERTIES EventuallyFinalized
CHECK_DEADLOCK FALSE
