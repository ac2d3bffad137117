SPECIFICATION FairSpec
CONSTANTS
    Transfers = {t1}
    Objects = {o1}
    Workers = {w1}
    MaxAttempts = 2
    MaxFinalizers = 1
    MaxUploads = 2
    MaxAgain = 1
    MaxCrashes = 1
    MaxDeletes = 0
PROPERTIES QueuedReachesVerdict
CHECK_DEADLOCK FALSE
