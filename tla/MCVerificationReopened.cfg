SPECIFICATION Spec
CONSTANTS
    Transfers = {t1}
    Objects = {o1}
    Workers = {w1}
    MaxAttempts = 1
    MaxFinalizers = 1
    MaxUploads = 2
    MaxAgain = 1
    MaxCrashes = 0
    MaxDeletes = 0
INVARIANTS CompleteObjectsVerified
CHECK_DEADLOCK FALSE
