SPECIFICATION Spec
CONSTANTS
    Transfers = {t1}
    Objects = {o1}
    Workers = {w1}
    MaxAttempts = 2
    MaxFinalizers = 2
    MaxUploads = 2
    MaxAgain = 1
    MaxCrashes = 0
    MaxDeletes = 0
PROPERTIES FailedAwaitsOperator
CHECK_DEADLOCK FALSE
