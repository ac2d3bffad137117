SPECIFICATION FairSpec
CONSTANTS
    Transfers = {t1, t2}
    Objects = {o1}
    Workers = {w1}
    MaxAttempts = 2
    MaxFinalizers = 1
    MaxUploads = 1
    MaxAgain = 0
    MaxCrashes = 1
    MaxDeletes = 1
PROPERTIES ImplementsRegistryTransfer FailedAwaitsOperator SettlesWithinBudget
CHECK_DEADLOCK FALSE
