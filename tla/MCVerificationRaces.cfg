SPECIFICATION Spec
CONSTANTS
    Transfers = {t1}
    Objects = {o1, o2}
    Workers = {w1, w2}
    MaxAttempts = 2
    MaxFinalizers = 2
    MaxUploads = 2
    MaxAgain = 1
    MaxCrashes = 1
    MaxDeletes = 1
SYMMETRY Symmetry
INVARIANTS TypeOK CompleteIsVerified AttemptsAreExclusive
PROPERTIES DeletedIsGone
CHECK_DEADLOCK FALSE
