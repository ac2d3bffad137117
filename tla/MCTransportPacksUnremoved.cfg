SPECIFICATION Spec
CONSTANTS
    Sources <- MCSources
    MaxMember = 2
    Target = 3
    Budget = 4
    NParts = 2
    MaxEdits = 0
    MaxCrashes = 0
    MaxFailures = 1
INVARIANTS CacheWithinBudgetAndForgotten
CHECK_DEADLOCK FALSE
