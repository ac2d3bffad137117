SPECIFICATION FairSpec
CONSTANTS
    Objects = {o1}
    Pollers = {p1}
    MaxVersion = 2
    MaxCrashes = 1
    MaxFaults = 0
    MaxPauses = 0
    MaxExchanges = 0
    MaxRetries = 0
    MaxDeletes = 0
PROPERTIES OutcomeIsShown
CHECK_DEADLOCK FALSE
