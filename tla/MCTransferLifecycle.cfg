SPECIFICATION FairSpec
CONSTANTS
    Objects = {o1, o2}
    Pollers = {p1, p2}
    MaxVersion = 3
    MaxCrashes = 1
    MaxFaults = 1
    MaxPauses = 1
    MaxExchanges = 1
    MaxRetries = 1
    MaxDeletes = 1
INVARIANTS RegisteredOnce ManifestIsNeverRefused ShownVerdictIsTheRegistrys
PROPERTIES NeverMovesBackward OutcomeIsShownIfKnown
CHECK_DEADLOCK FALSE
