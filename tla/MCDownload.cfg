SPECIFICATION FairSpec
CONSTANTS
    Desktop = {"a", "b"}
    Cli = {"c"}
    Resumed = {"a", "c"}
    Layout <- MCLayout
    Chunks = 2
    MaxTrouble = 3
INVARIANTS FetchedInPlace PublishedAloneIsExact
PROPERTIES RetrievedUnlessLeftover
CHECK_DEADLOCK FALSE
