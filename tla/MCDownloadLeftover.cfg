SPECIFICATION FairSpec
CONSTANTS
    Desktop = {"a"}
    Cli = {}
    Resumed = {"a"}
    Layout <- MCLayout
    Chunks = 2
    MaxTrouble = 1
PROPERTIES ResumedIsRetrieved
CHECK_DEADLOCK FALSE
