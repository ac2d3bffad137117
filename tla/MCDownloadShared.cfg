SPECIFICATION Spec
CONSTANTS
    Desktop = {"a", "b"}
    Cli = {}
    Resumed = {}
    Layout <- MCLayout
    Chunks = 2
    MaxTrouble = 1
INVARIANTS PublishedIsExact
CHECK_DEADLOCK FALSE
