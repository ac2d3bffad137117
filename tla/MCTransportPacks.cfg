SPECIFICATION FairSpec
CONSTANTS
    Sources <- MCSources
    MaxMember = 2
    Target = 3
    Budget = 4
    NParts = 2
    MaxEdits = 1
    MaxCrashes = 2
    MaxFailures = 1
INVARIANTS PlanIsSound CacheIsAccountedFor StoredAsInventoried PackHasPlannedSize ClearedLeavesNothing
PROPERTIES UploadedUnlessEdited
CHECK_DEADLOCK FALSE
