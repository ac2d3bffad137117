SPECIFICATION PlanSpec
CONSTANTS
    Limits <- SmallLimits
    OldTargets <- SmallTargets
    MaxU64 = 1000
    PageSize = 4
    MaxLate = 1
INVARIANTS ResumptionIsAccepted
CHECK_DEADLOCK FALSE
