SPECIFICATION PlanSpec
CONSTANTS
    Limits <- SmallLimits
    OldTargets <- SmallTargets
    MaxU64 = 1000
    PageSize = 4
    MaxLate = 1
INVARIANTS PlanIsValid DoneIsWhole ResumptionAcceptedUnlessLate
PROPERTIES ConfirmedPartsStayPut
CHECK_DEADLOCK FALSE
