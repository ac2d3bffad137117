SPECIFICATION FairSpec
CONSTANTS
    NParts = 2
    PageSize = 1000
    MaxAttempts = 2
    MaxFaults = 2
    MaxClientCrashes = 1
    MaxRegistryCrashes = 1
    MaxPauses = 1
    MaxUploads = 5
INVARIANTS UploadedMeansStored ConfirmedPartsWereAccepted OnlyMissingPartsSent
PROPERTIES ObjectIsEventuallyStored FinalizedUnlessLostOrReset
CHECK_DEADLOCK FALSE
