SPECIFICATION FairSpec
CONSTANTS
    NTransfers = 3
    PassLimit = 1
    BatchLimit = 2
    MaxEvents = 3
    MaxTrouble = 2
INVARIANTS LogIsPrefix SyncedIsLogged
PROPERTIES EventsAreDelivered
CHECK_DEADLOCK FALSE
