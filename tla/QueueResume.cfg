SPECIFICATION FairSpec
CONSTANTS
    MaxSteps = 3
    Guarded = TRUE
    MaxCrashes = 2
    MaxRuns = 2
    MaxInFlight = 2
INVARIANTS StoreConsistent HashesInOrderOnce
PROPERTIES Settles
CHECK_DEADLOCK FALSE
