CONSTANTS
    LastLedger = 5
    MaxPerLedger = 2
    MaxEvents = 4
    PageSize = 2
    GapConfirmation = 2
    MaxDepth = 2
    BatchSize = 1
    MaxFailures = 2
    Threshold = 1
    StartLedger = 1
    MaxLate = 1
    MaxFaults = 2
    MaxCrashes = 1
SPECIFICATION Spec
INVARIANTS StreamConsistent
PROPERTIES GapRecoveredBeforeAdvance EveryPromptEventPublished
