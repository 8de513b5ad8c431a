SPECIFICATION Spec
CONSTANTS
    Queue <- MCQueue
    Tx <- MCTx
    SeqNum <- MCSeqNum
    Plan <- MCPlan
    RunOptions <- MCRunOptions
    Guarded = TRUE
    MaxRuns <- MCMaxRuns
    MaxAttempts = 2
    Threshold = 3
    MaxPolls = 1
INVARIANTS SubmissionsSerialised EarlierStepsSucceeded HashesInStepOrder
PROPERTIES RunsSettle
CHECK_DEADLOCK FALSE
