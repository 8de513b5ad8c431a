SPECIFICATION FairSpec
CONSTANTS
    None = None
    c1 = c1
    c2 = c2
    Calls = {c1, c2}
    MaxAttempts <- MCMaxAttempts
    RetryModes = {"fresh", "resigned", "identical"}
    Skew = 1
    Ahead = {0}
    KeyTtl = 1
    MessageTtl = 1
    MaxFaults = 1
INVARIANTS StoredOnce
PROPERTIES KeysAndCallsSettle
CHECK_DEADLOCK FALSE
