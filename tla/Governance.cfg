SPECIFICATION HistorySpec
CONSTANTS
    Voter = {v1, v2}
    Motion <- AnyMotion
    Config <- AnyConfig
    MaxLedger = 5
    MaxProposals = 2
    MaxU32 = 60
SYMMETRY Symmetry
INVARIANTS GovernanceConsistent
PROPERTIES SettledStaysSettled FullTimeLockAfterLastVote
