SPECIFICATION WebFairSpec
CONSTANTS
    Absent = Absent
    a = a
    b = b
    follow1 = follow1
    like1 = like1
    Account <- MCAccount
    Follow <- MCFollow
    Like <- MCLike
    To <- MCTo
    InboxPageSize = 1
    MaxLosses = 1
    MaxSwitches = 2
    MaxActs = 2
INVARIANTS InboxConsistent PagesCoverInbox
PROPERTIES ListsKeepWhatTheyShow LiveLikeListed
CHECK_DEADLOCK FALSE
