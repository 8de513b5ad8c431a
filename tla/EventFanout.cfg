SPECIFICATION FanFairSpec
CONSTANTS
    Slots = {1, 2}
    Types = {like, post}
    Wanted = {like}
    Depth = 1
    MaxDrops = 1
    Burst = 2
    MaxViolations = 0
    MaxBroadcasts = 4
    MaxFrames = 2
    MaxMishaps = 1
INVARIANTS QueuesConsistent MissedBounded
PROPERTIES SilentPeerForgotten Reconnects
CHECK_DEADLOCK FALSE
