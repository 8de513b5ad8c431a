SPECIFICATION FeedFairSpec
CONSTANTS
    None = None
    Other = Other
    d1 = d1
    t1 = t1
    r1 = r1
    r2 = r2
    s1 = s1
    Drafts = {d1}
    Texts = {t1}
    Text <- SameText
    Slots = {s1}
    Runs = {r1}
    PageSize = 1
    MaxRows = 2
    Earlier = 1
    MaxCopies = 1
    MaxFaults = 1
INVARIANTS CacheConsistent
PROPERTIES PostsArrive
