SPECIFICATION Spec
CONSTANTS
    User = {u1, u2}
    Mod = {m1, m2}
    Threshold = 2
    MaxPosts = 2
    MaxEntries = 1
    MaxBlocks = 1
    MaxAppeals = 1
CONSTRAINT FewBlocksAndAppeals
SYMMETRY Symmetry
INVARIANTS PostsConsistent LikeCountExact EscrowCoversReports NoLikeAcrossBlockUnlessRestored NothingOrphaned
PROPERTIES DeletedStaysDeleted
