SPECIFICATION CleanSpec
CONSTANTS
    User = {u1, u2, u3}
    Name = {n1, n2}
    NoName = NoName
    NoUser = NoUser
    MaxEntries = 2
    MaxBlocks = 1
CONSTRAINT FewBlocks
SYMMETRY Symmetry
INVARIANTS ProfilesExact NoEdgeAcrossBlock GraphConsistent PagesPartitionFollowers
PROPERTIES TombstoneOutlivesEdges ImplementsFollowRelation
