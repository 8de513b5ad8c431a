SPECIFICATION Spec
CONSTANTS
    User = {u1, u2}
    Name = {n1, n2, n3}
    NoName = NoName
    NoUser = NoUser
    MaxEntries = 2
    MaxBlocks = 2
CONSTRAINT FewBlocks
SYMMETRY Symmetry
INVARIANT RegisteredCanFollow
