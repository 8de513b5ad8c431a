CONSTANTS
    u1 = u1
    u2 = u2
    p1 = p1
    Users <- MCUsers
    Posts <- MCPosts
    Families <- AllFamilies
    MaxLog = 4
    PageSize = 2
    MaxListening = 2
    MaxFaults = 1
    MaxCrashes = 2
SPECIFICATION Spec
INVARIANTS TablesConsistent NoDuplicatePush
PROPERTIES CatchesUpUnlessStuck
CHECK_DEADLOCK FALSE
