SPECIFICATION FairSpec
CONSTANTS
    src = src
    out = out
    Absent = Absent
    Unread = Unread
    Paths <- MCPaths
    Built <- MCBuilt
    Rules = {"keep", "prune", "broken"}
    MaxEdits = 2
    MaxQueue = 2
INVARIANTS
    TypeOK
    NoChangeForgotten
PROPERTIES
    StoredNotOlder

    Settles
