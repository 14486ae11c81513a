SPECIFICATION Spec
CONSTANTS
    src = src
    out = out
    Absent = Absent
    Unread = Unread
    Paths <- MCPaths
    Built <- MCBuilt
    Rules = {"keep", "deny"}
    MaxEdits = 1
    MaxQueue = 2
PROPERTIES
    ExcludedStaysOut
