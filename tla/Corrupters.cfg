SPECIFICATION Spec
CONSTANTS
    NULL = NULL
    Worlds <- MCWorlds
    MaxOps = 2
    MaxDrawn = 2
    Offsets <- MCOffsets
    Rewrites = {98}
    Ids = {10, 11, 12, 30, 31, 32}
    NewNames = {"z"}
    NewTypes = {"BIGINT", "INTEGER", "DOUBLE", "VARCHAR"}
CHECK_DEADLOCK FALSE
INVARIANTS FailuresDeclared FirstExact
PROPERTIES FrameKept OutputStands
