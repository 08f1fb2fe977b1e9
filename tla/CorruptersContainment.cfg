SPECIFICATION Spec
CONSTANTS
    NULL = NULL
    Worlds <- MCWorlds
    MaxOps = 1
    MaxDrawn = 1
    Offsets <- MCOffsets
    Rewrites = {98}
    Ids = {10, 11, 12, 30, 31, 32}
    NewNames = {"z"}
    NewTypes = {"BIGINT", "INTEGER", "DOUBLE", "VARCHAR"}
INVARIANT Containment
CHECK_DEADLOCK FALSE
