CONSTANTS
    a = a
    b = b
    c = c
    d = d
    Blank = Blank
    Null = Null
    IDs = {a, b, c, d, Blank}
    Permissions <- MCPermissions
    Graphs <- MCGraphs
    Starts = {a, c}

SPECIFICATION Spec

CHECK_DEADLOCK FALSE

INVARIANTS
    ChainIsLinked
    ReachableAdminsAreReported
    PageMirrorsServer

PROPERTIES
    WalksEnd
