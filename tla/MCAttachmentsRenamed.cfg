SPECIFICATION Spec
CONSTANTS
    p = p
    q = q
    a1 = a1
    a2 = a2
    k1 = k1
    k2 = k2
    r1 = r1
    r2 = r2
    n1 = n1
    None = None
    Items <- MCItems
    Paths <- MCPaths
    Threads <- MCThreads
    Requests <- MCRequests
    New <- MCNew
    ThreadOf <- MCThreadOf
    Ids <- MCIds
    Faults = {}
CHECK_DEADLOCK FALSE
INVARIANTS
    SentIsReadable
