SPECIFICATION Spec
CONSTANTS
    k1 = k1
    t1 = t1
    t2 = t2
    g1 = g1
    u1 = u1
    u2 = u2
    None = None
    Requests <- OneTurn
    Keys <- OneThread
    Users <- OneUser
    ThreadOf <- SameThread
    KindOf <- Kinds
    Faults = {}
INVARIANTS
    StatusAgrees
CHECK_DEADLOCK FALSE
