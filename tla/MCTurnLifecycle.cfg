SPECIFICATION Spec
CONSTANTS
    k1 = k1
    t1 = t1
    t2 = t2
    g1 = g1
    u1 = u1
    u2 = u2
    None = None
    Requests <- Three
    Keys <- OneThread
    Users <- NoUser
    ThreadOf <- SameThread
    KindOf <- Kinds
    Faults = {"silence", "shutdown"}
CHECK_DEADLOCK FALSE
INVARIANTS
    OperatorIsRegistered
    HeldIsOperated
    OwnTurnAndPump
    StatusAgrees
    OnlyEndedTurnsReconciled
    StoppedMeansDrained
