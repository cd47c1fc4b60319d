SPECIFICATION Spec
CONSTANTS
    k1 = k1
    k2 = k2
    o1 = o1
    o2 = o2
    t1 = t1
    t2 = t2
    NoOp = NoOp
    NoTurn = NoTurn
    Keys <- MCKeys
    Ops <- MCOps
    Turns <- MCTurns
PROPERTIES
    ImplementsExclusion
