SPECIFICATION Spec
CONSTANTS
    p = p
    q = q
    Paths = {p, q}
    opened = opened
    e1 = e1
    h1 = h1
    h2 = h2
    base = base
    NoKey = NoKey
    Live <- OneLive
    History <- ShortImport
    Faults = {"crash", "moved", "late", "short"}
    MaxFailures = 2
SYMMETRY Symmetry
INVARIANTS
    LossIsBounded
