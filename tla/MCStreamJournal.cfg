SPECIFICATION Spec
CONSTANTS
    p = p
    q = q
    Paths = {p, q}
    opened = opened
    e1 = e1
    h1 = h1
    h2 = h2
    base = base
    NoKey = NoKey
    Live <- TwoLive
    History <- Import
    Faults = {"crash", "moved"}
    MaxFailures = 0
SYMMETRY Symmetry
INVARIANTS
    CacheAgrees
    AckedIsRead
    BaselineMeansImported
PROPERTIES
    ImplementsLog
