SPECIFICATION FairSpec

CONSTANTS
    t1 = t1
    g1 = g1
    g2 = g2
    p1 = p1
    c1 = c1
    None = None
    Thread = Thread
    Requests <- Five
    KindOf <- Calls
    Faults <- EveryFault
    MaxFaults = 1
INVARIANTS
    TurnsRunAlone
    GoalsAreManaged
PROPERTIES
    PausesHitTheirOwn
    StoppedGoalsEnd
