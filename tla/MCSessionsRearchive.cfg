SPECIFICATION MCSpec
CONSTANTS
    p = p
    q = q
    t1 = t1
    t2 = t2
    t3 = t3
    c1 = c1
    c2 = c2
    c3 = c3
    None = None
    Names <- MCNames
    Threads <- MCThreads
    Clients <- MCClients
    Jobs <- MCJobs
    Placed <- MCPlaced
    Faults = {"rearchive"}
    MaxFaults = 1
PROPERTIES
    OneFailureStrandsNone
