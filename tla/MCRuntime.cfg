SPECIFICATION Spec
CONSTANTS
    r1 = r1
    r2 = r2
    s1 = s1
    s2 = s2
    ann = ann
    bob = bob
    odd = odd
    annDir = annDir
    bobDir = bobDir
    t1 = t1
    t2 = t2
    None = None
    Local = Local
    Root = Root
    Requests = {r1, r2}
    Subjects = {s1, s2}
    Usernames = {ann, bob, odd}
    Directories = {annDir, bobDir}
    Canonical <- Spelled
    Threads = {t1, t2}
    DirOf <- Placed
    InitialCredits = {2}
    Faults = {"boot", "workspace", "news", "answer", "sample", "close"}
    MaxFaults = 2
SYMMETRY Symmetry
INVARIANTS
    OwnWorkspace
    NewsStaysWithItsTenant
    ClientOutlivesItsUsers
    EachFailureLeavesOne
    OnlyFaultsStopTasks
    OneCreditPerLimit
