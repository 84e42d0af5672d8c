SPECIFICATION Spec
CONSTANTS
    Key = {k1, k2}
    Browser = {b1, b2}
    Ttl = 2
    MaxTime = 5
    Caller = {c1, c2}
    NumServices = 3
    Address = {ip1, ip2}
    V4 = {ip1}
    PageLength = 2
    MaxID = 4
    Timeout = 1
    MaxRefresh = 1
    MaxNow = 5
    Artifact = {a1, a2}
    NumVersions = 4
    MaxHistory = 2
    JobCap = 1
    PWorker = {w1, w2}
    Release = 3
    Garbage = 0
    MaxRounds = 3
INVARIANTS OneUse PagesComplete LoginFades
PROPERTIES FirstAddress AllPatched NeverBackwards
CHECK_DEADLOCK FALSE
