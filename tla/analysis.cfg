SPECIFICATION FairSpec
CONSTRAINT Slice
CONSTANTS
    t1 = t1
    t2 = t2
    Session = {t1, t2}
    HostOf <- MCHostOf
    Worker = {w1}
    Fetcher = {f1}
    Analyzer = {a1}
    Publisher = {p1, p2}
    QueueLength = 1
    Careless = {t1}
    MaxClient = 1
    MaxFaults = 1
INVARIANTS FewDuplicates NothingSkipped
PROPERTIES KeepsPromise RipeIsPublished TokenAnswered
CHECK_DEADLOCK FALSE
