SPECIFICATION MCSpec
CONSTANTS
    Threads = {t1, t2, t3}
    NoThread = NoThread
    MaxCalls = 4
    MaxInterrupts = 2
    b1 = b1
    b2 = b2
    b3 = b3
    x = x
    y = y
    z = z
    e = e
    h1 = h1
    h2 = h2
    v1 = v1
    v2 = v2
    NoVector = NoVector
    Builds = {b1, b2, b3}
    Contents = {x, y, z, e}
    Files <- TwoFiles
    Hashes = {h1, h2}
    ChunksOf <- FewChunks
    Vectors <- OneAnswer
    MaxFaults = 1
INVARIANTS
    ReuseTypeOK
    TypeOK
    LoadIsOrderly
    OwnerHoldsLane
    ReuseIsSafe
PROPERTIES
    RetryAwaitsCohort
    WorkEnds
CHECK_DEADLOCK FALSE
