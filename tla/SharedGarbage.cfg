CONSTANTS
    s1 = s1
    s2 = s2
    a1 = a1
    a2 = a2
    a3 = a3
    b1 = b1
    b2 = b2
    b3 = b3
    x = x
    y = y
    u = u
    v = v
    NoRun = NoRun
    NoWorker = NoWorker
    NoSource = NoSource
    NoContent = NoContent
    Dangling = Dangling
    Workers = {u, v}
    MaxCrashes = 0
    Sources = {s1, s2}
    Runs = {a1, a2, a3, b1, b2, b3}
    Contents = {y}
    SourceOf <- MCSourceOf
    Snapshot <- OldSnapshot
SPECIFICATION RetiringSpec
CHECK_DEADLOCK FALSE
INVARIANTS
    NoOrphanContent
