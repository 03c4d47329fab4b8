CONSTANTS
    s1 = s1
    s2 = s2
    a1 = a1
    a2 = a2
    a3 = a3
    b1 = b1
    b2 = b2
    b3 = b3
    x = x
    y = y
    u = u
    v = v
    NoRun = NoRun
    NoWorker = NoWorker
    NoSource = NoSource
    NoContent = NoContent
    Dangling = Dangling
    Workers = {u, v}
    MaxCrashes = 1
    Sources = {s1, s2}
    Runs = {a1, a2, a3, b1}
    Contents = {x, y}
    SourceOf <- MCSourceOf
    Snapshot <- TwoSnapshot
SPECIFICATION Spec
CHECK_DEADLOCK FALSE
PROPERTIES
    ImplementsGenerations
    LockedSourceIsStable
INVARIANTS
    TypeOK
    FlushesRespectUniqueIndexes
