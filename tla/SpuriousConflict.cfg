CONSTANTS
    s1 = s1
    s2 = s2
    a1 = a1
    a2 = a2
    a3 = a3
    b1 = b1
    b2 = b2
    b3 = b3
    x = x
    y = y
    p = p
    q = q
    NoRun = NoRun
    Sources = {s1}
    Runs = {a1, a2}
    Contents = {x, y}
    SourceOf <- MCSourceOf
    Snapshot <- MCSnapshot
    Searched = s1
    Compatible = {a1, a2}
    Embedded = {a1, a2}
    Searchers = {p}
SPECIFICATION ServingSpec
CHECK_DEADLOCK FALSE
PROPERTIES
    ConflictMeansNoActiveRun
