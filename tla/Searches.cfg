CONSTANTS
    s1 = s1
    s2 = s2
    a1 = a1
    a2 = a2
    a3 = a3
    b1 = b1
    b2 = b2
    b3 = b3
    x = x
    y = y
    p = p
    q = q
    NoRun = NoRun
    Sources = {s1, s2}
    Runs = {a1, a2, a3, b1, b2, b3}
    Contents = {x, y}
    SourceOf <- MCSourceOf
    Snapshot <- MCSnapshot
    Searched = s1
    Compatible = {a1, a3}
    Embedded = {a1}
    Searchers = {p, q}
SPECIFICATION MCSpec
CHECK_DEADLOCK FALSE
INVARIANTS
    TypeOK
    OpenReadsStayValid
    AnswersAreWholeGenerations
PROPERTIES
    RequestsEnd
