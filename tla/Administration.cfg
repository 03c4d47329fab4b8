CONSTANTS
    s1 = s1
    s2 = s2
    a1 = a1
    a2 = a2
    a3 = a3
    a4 = a4
    b1 = b1
    b2 = b2
    b3 = b3
    x = x
    y = y
    z = z
    NoRun = NoRun
    p1 = p1
    p2 = p2
    p3 = p3
    old = old
    new = new
    config = config
    policy = policy
    unreadable = unreadable
    k1 = k1
    k2 = k2
    Sources = {s1, s2}
    Runs = {a1, a2, a3, a4, b1, b2, b3}
    Contents = {x, y, z}
    SourceOf <- MCSourceOf
    Snapshot <- MCSnapshot
    Commands = {p1, p2, p3}
    Workloads <- MCWorkloads
    Installed <- MCInstalled
    SourceKeys = {s1, s2}
    Patterns = {old, new}
    Configs = {config}
    Policies = {policy, unreadable}
    Readable = {policy}
    Keys = {k1, k2}
    MaxAttempts = 3
    MaxFaults = 1
    Earlier = Earlier
    Unwritten = Unwritten
SPECIFICATION PartsSpec
CHECK_DEADLOCK FALSE
INVARIANTS
    RegistrationTypeOK
    SourcesAreConsistent
    ContentsAreConsistent
    RegistrationsAreWhole
    LastAdopterWins
    FailuresHaveCause
PROPERTIES
    SwitchKeepsFallback
    RegistrationsEnd
