SPECIFICATION PartsSpec
CONSTANTS
    p1 = p1
    p2 = p2
    c1 = c1
    c2 = c2
    r1 = r1
    Nobody = Nobody
    NoModel = NoModel
    Preparers = {p1, p2}
    Readers = {r1}
    Contents = {c1, c2}
    MaxPrepares = 3
    MaxReads = 2
    MaxFaults = 2
    MaxKills = 1
    MaxPowerLosses = 1
    MaxReplacements = 1
    MaxDamages = 1
INVARIANTS
    TypeOK
    PreparedIsLoadable
    FailureRestores
PROPERTIES
    ImplementsPublishedModel
    LocksAreFreed
CHECK_DEADLOCK FALSE
