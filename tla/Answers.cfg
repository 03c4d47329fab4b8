CONSTANTS
    t1 = t1
    t2 = t2
    NoToken = NoToken
    Jobs <- AnyJob
    Capacity = 2
    StreamLimit = 3
    FileLimit = 2
    TotalLimit = 4
    FaultyCalls <- AnyCall
    MaxFaults = 3
    Archives <- AnyArchive
    Included <- AnyIncluded
    Trees <- AnyTree
    SizeOf <- Bytes
    MaxMembers = 3
    MaxFile = 3
    MaxTotal = 3
    Segments = {"a", "b", "", "..", "."}
    PatternSegments = {"**", "*", "a"}
    MaxSegments = 4
    SegmentMatches <- Matches
    Chunks <- MCChunks
    ParentOf <- MCParentOf
    LaneLimit = 3
    Similarities <- MCSimilarities
    Policies <- MCPolicies
    Limits <- MCLimits
    One = 2
    Shown = 1
    Cases <- MCCases
    Batches <- MCBatches
    Tokens = {t1, t2}
    MaxRequests = 4
SPECIFICATION AllSpec
INVARIANTS
    SourceIsCommit
    SearchIsRight
    AnswersAreBest
    ScreenIsTrue
PROPERTIES
    OnlyItsTokenIsRefused
    RequestsEnd
CHECK_DEADLOCK FALSE
