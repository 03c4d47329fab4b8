CONSTANTS
    MaxTokens = 10
    MaxGroup = 2
    HeadingTokens <- AnyHeading
    Drifts <- AnyDrift
    Modes <- AnyMode
    Target = 4
    SoftMax = 5
    Overlap = 1
    AtomicMax = 5
    ProbeLimit = 4
    TinyRemainder = 3
    InputMultiplier = 8
    BlockSizes <- AnySize
    MaxBlocks = 6
    MaxLength = 10
    GroupSizes <- AnyGroup
    ContextDrifts <- AnyContextDrift
    Limit = 4
    BaseProbes = 4
    ProbesPerWindow = 1
    ContextMultiplier = 4
    NeighborRadius = 1
SPECIFICATION AllSpec
INVARIANTS
    WindowsAreRight
    ContextsAreBest
    ChunksAreWhole
PROPERTIES
    LoopsAdvance
CHECK_DEADLOCK FALSE
