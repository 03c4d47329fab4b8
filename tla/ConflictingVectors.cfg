SPECIFICATION ReuseSpec
CONSTANTS
    b1 = b1
    b2 = b2
    x = x
    z = z
    h1 = h1
    h2 = h2
    v1 = v1
    v2 = v2
    Contents = {x, z}
    Hashes = {h1, h2}
    NoVector = NoVector
    Builds <- ApartBuilds
    Files <- ApartFiles
    ChunksOf <- ApartChunks
    Vectors <- AnyAnswer
    MaxFaults = 0
INVARIANT OneVectorPerText
CHECK_DEADLOCK FALSE
