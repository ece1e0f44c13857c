SPECIFICATION ContainersSpec
CONSTANTS
    CacheKeys = {"a", "b", "c"}
    CacheValues = {1, 2}
    MaxEntries = 2
    TTLs = {0, 1}
    MaxTime = 2
    MaxCalls = 5
    Nodes = {"a", "b", "c"}
    ElementCounts = {2, 3}
    WordBits = 5
    FirstCounts = {0, 30}
    MaxPush = 5
    Bulks = {1, 3}
    RingSize = 6
    Sizes = {2, 3, 7}
    Alignments = {1, 2}
    MaxRings = 3
    AllocThreads = {"s", "t"}
    Pages = {1, 2}
    PageSize = 2
    ControlBlocks = 1
    MaxRecycled = 2
    Starts <- MCStarts
    TreeNodes = {1, 2, 3, 4}
    Coords = {0, 1, 2}
    MaxEntities = 3
    Components = {"u", "v"}
    QuickRing = 2
    MaxInserts = 5
    Block = 8
    LenBytes = 1
    MaxMessage = 10
    KeySizes = {0, 3, 8, 9}
    DataSizes = {0, 2}
    SampleBytes = {0, 1, 154, 255}
    MaxBytes = 4
    Symbols = {0, 41, 63, 64, 65}
    MaxSymbols = 4
    BufBits = 16
    Years = {0, 1900, 1970, 1999, 2000, 2024, 2100}
    Limits = {10, 23, 36, 47, 60}
    Chunks = 4
    Lines <- MCLines
    MaxLog = 3
    LineLimits = {2, 5}
    TopUrls = 1
    Window = 2
    MaxBody = 3
    Arrivals = {1, 2, 5}
    MaxUrls = 3
    MaxRows = 3
INVARIANT GetsOwnComponent
CHECK_DEADLOCK FALSE
