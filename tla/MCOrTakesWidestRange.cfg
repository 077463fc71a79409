SPECIFICATION PlanningSpec
CONSTANTS
    n1 = n1
    n2 = n2
    s1 = s1
    s2 = s2
    Neighbors = {n1, n2}
    Streams = {s1, s2}
    Center = center
    Pushed <- PushedBlocks
    Hash <- KeyHash
    Tables <- RowTimes
    Clauses <- WhereClauses
    ChunkSize = 5
    ArrayMax = 3
    BitsetBytes = 8
    HashModulus = 8
    Slots = 5
    ProbeCount = 3
    CounterMax = 3
    SizeModulus = 16
    Expected = 3
    IdModulus = 8
    MaxHeight = 5
    TimeModulus = 60
    Values = {0, 1, 2}
    RowsPerBlock = 2
    Latencies = {101, 109, 400}
    PartsPerMs = 10
    Threshold = 30
    MaxCopies = 2
INVARIANT OrTakesWidestRange
