SPECIFICATION FairSpec
CONSTANTS
    n1 = n1
    n2 = n2
    Center = center
    None = none
    Address <- Addresses
    Latency <- Latencies
    Zero = s0
    Queries = {q1}
    Nodes = {n1, n2}
    Told = {n2}
    Streams = {s0, s1}
    Known = {s0}
    Blocks = {0, 1}
    MaxChanges = 2
    MaxFaults = 1
CHECK_DEADLOCK FALSE
INVARIANTS
    TypeOK
    AnswersComplete
    FailsOnlyOnFault
PROPERTIES
    QueryEnds
