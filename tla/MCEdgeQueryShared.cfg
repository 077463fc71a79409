SPECIFICATION Spec
CONSTANTS
    n1 = n1
    n2 = n2
    Center = center
    None = none
    Address <- Addresses
    Latency <- Latencies
    Zero = s0
    Queries = {q1, q2}
    Nodes = {n1}
    Told = {n1}
    Streams = {s0, s1}
    Known = {s0, s1}
    Blocks = {0, 1}
    MaxChanges = 0
    MaxFaults = 0
CHECK_DEADLOCK FALSE
SYMMETRY QuerySymmetry
INVARIANTS
    AnswersComplete
    AccessRecordedOnce
    FailsOnlyOnFault
