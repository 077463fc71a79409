SPECIFICATION FairSpec
CONSTANTS
    Blocks = {b1, b2, b3}
    Nodes = {n1, n2}
    Values = {1, 2}
    NaN = NaN
    Capacity = 1
    MaxAddresses = 2
INVARIANTS
    TypeOK
    CapacityRespected
    SinglePlacement
    NoBlockLost
    NoEnvy
PROPERTIES
    RoundEnds
