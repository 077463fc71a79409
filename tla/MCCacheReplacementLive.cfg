SPECIFICATION FairSpec
CONSTANTS
    n1 = n1
    n2 = n2
    Nodes = {n1, n2}
    Blocks = {b1}
    Capacity = 1
    Near <- AllNear
    Exact <- SecondExact
    MaxAddresses = 3
    MaxRounds = 2
    MaxFaults = 1
PROPERTIES
    RoundCompletes
