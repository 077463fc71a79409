SPECIFICATION FairSpec
CONSTANTS
    n1 = n1
    n2 = n2
    Nodes = {n1, n2}
    Center = center
    Address <- Addresses
    Near <- NearMap
    MaxRegistrations = 3
    MaxFaults = 1
CHECK_DEADLOCK FALSE
INVARIANTS
    TypeOK
    EveryoneIsTold
    NeighborsCurrent
    MetricsComplete
PROPERTIES
    RegisterReturns
