SPECIFICATION FairSpec
CONSTANTS
    Workers = {w1, w2}
    Tasks = {b1, b2}
    Edges = {e1, e2}
    Window = 2
    MaxAccesses = 3
    MaxFaults = 1
INVARIANTS
    TypeOK
    EachAccessOnce
    TasksOfRound
PROPERTIES
    ImplementsLedger
    AccessesAreWeighted
