SPECIFICATION FairSpec
CONSTANTS
    c1 = c1
    c2 = c2
    c3 = c3
    c4 = c4
    c5 = c5
    Callers = {c1, c2, c3, c4, c5}
    PoolSize = 3
INVARIANTS
    TypeOK
    PoolConserved
    NoLostWakeup
PROPERTIES
    GetReturns
