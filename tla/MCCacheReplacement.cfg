SPECIFICATION Spec
CONSTANTS
    n1 = n1
    n2 = n2
    Nodes = {n1, n2}
    Blocks = {b1, b2, b3}
    Capacity = 2
    Near <- AllNear
    Exact <- SecondExact
    MaxAddresses = 3
    MaxRounds = 2
    MaxFaults = 1
SYMMETRY BlockSymmetry
INVARIANTS
    TypeOK
    RecordWithinCapacity
    RecordMatchesStore
    KeptBlocksStay
    IndexMatchesRecord

PROPERTY DeliversWholePlans
