SPECIFICATION Spec
CONSTANTS
    c1 = c1
    c2 = c2
    Runs = {c1, c2}
    MaxRows = 3
    BatchSize = 2
    BatchBytes = 3
SYMMETRY Symmetry
INVARIANTS
    TypeOK
    NeverCompressedTwice
    DoneMeansCompacted
    VacuumReturnsSpace
    ProcessedExact
PROPERTIES
    OnlyTextIsRewritten
CHECK_DEADLOCK FALSE
