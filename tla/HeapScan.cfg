SPECIFICATION Spec
CONSTANTS
    Null = Null
    NumSlots = 2
    FilePages = 3
    NumPages = 2
    Deletable = {0}
INVARIANTS TypeOK WithinCapacity ScanReturnsEveryRow
PROPERTIES ScanEnds OwnedPagesAreWrittenBack
