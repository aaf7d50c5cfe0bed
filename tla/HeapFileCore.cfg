SPECIFICATION Spec
CONSTANTS
    Null = Null
    Tuples = {t1}
    Tids = {x1, x2}
    NumSlots = 2
    MaxPages = 3
    NumPages = 2
    Faults = {}
    BadTuples = {}
INVARIANTS TypeOK WithinCapacity CleanMatchesDisk PagesExist ProbedPagesAreFull DiskIsCanonical
PROPERTIES ImplementsTable InsertIsExact InsertReturns
