SPECIFICATION Spec
CONSTANTS
    Null = Null
    Tuples = {t1, t2}
    Tids = {x1}
    NumSlots = 1
    MaxPages = 2
    NumPages = 1
    Faults = {}
    BadTuples = {}
PROPERTY PoolDeleteAddsNothing
