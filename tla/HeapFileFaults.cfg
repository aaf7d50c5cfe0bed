SPECIFICATION Spec
CONSTANTS
    Null = Null
    Tuples = {t1, b1}
    Tids = {x1, x2}
    NumSlots = 1
    MaxPages = 2
    NumPages = 1
    Faults = {"writeError", "discardUnwritten", "resetPool", "bareDelete"}
    BadTuples = {b1}
INVARIANT WithinCapacity
