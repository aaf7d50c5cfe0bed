SPECIFICATION Spec
CONSTANTS
    NumSlots = 2
    MaxPages = 3
    Null = Null
INVARIANT HasNextMeansATuple
CHECK_DEADLOCK FALSE
