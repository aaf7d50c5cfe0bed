SPECIFICATION Spec
CONSTANTS
    NumSlots = 2
    MaxPages = 3
    Null = Null
INVARIANTS TypeOK RowsComeOnceInOrder NoRowIsMissed UndefinedOnlyIf
PROPERTY NothingAfterClose
CHECK_DEADLOCK FALSE
