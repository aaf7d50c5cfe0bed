SPECIFICATION Spec
CONSTANTS
    HeaderSlots = 2
    RootSize = 1
    PageSize = 2
    MaxSize = 13
INVARIANT WrittenPageIsReadBack
CHECK_DEADLOCK FALSE
