SPECIFICATION Spec
CONSTANTS
    HeaderSlots = 2
    RootSize = 1
    PageSize = 2
    MaxSize = 13
INVARIANTS TypeOK PagesAreSeparate PagesLieInFile LostPagesAreBoundaries FreshPageIsBlank
PROPERTY NeverTakenTwice
CHECK_DEADLOCK FALSE
