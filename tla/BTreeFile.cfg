SPECIFICATION Spec
CONSTANTS
    NumSlots = 3
    MaxEntries = 3
    HeaderSlots = 8
    RootSize = 1
    PageSize = 2
    MaxPages = 6
    MaxTuples = 7
    Keys = {1, 2}
    Null = Null
CONSTRAINT FewTuples
INVARIANTS TypeOK LinksAgree KeysInRange  RecordIdsMatch PagesAccounted EntriesAndTuplesValid
PROPERTY ImplementsIndex
