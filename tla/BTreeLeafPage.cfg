SPECIFICATION Spec
CONSTANTS
    NumSlots = 5
    MaxEntries = 2
    Keys = {1, 2, 3, 4}
    Null = Null
    Pid = 1
INVARIANTS TypeOK Sorted RecordIdsMatch InsertIsTheLoops
