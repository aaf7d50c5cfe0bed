SPECIFICATION Spec
CONSTANTS
    NumSlots = 2
    MaxEntries = 3
    HeaderSlots = 8
    RootSize = 1
    PageSize = 2
    MaxPages = 6
    MaxTuples = 6
    Keys = {1, 2}
    Null = Null
CONSTRAINT FewTuples
INVARIANT UnderflowIsHandled
