SPECIFICATION Spec
CONSTANTS
    Ids = {i1, i2, i3}
    Names = {a, b, c}
    PkeyFields = {k}
    Null = Null
INVARIANTS TypeOK RegisteredNamesResolve
