SPECIFICATION Spec
CONSTANTS
    k1 = k1
    k2 = k2
    Method <- ReadOnly
    Readers = {r1, r2, r3}
    NoReader = NoReader
    Keys = {k1}
    Items = {i1, i2}
    NoItem = NoItem
    Limit = 2
    Rows = 2
    BufferSize = 2
SYMMETRY Symmetry
CHECK_DEADLOCK FALSE
INVARIANTS NoReadAfterStop RefsCountHolders
PROPERTY ImplementsPrivate
