SPECIFICATION FairSpec
CONSTANTS
    k1 = k1
    k2 = k2
    Method <- MethodOf
    Readers = {r1, r2}
    NoReader = NoReader
    Keys = {k1, k2}
    Items = {i1}
    NoItem = NoItem
    Limit = 2
    Rows = 2
    BufferSize = 1
CHECK_DEADLOCK FALSE
PROPERTIES NextReturns IteratorsAreStopped
