SPECIFICATION CheckSpec
CONSTANTS
    Txs = {"t1"}
    Entities = {}
    Earlier = {}
    Touches <- TouchesOf
    ControllerTTL = 3
    IteratorTTL = 1
    DefaultPageSize = 2
    MaxNow = 6
    Requests = {r1, r2}
    Checks = {k1}
    QueryTTL = 3
SYMMETRY Symmetry
CHECK_DEADLOCK FALSE
INVARIANTS PublishedWritesAreHonoured
