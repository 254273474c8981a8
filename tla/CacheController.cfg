SPECIFICATION ControllerSpec
CONSTANTS
    Txs = {"t1", "t2"}
    Entities <- EntityKeys
    Earlier = {}
    Touches <- TouchesOf
    ControllerTTL = 2
    IteratorTTL = 4
    DefaultPageSize = 2
    MaxNow = 8
CHECK_DEADLOCK FALSE
INVARIANT RecentChangesAreMarked
