SPECIFICATION FairIteratorSpec
CONSTANTS
    Txs = {"t1", "t2"}
    Earlier = {"t1"}
    Entities = {"user"}
    Touches <- TouchesOf
    ControllerTTL = 1
    IteratorTTL = 2
    DefaultPageSize = 2
    MaxNow = 3
    Iterators = {i1, i2}
    Queries = {q1}
    EntitiesOf <- EntitiesOfAll
    Matches <- MatchesAll
    MaxResultSize = 2
    MaxOpens = 2
CHECK_DEADLOCK FALSE
PROPERTIES StoppedIsReleased InvalidationEnds
INVARIANTS CachedIsWhole
