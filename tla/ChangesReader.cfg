SPECIFICATION FairReaderSpec
CONSTANTS
    none = none
    cond = cond
    Absent = Absent
    NoWriter = NoWriter
    Keys = {1, 2}
    Conds = {none, cond}
    Writers = {w1, w2}
    Requests <- PairRequests
    MaxTuplesPerWrite = 2
    MaxClock = 3
    Watched = {1}
    PageSize = 1
    Horizon = 0
CHECK_DEADLOCK FALSE
INVARIANTS FoundRowsAreStable ChangelogMatchesTable DeliveredOnce
PROPERTIES CommitMeetsRequest ImplementsStore PagesSkipNothing AheadIsDelivered CallsReturn
