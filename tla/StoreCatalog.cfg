SPECIFICATION CatalogSpec
CONSTANTS
    Slots = {1, 2}
    Requests <- MCRequests
    Stores0 = {1, 2}
    Rows0 <- MCRows0
    Invalid = {1}
    PageSize = 1
    MaxRequests = 3
    MaxFaults = 1
CHECK_DEADLOCK FALSE
INVARIANTS ListsAreExact ResolvedIsRight
PROPERTIES RequestsEnd
