SPECIFICATION FairSpec
CONSTANTS
    Objects = {"o1", "o2", "o3"}
    Kinds <- MCKinds
    Calls <- MCCalls
    Breadth = 1
CHECK_DEADLOCK FALSE
INVARIANTS NoSendAfterClose ListIsWithinLimit
PROPERTIES ListIsWhole CallEnds
