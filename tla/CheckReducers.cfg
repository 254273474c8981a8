SPECIFICATION FairSpec
CONSTANTS
    Base = base
    Subtract = subtract
    Handlers = {base, subtract, third}
    ConcurrencyLimit = 2
INVARIANTS
    AnswersAreRight
PROPERTIES
    CallsEnd
CHECK_DEADLOCK FALSE
