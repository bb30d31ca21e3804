SPECIFICATION FairSpec
CONSTANTS
    Limit = 4
    Window = 4
INVARIANTS
    TypeOK
    AtMostTwice
    LimitedForCause
PROPERTY LockoutEnds
CHECK_DEADLOCK FALSE
