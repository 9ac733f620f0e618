SPECIFICATION FairSpec
CONSTANTS
    Uris       = {u1}
    Headers   <- MCHeaders
    OneMin     = 2
    Timeout    = 1
    MaxTime    = 6
    MaxVersion = 2
    NoPage     = NoPage
    NoCall     = NoCall
    NoAnswer   = NoAnswer
INVARIANTS
    TypeOK
    PagesAreGenuine
    StalenessBounded
    RevalidationIsCurrent
    NoStoreForgets
PROPERTIES
    CallEnds
CHECK_DEADLOCK FALSE
