SPECIFICATION Spec
CONSTANTS
    Uris       = {u1, u2}
    Headers   <- MCHeaders
    OneMin     = 2
    Timeout    = 1
    MaxTime    = 6
    MaxVersion = 2
    NoPage     = NoPage
    NoCall     = NoCall
    NoAnswer   = NoAnswer
INVARIANT
    DefaultExpiry
CHECK_DEADLOCK FALSE
