SPECIFICATION Spec
CONSTANTS
    Methods    = {"GET", "POST"}
    Uppers     = {"FOO"}
    Lowers     = {"x"}
    Digits    <- MCDigits
    ULLONG_MAX = 9
    Paths      = {"/", "/a", "/b/c"}
    Urls       = {"http://h/"}
    FieldNames = {"Host:", "Content-Length:"}
    SegmentsOf <- MCSegmentsOf
    NoSession  = NoSession
    Sessions   = {s1, s2}
    Scripts   <- MixedScripts
    Config    <- BackendConfig
    MaxLength  = 11
    Residues  <- MCResidues
    Overruns  <- MCOverruns
INVARIANTS
    TypeOK
    SessionOwnership
    FutureMatchesWaiter
    NoLeftover
    ParserFresh
    RequestIsolation
    StatusCountsAnswers
PROPERTY
    ImplementsConnection
CHECK_DEADLOCK FALSE
