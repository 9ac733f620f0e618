SPECIFICATION Spec
CONSTANTS
    Methods    = {"GET", "POST"}
    Uppers     = {"FOO"}
    Lowers     = {"x"}
    Digits    <- MCDigits
    ULLONG_MAX = 9
    Paths      = {"/", "/a", "/b/c"}
    Urls       = {"http://h/"}
    FieldNames = {"Host:", "Content-Length:"}
    SegmentsOf <- MCSegmentsOf
    NoSession  = NoSession
    Sessions   = {s1, s2}
    Scripts   <- Complete
    Config    <- DeployConfig
    MaxLength  = 13
    Residues  <- NoResidue
    Overruns  <- NoOverrun
INVARIANT
    LogNamesTheClient
CHECK_DEADLOCK FALSE
