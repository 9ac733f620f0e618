SPECIFICATION Spec
CONSTANTS
    Methods    = {"GET"}
    Uppers     = {}
    Lowers     = {}
    Digits    <- MCDigits
    ULLONG_MAX = 9
    Paths      = {"/a"}
    Urls       = {}
    FieldNames = {"Host:", "Content-Length:"}
    MaxInput   = 15
CONSTRAINT ShortParts
INVARIANTS
    TypeOK
    ParseMatchesGrammar
    ParserWellFormed
CHECK_DEADLOCK FALSE
