\* Config files of conf/'s shape and others, to the listening server and its
\* static requests.
CONSTANTS
    Words      <- MCWords
    FromSlash  <- MCFromSlash
    SegmentsOf <- MCSegmentsOf
    KindsOf    <- MCKindsOf
    Disk       <- MCDisk
    NumberOf   <- MCNumberOf
    IntMax     = 99999
    Layouts    <- MCLayouts
    OtherFiles <- MCOtherFiles
    NoLayout   = NoLayout
    Uris       <- MCUris
    MaxLocations = 3
    MaxPieces    = 4

SPECIFICATION FairSpec

INVARIANTS
    TypeOK
    ParseDecidesValidity
    BracesTrackBlocks
    PortAsDeclared
    HandlersAsDeclared
    ServedFromItsRoot

PROPERTIES
    SearchesLeaveNoTrace
    StartupEnds

\* The program may end, and an idle server waits.
CHECK_DEADLOCK FALSE
