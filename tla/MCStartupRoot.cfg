\* A config file with a static location for /.
CONSTANTS
    Words      <- MCWords
    FromSlash  <- MCFromSlash
    SegmentsOf <- MCSegmentsOf
    KindsOf    <- MCKindsOf
    Disk       <- MCDisk
    NumberOf   <- MCNumberOf
    IntMax     = 99999
    Layouts    <- MCRootLayouts
    OtherFiles = {}
    NoLayout   = NoLayout
    Uris       <- MCUris
    MaxLocations = 0
    MaxPieces    = 0

SPECIFICATION FairSpec

INVARIANT
    ServedFromItsRoot

CHECK_DEADLOCK FALSE
