SPECIFICATION Spec
CONSTANTS
    Reader = {r1}
    NULL = NULL
    Region <- ReusedRegion
    Initial <- ReusedInitial
    Dynamic <- ReusedDynamic
    Address <- ReusedAddress
    CHUNK_SIZE = 4
    Copies = 2
    NumChunk = 7
    NumTable = 4
    ForeignReclaim = FALSE
    Unload = FALSE
INVARIANTS
    NoFreedRead
    FindCorrect
    AssertionsHold
PROPERTIES
    LockReleased
    FindReturns
