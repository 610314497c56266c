SPECIFICATION Spec
CONSTANTS
    Reader = {r1}
    NULL = NULL
    Region <- DenseRegion
    Initial <- DenseInitial
    Dynamic <- DenseDynamic
    Address <- DenseAddress
    CHUNK_SIZE = 4
    Copies = 2
    NumChunk = 7
    NumTable = 4
    ForeignReclaim = TRUE
    Unload = TRUE
INVARIANTS
    TypeOK
    NoDanglingElement
    FindCorrect
    OneReclaimer
CHECK_DEADLOCK FALSE
