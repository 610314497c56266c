CONSTANTS
    NULL = NULL
    t0 = t0
    t1 = t1
    t2 = t2
    p1 = p1
    p2 = p2
    Thread <- ThreeThreads
    Main = t0
    Active <- TwoThreads
    Ptr <- TwoPtrs
    Cell <- OneCell
    CellSlot <- OneCellSlot
    MaxIds = 4
    SlotsPerPage = 1
    MaxBuffered = 1
    StoreLoadFence = FALSE
    FullBarrier = TRUE
    AsyncSignals = FALSE
SYMMETRY Symmetry
SPECIFICATION Spec
INVARIANT NoUseAfterFree
