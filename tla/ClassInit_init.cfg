SPECIFICATION Spec
CONSTANTS
    A = A
    B = B
    F = F
    M = M
    N = N
    X = X
    K = K
    NULL = NULL
    Thread = {t1, t2}
    Class = {A, B, F, M, N, X}
    Cctor = {A, B, F, M, X}
    Needs <- CycleNeeds
    Throws = {F}
    Gone = {X}
    Module = M
    TypeInitializationException = A
    Mortal = {t1}
    MaxCalls = 2
INVARIANTS
    TypeOK
    LockLives
    WaiterSeesCause
PROPERTIES
    InitializedOnce
    EarlyOnlyInCycle
    CallReturns
\* The threads stop when they have made all their calls; CallReturns sees any
\* that stop before.
CHECK_DEADLOCK FALSE
