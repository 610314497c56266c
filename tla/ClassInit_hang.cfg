SPECIFICATION Spec
CONSTANTS
    A = A
    B = B
    F = F
    M = M
    N = N
    X = X
    K = K
    NULL = NULL
    Thread = {t1, t2, t3}
    Class = {K, M}
    Cctor = {K, M}
    Needs <- ChainNeeds
    Throws = {}
    Gone = {}
    Module = NULL
    TypeInitializationException = NULL
    Mortal = {}
    MaxCalls = 2
PROPERTY CallReturns
CHECK_DEADLOCK FALSE
