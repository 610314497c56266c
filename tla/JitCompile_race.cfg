SPECIFICATION Spec
CONSTANTS
    game = game
    plain = plain
    emitted = emitted
    broken = broken
    abstract = abstract
    throwing = throwing
    native = native
    NULL = NULL
    Thread = {t1, t2}
    Method = {emitted, broken, abstract, throwing, native}
    Dynamic = {emitted, throwing}
    BadIL = {broken}
    NoVTable = {abstract}
    BadCctor = {throwing}
    NativeWrapper = {native}
    Assembly = {game}
    AssemblyOf <- InGame
    NumBlock = 2
INVARIANTS
    TypeOK
    SameCode
    RunningCodeKnown
    SymbolOnce
    FreeFinds
\* A failed assertion or a NULL dereference ends the process.
CHECK_DEADLOCK FALSE
