SPECIFICATION Spec
CONSTANTS
    game = game
    plain = plain
    emitted = emitted
    broken = broken
    abstract = abstract
    throwing = throwing
    native = native
    NULL = NULL
    Thread = {t1, t2}
    Method = {plain, emitted}
    Dynamic = {emitted}
    BadIL = {}
    NoVTable = {}
    BadCctor = {}
    NativeWrapper = {}
    Assembly = {game}
    AssemblyOf <- InGame
    NumBlock = 2
PROPERTIES
    SymbolFollows
    SourceFollows
