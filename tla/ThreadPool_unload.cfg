SPECIFICATION Spec
CONSTANTS
    game = game
    w1 = w1
    w2 = w2
    NULL = NULL
    NumJob = 2
    Domain = {game}
    DomainOf <- InGame
    Unloadable = {game}
    Worker <- TwoWorkers
    INITIAL_QUEUE_LENGTH = 1
    mono_min_worker_threads = 1
    mono_max_worker_threads = 1
INVARIANT
    NoRunInUnloaded
CHECK_DEADLOCK FALSE
