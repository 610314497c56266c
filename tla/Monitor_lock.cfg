SPECIFICATION Spec
CONSTANTS
    t1 = t1
    t2 = t2
    t3 = t3
    NULL = NULL
    Thread = {t1, t2, t3}
    Object = {o1}
    Event = {e1, e2}
    r1 = r1
    r2 = r2
    Record = {r1, r2}
    ArrayOf <- TwoArrays
    SEM_MAX = 2
    Program <- ThreePrograms
INVARIANTS
    TypeOK
    AssertionsHold
    EntryCounted
    NoStall
    WaitersListed
PROPERTIES
    KeepsContract
    FreeLockTaken
\* The threads of a program may all wait for a pulse.
CHECK_DEADLOCK FALSE
