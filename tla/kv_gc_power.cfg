SPECIFICATION SavedSpec
CONSTANTS
    Keys = {k1, k2}
    Vals = {v1, v2}
    Clients = {c1}
    NONE = NONE
    SLOTS = 3
    Faults = {{"gc"}}
    LEAVING_MAX = 1
    SEM_MAX = 1
    WAITER_MODULUS = 256
SYMMETRY Sym
INVARIANT SavedSurvives
CHECK_DEADLOCK FALSE
