SPECIFICATION Spec
CONSTANTS
    SIZE = 8
    Msgs <- Messages
    FRONT = {"FIX", "DYN"}
    MAX1 = 1
    MAX2 = 3
    NONE = NONE
INVARIANTS FreeSpaceCounted
PROPERTY ImplementsSequence
