SPECIFICATION LiveSpec
CONSTANTS
    c1 = c1
    c2 = c2
    Works = {a, d}
    Delayed = {d}
    Queues = {q1, q2}
    Callers = {c1, c2}
    NONE = NONE
    Calls <- CallsOf
    MSG_NUM = 1
INVARIANTS WorkInv OnOneList WaitsOnItsQueue PendingCounted
PROPERTY PendingRuns
