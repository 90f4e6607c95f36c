SPECIFICATION LiveSpec
CONSTANTS
    t1 = t1
    t2 = t2
    t3 = t3
    Timers = {t1, t2, t3}
    Senders = {s1}
    NONE = NONE
    Delays = {1, 2}
    Rounds = {0, 1, 2}
    Uses <- Applications
    MSG_NUM = 1
    LATE_MAX = 1
INVARIANTS TimerInv ListMatchesState BlocksConserved SortedByRemain FiresOnTime
PROPERTY CallbackRuns
