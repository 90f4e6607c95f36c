CONSTANTS
    NONE = NONE
    Idle = idle
    idle = idle
    high = high
    mid = mid
    low = low
    m1 = m1
    m2 = m2
    Sems = {}
    Mutexes = {m1}
    PRI_MAX = 4
    TICK_MODULUS = 3
    SEM_MAX = 1
    NESTED_MAX = 1
    SUSPEND_MAX = 2
    LOCK_MAX = 1
    INTRPT_MAX = 1
    InitCount = 0
    Timeouts = {1}
    Prios = {2}
    Calls = {"mutex_lock", "mutex_unlock", "mutex_del", "mutex_create", "task_del", "task_create", "task_suspend", "task_resume", "task_pri_change"}
    IsrCalls = {"tick", "task_suspend"}
    Tasks <- MCTasks3
    InitReady <- MCReady3
    InitPrio <- MCPrio3
SPECIFICATION Spec
INVARIANTS HighestPriIsFirst OwnersConsistent KInv
