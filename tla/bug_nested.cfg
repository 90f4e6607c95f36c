CONSTANTS
    idle = idle
    high = high
    mid = mid
    low = low
    m1 = m1
    m2 = m2
    NONE = NONE
    Idle = idle
    Sems = {}
    Mutexes = {m1}
    PRI_MAX = 4
    TICK_MODULUS = 3
    SEM_MAX = 1
    NESTED_MAX = 2
    SUSPEND_MAX = 1
    LOCK_MAX = 1
    INTRPT_MAX = 1
    InitCount = 0
    Timeouts = {1}
    Prios = {0, 2}
    Calls = {"mutex_lock", "mutex_unlock", "task_del", "task_sleep"}
    IsrCalls = {"tick"}
    Tasks <- MCTasks3
    InitReady <- MCReady3
    InitPrio <- MCPrio3
SPECIFICATION Spec
PROPERTY NewOwnerNotNested
