CONSTANTS
    idle = idle
    high = high
    mid = mid
    low = low
    NONE = NONE
    Idle = idle
    Sems = {}
    m1 = m1
    m2 = m2
    Mutexes = {m1, m2}
    PRI_MAX = 4
    TICK_MODULUS = 3
    SEM_MAX = 1
    NESTED_MAX = 1
    SUSPEND_MAX = 2
    LOCK_MAX = 1
    INTRPT_MAX = 1
    InitCount = 0
    Timeouts = {1}
    Prios = {}
    Calls = {"mutex_lock", "mutex_unlock", "task_sleep"}
    IsrCalls = {"tick"}
    Tasks <- MCTasks
    InitReady <- MCReady
    InitPrio <- MCPrio
SPECIFICATION Spec
SYMMETRY MutexSymmetry
INVARIANTS WaitersSorted PriorityInherited LockResult
