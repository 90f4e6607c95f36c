CONSTANTS
    NONE = NONE
    Idle = idle
    idle = idle
    high = high
    mid = mid
    low = low
    m1 = m1
    m2 = m2
    Sems = {s1}
    Mutexes = {}
    PRI_MAX = 3
    TICK_MODULUS = 4
    SEM_MAX = 1
    NESTED_MAX = 1
    SUSPEND_MAX = 1
    LOCK_MAX = 1
    INTRPT_MAX = 2
    InitCount = 0
    Timeouts = {1, 2}
    Prios = {}
    Calls = {"sem_take", "sem_give", "sem_give_all", "sem_count_set", "sem_create", "sem_del", "task_yield", "sched_disable"}
    IsrCalls = {"tick", "sem_give", "sem_give_all"}
    Tasks <- MCTasks
    InitReady <- MCReadyShared
    InitPrio <- MCPrioShared
SPECIFICATION Spec
INVARIANTS TypeOK ListsMatchState RunsHighest NoWaiterWithCount DeadlinesKept
PROPERTIES SchedLockKeepsTask
