SPECIFICATION Spec
CONSTANTS
    t1 = t1
    t2 = t2
    Tasks = {t1, t2}
    PRIO <- Priorities
    Uses <- Queues
    SIZE = 2
    BYTES = 5
    BytesOf <- Bytes
    SEND_MAX = 4
    NULL = NULL
INVARIANTS MessagesKept FirstInFirstOut NoWaiterWithMessage CountIsMessages
