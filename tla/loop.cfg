SPECIFICATION LiveSpec
CONSTANTS
    Fds = {e, f}
    EventFd = e
    Actions = {a, b}
    Delays = {0, 1}
    Uses = {{"poll", "cancel", "close", "exit"}, {"poll", "delay"}, {"cancel", "delay", "undelay"}}
    READERS_MAX = 2
    EVENTS_MAX = 2
    NONE = NONE
INVARIANTS PollInv PollArgAlive WaitsForNothing
PROPERTIES EventsRead DelayedRuns
CHECK_DEADLOCK FALSE
