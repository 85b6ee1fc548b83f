CONSTANTS
    m = m
    a = a
    b = b
    NoBack = NULL
    Task <- MCTask
    MainTask = m
    QUEUE_NUMBER = 2
    MEM_TASKS_PER_SEG = 2
    Ops <- LockOps
    Joinable = {}
    Reusable = {}
    PreemptPoints <- LockPoints
    Kinds <- QueuedOnly
SPECIFICATION LocksSpec
INVARIANT NoLostWakeup
