CONSTANTS
    m = m
    a = a
    b = b
    c = c
    NoBack = NULL
    Task <- MCTask4
    MainTask = m
    QUEUE_NUMBER = 2
    MEM_TASKS_PER_SEG = 2
    Ops <- LiveOps
    Joinable <- MainJoinsOne
    Reusable = {}
    PreemptPoints <- SafePoints
SPECIFICATION LiveSpec
INVARIANTS
    BacksReach
PROPERTIES
    NoStarvation
    JoinReturns
