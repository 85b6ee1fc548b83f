CONSTANTS
    m = m
    a = a
    b = b
    c = c
    NoBack = NULL
    Task <- MCTask
    MainTask = m
    QUEUE_NUMBER = 1
    MEM_TASKS_PER_SEG = 2
    Ops <- AllOps
    Joinable <- MainJoins
    Reusable = {}
    PreemptPoints <- AllPoints
SPECIFICATION Spec
SYMMETRY TaskSymmetry
INVARIANTS
    QueueAccounting
PROPERTIES
    SectionsAtomic
CHECK_DEADLOCK FALSE
