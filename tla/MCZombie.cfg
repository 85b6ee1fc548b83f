CONSTANTS
    m = m
    a = a
    b = b
    c = c
    NoBack = NULL
    Task <- MCTask
    MainTask = m
    QUEUE_NUMBER = 2
    MEM_TASKS_PER_SEG = 2
    Ops <- ClientOps
    Joinable <- AnyPair
    Reusable = {a, b}
    PreemptPoints <- EndingPoints
SPECIFICATION Spec
SYMMETRY TaskSymmetry
PROPERTIES
    ZombieIsFinal
