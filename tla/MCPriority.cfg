CONSTANTS
    m = m
    a = a
    b = b
    c = c
    NoBack = NULL
    Task <- MCTask4
    MainTask = m
    QUEUE_NUMBER = 2
    MEM_TASKS_PER_SEG = 2
    Ops <- QueueOps
    Joinable <- AnyPair
    Reusable = {}
    PreemptPoints <- SafePoints
SPECIFICATION Spec
SYMMETRY TaskSymmetry
PROPERTIES
    BestLevelFirst
