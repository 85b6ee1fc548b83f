CONSTANTS
    m = m
    a = a
    b = b
    c = c
    NoBack = NULL
    Task <- MCTask
    MainTask = m
    QUEUE_NUMBER = 3
    MEM_TASKS_PER_SEG = 2
    Ops <- ClientOps
    Joinable <- TasksJoin
    Reusable = {a, b}
    PreemptPoints <- SafePoints
SPECIFICATION Spec
SYMMETRY TaskSymmetry
INVARIANTS
    TypeOK
    QueueAccounting
    NoTaskLost
    ContextsAlive
    QuantumArmed
PROPERTIES
    ZombieIsFinal
    OnlyQuantumDemotes
    JoinGetsResult
