CONSTANTS
    Task = {t1, t2, t3, t4, t5}
    MEM_TASKS_PER_SEG = 2
SPECIFICATION Spec
SYMMETRY TaskSymmetry
INVARIANTS
    TypeOK
    SpotsExclusive
    LowestFree
    StackDepth
CHECK_DEADLOCK FALSE
