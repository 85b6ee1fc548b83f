CONSTANTS
    Node = {n1, n2, n3, n4, n5}
    QUEUE_NUMBER = 3
    NULL = NULL
SPECIFICATION Spec
SYMMETRY NodeSymmetry
INVARIANTS
    TypeOK
    NothingLost
    SizeExact
    NoDanglingBack
PROPERTIES
    RunQueueSpec
CHECK_DEADLOCK FALSE
