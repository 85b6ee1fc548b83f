CONSTANTS
    c1 = c1
    c2 = c2
    a = a
    b = b
    NoAlias = NoAlias
    Client <- MCClient
    Alias <- MCAlias
    SHMEM_ARR_LEAP = 2
    SHMEM_REGION_SIZE = 3
    REGIONS_MAX = 4
    CountMax = 2
    Liberties <- Careful
    PreemptPoints <- WritenAtomic
SPECIFICATION Spec
SYMMETRY ClientSymmetry
CHECK_DEADLOCK FALSE
INVARIANTS
    TypeOK
    NamesDistinct
    TableSound
    ConnectionServed
    NamesHeld
    
    WrittenWhole

    
