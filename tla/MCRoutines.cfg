CONSTANTS
    N = 3
    W = 2
    Bit = {0, 1}
    Char = {x, y}
    Searches <- MCSearches
SPECIFICATION Spec
INVARIANTS
    SearchFinds
    RoutinesExact
CHECK_DEADLOCK FALSE
