CONSTANTS
    t1 = t1
    t2 = t2
    none = none
    Task <- MCTask
    NoTask = none
    Word = {0, 1}
    StackWords = 2
    Written <- MCWritten
SPECIFICATION Spec
PROPERTIES
    ProcessorsSpec
    ResumesOnce
    StackPointerFalls
CHECK_DEADLOCK FALSE
