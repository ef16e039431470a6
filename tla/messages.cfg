CONSTANTS
    Threads = {t1, t2}
    Windows = {w1}
    NULL = NULL
    Types = {1, 2, 3}
    WM_QUIT = 3
    Filters <- SomeFilters
    MaxPosts = 2
SPECIFICATION FairSpec
CHECK_DEADLOCK FALSE
INVARIANTS
    TypeOK
    ExactlyOnceUnlessLate
    TestedUnlessLate
PROPERTIES
    WaitEnds
