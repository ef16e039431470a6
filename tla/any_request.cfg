SPECIFICATION Spec
CONSTANTS
    Clients = {main}
    Main = main
    Threads = {t1}
    Mgr = Mgr
    NULL = NULL
    Requests <- AllRequests
    Results <- SmallAndWide
    Careful = FALSE
    Faults <- AllFaults
INVARIANTS
    TypeOK
    RegisteredOnce
    EndsAreTrue
CHECK_DEADLOCK FALSE
