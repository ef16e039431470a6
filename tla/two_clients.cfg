SPECIFICATION Spec
CONSTANTS
    Clients = {main, other}
    Main = main
    Threads = {t1, t2}
    Mgr = Mgr
    NULL = NULL
    Requests <- NoRequests
    Results <- Wide
    Careful = TRUE
    Faults <- NoFaults
SYMMETRY Symmetry
INVARIANTS
    RegisteredOnce
    EndsAreTrue
CHECK_DEADLOCK FALSE
