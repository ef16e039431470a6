SPECIFICATION Spec
CONSTANTS
    Clients = {main}
    Main = main
    Threads = {t1}
    Mgr = Mgr
    NULL = NULL
    Requests <- NoRequests
    Results <- Wide
    Careful = TRUE
    Faults <- NoFaults
INVARIANTS
    DiedIsReaped
CHECK_DEADLOCK FALSE
