SPECIFICATION FairSpec
CONSTANTS
    Clients = {main}
    Main = main
    Threads = {t1}
    Mgr = Mgr
    NULL = NULL
    Requests <- ResumeAndJoin
    Results <- Wide
    Careful = TRUE
    Faults <- NoFaults
PROPERTIES
    ResumeAndJoinReturns
CHECK_DEADLOCK FALSE
