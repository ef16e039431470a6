SPECIFICATION WinFairSpec
CONSTANTS
    Clients = {main, c2}
    Main = main
    Threads = {t1}
    Mgr = Mgr
    NULL = NULL
    Requests <- PauseResume
    Results <- One
    Careful = FALSE
    Faults <- NoFaults
    MaxCount = 2
PROPERTIES
    CreateThreadReturns
CHECK_DEADLOCK FALSE
