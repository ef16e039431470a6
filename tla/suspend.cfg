SPECIFICATION WinFairSpec
CONSTANTS
    Clients = {main}
    Main = main
    Threads = {t1, t2}
    Mgr = Mgr
    NULL = NULL
    Requests <- PauseResume
    Results <- One
    Careful = FALSE
    Faults <- NoFaults
    MaxCount = 2
INVARIANTS
    WinTypeOK
    CountedIsHeld
PROPERTIES
    ReleasedRuns
CHECK_DEADLOCK FALSE
