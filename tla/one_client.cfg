SPECIFICATION FairSpec
CONSTANTS
    Clients = {main}
    Main = main
    Threads = {t1, t2}
    Mgr = Mgr
    NULL = NULL
    Requests <- PauseResume
    Results <- Wide
    Careful = TRUE
    Faults <- NoFaults
INVARIANTS
    RegisteredOnce
    DiedHasEnded
    ServesTheSender
    AnswersAreTrue
    StatusIsTrue
    WaitsInHope
PROPERTIES
    ForgetsOnlyTheDead
    ImplementsService
    SendReturnsIfInTime
    JoinReturns
    TerminateReturnsIfInTime
CHECK_DEADLOCK FALSE
