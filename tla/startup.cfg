SPECIFICATION Spec
CONSTANTS
    Clients = {c1, c2}
    NULL = NULL
    CloneFails = TRUE
INVARIANTS
    TypeOK
    AssertionsHold
    ScanningIsFirst
PROPERTIES
    NoManagerStaysStopped
    FirstRequestServed
CHECK_DEADLOCK FALSE
