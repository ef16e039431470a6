SPECIFICATION Spec
CONSTANTS
    Objects = {o1, o2, o3}
    Handles = {h1, h2}
    Owners = {p1}
    Descriptions = {d1, d2}
    NULL = NULL
    PageSize = 2
    Sizes <- UpToFour
    Unlike = FALSE
SYMMETRY Symmetry
INVARIANTS
    TypeOK
    TableIsSound
CHECK_DEADLOCK FALSE
