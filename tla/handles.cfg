SPECIFICATION Spec
CONSTANTS
    Objects = {o1, o2, o3, o4}
    Handles = {h1, h2, h3}
    Owners = {p1, p2}
    Descriptions = {d1, d2, d3}
    NULL = NULL
    PageSize = 2
    Sizes <- NoSizes
    Unlike = TRUE
SYMMETRY Symmetry
INVARIANTS
    HandleKeepsObject
    DestroyedWhenUnused
    IndexIsOwn
    TableStaysSmall
    ComparesIdentity
PROPERTIES
    ImplementsService
CHECK_DEADLOCK FALSE
