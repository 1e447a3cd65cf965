CONSTANTS
    x = x
    y = y
    z = z
    Vars = {x, y, z}
    Allocs = {1, 2}
    Handles = {1, 2, 3, 4}
    MayDropBoth = FALSE
    MayReuseFailed = TRUE
SPECIFICATION Spec
SYMMETRY Symmetry
INVARIANT CountsAreExact
CHECK_DEADLOCK FALSE
