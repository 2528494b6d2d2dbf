SPECIFICATION Spec
CONSTANTS
    None = None
    Requests = {r1, r2}
    Families = {A}
    Values = {x, y}
    Locking = TRUE
    MaxTime = 5
SYMMETRY Symmetry
INVARIANT
    VariantsApart
CHECK_DEADLOCK FALSE
