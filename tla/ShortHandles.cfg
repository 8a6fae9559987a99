SPECIFICATION Spec
CONSTANTS
    Cases = {k1, k2}
    Turns = {t1}
    Layers = {a, b}
    Artifacts = {x}
    None = None
    Cap = 2
    Overlap = FALSE
    SaveFails = TRUE
    ReadFails = TRUE
INVARIANTS
    TypeOK
    ShownHandlesResolve
    HandlesDistinct
SYMMETRY Symmetry
