SPECIFICATION Spec
CONSTANTS
    Conns = {c1}
    Cases = {A, B}
    Turns = {t1, t2}
    None = None
    Never = Never
    Untitled = Untitled
    Given = Given
    Concurrent = FALSE
    MintFails = TRUE
    ReadFails = TRUE
INVARIANTS
    NoStrayRows
    TurnContextIsItsCase
SYMMETRY Symmetry
CHECK_DEADLOCK FALSE
