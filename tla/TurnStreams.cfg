SPECIFICATION Spec
CONSTANTS
    Conns = {c1, c2, c3}
    Cases = {A}
    Turns = {t1, t2}
    Root = Root
    NoTurn = NoTurn
    NoConn = NoConn
    NoStream = NoStream
    Overlap = FALSE
INVARIANTS
    OneRunningTurnPerStream
    FramesReachOpenSocket
PROPERTIES
    EndedTurnSettles
    StopReachesVisibleTurn
CHECK_DEADLOCK FALSE
