SPECIFICATION Spec
CONSTANTS
    w1 = w1
    w2 = w2
    w3 = w3
    p1 = p1
    p2 = p2
    Workers = {w1, w2, w3}
    Procs = {p1, p2}
    ProcOf <- MCProcOf
    Keys = {k1}
    Items = {x}
    Absent = Absent
    NoOp = NoOp
    Nobody = Nobody
    Torn = Torn
    NoFile = NoFile
    Flock = TRUE
    ReadFaults = FALSE
PROPERTIES
    AtomicSpec
    CallsEnd
