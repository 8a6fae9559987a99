SPECIFICATION Spec
CONSTANTS
    row1 = row1
    row2 = row2
    draw = draw
    row = row
    id = id
    s1 = s1
    s2 = s2
    Waits = {row1, row2, draw}
    Keys = {row, id}
    Sessions = {s1, s2}
    Answers = {yes, bad}
    Invalid = bad
    KeyOf <- MCKeyOf
    SessionOf <- MCSessionOf
    Layers <- MCLayers
    Draws <- MCDraws
    NoWait = NoWait
INVARIANTS
    WaitIsReachable
PROPERTIES
    FutureSetOnce
    AsksTheUser
