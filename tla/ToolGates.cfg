SPECIFICATION Spec
CONSTANTS
    Turns = {t1, t2}
    Areas = {a1, a2}
    Codes = {code, Empty}
    Empty = Empty
    Rungs = {100, 105, 300}
    Finest = 105
    Suggested = 300
    MaxCalls = 2
    Nothing = Nothing
INVARIANTS CodeRunsAsApproved ReplaysOwnApproval AskedOncePerTurn
SYMMETRY Interchangeable
