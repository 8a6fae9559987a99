SPECIFICATION MeshSpec
CONSTANTS
    Sessions = {s1, s2}
    Gated = {s1}
    Editors = {e1}
    Ops = {fine, deep}
    MaxRounds = 3
    NoSession = NoSession
INVARIANT AcceptedIsSound
PROPERTIES HandEditStays ReviewsEnd
