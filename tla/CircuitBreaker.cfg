SPECIFICATION BreakerSpec
CONSTANTS
    Tools = {t1, t2}
    Turns = {c1, c2}
    THRESHOLD = 3
    COOLDOWN_S = 2
INVARIANTS
    TripNeedsUpstreamStreak
PROPERTIES
    WindowOnlyCountsDown
    TrippedToolReopens
