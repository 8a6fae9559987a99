SPECIFICATION LinkSpec
CONSTANTS
    Frames = 5
    QueueMax = 2
    Faults = 3
INVARIANTS LinkTypeOK NothingVanishes ReadOnceInOrder
PROPERTY Reconnects
