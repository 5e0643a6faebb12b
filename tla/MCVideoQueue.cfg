SPECIFICATION LiveSpec
CONSTANTS
    Capacity = 3
    MaxFrames = 6
    None = None
INVARIANTS
    TypeOK
    StreamStartsAndAdvances
    NoLostWakeUp
PROPERTIES
    QueuedFramesMove
    CloseEndsSender
CHECK_DEADLOCK FALSE
