SPECIFICATION LiveSpec
CONSTANTS
    Viewers = {v}
    Phones = {p}
    MaxPlayers = 1
    MaxPending = 2
    Bitmaps <- MCBitmaps
    None = None
    v = v
    p = p
INVARIANT TypeOK
PROPERTIES
    InputsStayInOrder
    LastInputWins
CHECK_DEADLOCK FALSE
