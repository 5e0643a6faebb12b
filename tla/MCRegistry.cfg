SPECIFICATION Spec
CONSTANTS
    b1 = b1
    w1 = w1
    w2 = w2
    w3 = w3
    pong = pong
    pongCaps = pongCaps
    tetris = tetris
    blank = blank
    None = None
    Browsers = {b1}
    Workers <- MCWorkers
    GameNames <- MCNames
    BlankNames <- MCBlank
    SameGame <- MCSame
    Counts = {0}
    MaxWorkers = 5
SYMMETRY WorkerSymmetry
INVARIANTS
    TypeOK
    DedupeIgnoresMapOrder
    EveryGameListedOnce
