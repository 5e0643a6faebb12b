SPECIFICATION LiveSpec
CONSTANTS
    s1 = s1
    s2 = s2
    p1 = p1
    w1 = w1
    w2 = w2
    c1 = c1
    pong = pong
    blank = blank
    None = None
    Screens = {}
    Phones = {p1}
    Workers = {w1, w2}
    Codes = {c1}
    TTL = 1
    GameNames <- MCNames
    BlankNames <- MCBlank
    SameGame <- MCSame
    Counts = {0, 1}
    Dedupe = TRUE
PROPERTIES
    GamesConverge
    RegistrySpec
CHECK_DEADLOCK FALSE
