SPECIFICATION Spec
CONSTANTS
    s1 = s1
    s2 = s2
    p1 = p1
    w1 = w1
    w2 = w2
    c1 = c1
    pong = pong
    blank = blank
    None = None
    Screens = {s1}
    Phones = {p1}
    Workers = {w1}
    Codes = {c1}
    TTL = 1
    GameNames <- NoNames
    BlankNames <- NoNames
    SameGame <- NoGames
    Counts = {}
    Dedupe = FALSE
INVARIANT PairedPhonesAreRouted
CHECK_DEADLOCK FALSE
