CONSTANTS
    None = None
    Viewers = {v}
    Phones = {p}
    Sessions = {s1, s2}
    MaxPlayers = 1
SPECIFICATION Spec
SYMMETRY SessionSymmetry
INVARIANT TypeOK
INVARIANT SessionCountIsRight
INVARIANT SlotsBelongToPlayers
INVARIANT NewSessionsGetRefresh
INVARIANT RemovedSessionsAreClosed
