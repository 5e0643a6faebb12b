CONSTANTS
    None = None
    Viewers = {v}
    Phones = {}
    Sessions = {s1, s2}
    MaxPlayers = 1
SPECIFICATION Spec
PROPERTY ReconnectedSessionsStay
