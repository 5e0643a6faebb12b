SPECIFICATION Spec
CONSTANTS
    s1 = s1
    s2 = s2
    p1 = p1
    p2 = p2
    w1 = w1
    w2 = w2
    c1 = c1
    c2 = c2
    c3 = c3
    None = None
    Screens <- MCScreens
    Phones <- MCPhones
    Workers <- MCWorkers
    Codes <- MCCodes
    TTL = 2
SYMMETRY Symmetry
INVARIANTS
    TypeOK
    CodesMatchHosts
    InputsFollowHost
    GoneLeavesNothing
PROPERTIES
    LiveCodeIsStable
    PairingOutlivesCode
CHECK_DEADLOCK FALSE
