SPECIFICATION Spec
CONSTANTS
    s1 = s1
    s2 = s2
    Sessions = {s1, s2}
    Sources <- MCSources
    Best <- MCBest
    Floor <- MCFloor
    Stride <- MCStride
    Elapsed = {16, 48}
    RefreshFrames = 2
    StableFrames = 1
    StartupRetries = 1
    EmptyRetries = 1
    ScaleFailures = 1
    Wrap = 2880
    None = None
SYMMETRY Symmetry
INVARIANTS
    TypeOK
    KeyframeOnItsWay
PROPERTIES
    TimestampsAdvance
