SPECIFICATION Spec
CONSTANTS
    MaxAttempts = 3
    PageCandidates = 1
    PeerCandidates = 1
    PeerEnds = 1
    MaxPending = 1
    Forms <- MCForms
INVARIANTS
    TypeOK
    AttemptsDoNotMix
    RequestsStartAfresh
    FirstAnswerCounts
PROPERTIES
    FirstOfferIsAnswered
    CandidatesArrive
CHECK_DEADLOCK FALSE
