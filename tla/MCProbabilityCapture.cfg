SPECIFICATION FairSpec
CONSTANTS
    Runs = {r1}
    MaxAttempts = 2
    MaxRequests = 1
    MaxFaults = 1
    MaxStarts = 2
CHECK_DEADLOCK FALSE
INVARIANTS
    TypeOK
    RequestNotLost
    OutcomeMatchesClaim
    SuccessIsArchived
    AttemptsAccounted
PROPERTIES
    CaptureEnds
