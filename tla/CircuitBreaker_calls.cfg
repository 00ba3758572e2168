SPECIFICATION FairBreakerSpec
CONSTANTS
    r1 = r1
    r2 = r2
    r3 = r3
    g1 = g1
    g2 = g2
    g3 = g3
    g4 = g4
    g5 = g5
    Requests = {r1, r2, r3}
    Wrapper <- MixedWrapper
    OwnErrors = {"client"}
    Generations = {g1, g2, g3, g4, g5}
    MaxRequests = 2
    FailureThreshold = 2
    SuccessThreshold = 2
    HasInterval = TRUE
    CountWidth = 5
    NotAdmitted = NotAdmitted
INVARIANT ProbesAccounted
INVARIANT NeverWedged
PROPERTY ClosesAgain
