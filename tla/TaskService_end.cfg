SPECIFICATION FairSpec
CONSTANTS
    p1 = p1
    c1 = c1
    None = None
    Submits = {1}
    Polls = {p1}
    Controls = {c1}
    MaxErrors = 2
    MaxAttempts = 2
    MaxFaults = 1
    MaxCalls = 3
    Ends = {"COMPLETED", "CANCELLED"}
    Faults = {"db", "temporal", "crash"}
INVARIANT Truthful
INVARIANT Settled
PROPERTY Persisted
CHECK_DEADLOCK FALSE
