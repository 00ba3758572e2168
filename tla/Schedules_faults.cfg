SPECIFICATION Spec
CONSTANTS
    s1 = s1
    s2 = s2
    q1 = q1
    q2 = q2
    Schedules = {s1, s2}
    Firing = {s2}
    Requests = {q1, q2}
    Kinds = {"create", "pause", "resume", "update", "delete"}
    MaxPerUser = 1
    MaxRuns = 1
    MaxTries = 2
    Faults = {"temporal", "db", "redis", "crash", "timeout"}
    None = None
SYMMETRY RequestSymmetry
 
INVARIANT DeletedStaysQuiet
INVARIANT LimitKept
INVARIANT StatsAgree
CHECK_DEADLOCK FALSE
