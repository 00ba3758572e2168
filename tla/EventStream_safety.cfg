SPECIFICATION Spec
CONSTANTS
    w = w
    a = a
    g = g
    c1 = c1
    c2 = c2
    Publishers = {w, g}
    Gateways = {g}
    Script <- SmallScript
    Clients = {c1}
    Capacity = 2
    Count = 2
    Buffer = 1
    QueueSize = 1
    MaxSessions = 2
    Faults = {"redis", "db", "disconnect"}
    Latest = Latest
INVARIANT InOrder
INVARIANT NoUnexplainedGap
INVARIANT StoredOnce
CHECK_DEADLOCK FALSE
