SPECIFICATION FairSpec
CONSTANTS
    w = w
    a = a
    g = g
    c1 = c1
    c2 = c2
    Publishers = {w, a}
    Gateways = {}
    Script <- SmallScript
    Clients = {c1}
    Capacity = 2
    Count = 2
    Buffer = 1
    QueueSize = 2
    MaxSessions = 2
    Faults = {"disconnect"}
    Latest = Latest
PROPERTY SessionEnds
CHECK_DEADLOCK FALSE
