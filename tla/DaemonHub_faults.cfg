SPECIFICATION Spec
CONSTANTS
    c1 = c1
    c2 = c2
    c3 = c3
    d1 = d1
    d2 = d2
    d3 = d3
    u1 = u1
    u2 = u2
    m1 = m1
    m2 = m2
    m3 = m3
    t1 = t1
    t2 = t2
    None = None
    Conns = {c1, c2, c3}
    Daemons = {d1, d2}
    Users = {u1, u2}
    Messages = {m1}
    Threads = {t1, t2}
    System = {}
    Scheduled = {m1}
    Faults = {"expiry", "redis", "crash"}
    DaemonOf <- ReconnectDaemonOf
    UserOf <- ReconnectUserOf
    OwnerOf <- ReconnectOwnerOf
    ThreadOf <- ReconnectThreadOf
INVARIANT RoutingConsistent
INVARIANT MetadataHeldOnce
INVARIANT ExclusiveWork
INVARIANT SignalOnce
CHECK_DEADLOCK FALSE
