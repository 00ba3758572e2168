SPECIFICATION Spec
CONSTANTS
    a1 = a1
    a2 = a2
    t1 = t1
    t2 = t2
    None = None
    Agents = {a1, a2}
    Tasks = {}
    Needs <- ChainNeeds
    MaxIterations = 2
    Extension = 1
    IterationCap = 2
    MaxReassign = 0
    MaxCalls = 2
    MaxRounds = 0
    MaxReminders = 1
    MaxActions = 1
    Faults = {"kill", "llm"}
INVARIANT Accounted
 
PROPERTY FansOut
CHECK_DEADLOCK FALSE
