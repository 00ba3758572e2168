SPECIFICATION FairSpec
CONSTANTS
    a1 = a1
    a2 = a2
    t1 = t1
    t2 = t2
    None = None
    Agents = {a1}
    Tasks = {t1, t2}
    Needs <- ChainNeeds
    MaxIterations = 1
    Extension = 1
    IterationCap = 2
    MaxReassign = 1
    MaxCalls = 2
    MaxRounds = 0
    MaxReminders = 0
    MaxActions = 2
    Faults = {"llm", "redis", "clock"}
INVARIANT DependencyOrder
INVARIANT BoundedWork
 
CHECK_DEADLOCK FALSE
