SPECIFICATION FairSpec
CONSTANTS
    f1 = f1
    f2 = f2
    a1 = a1
    Feedbacks = {f1, f2}
    Approvals = {a1}
    Matching = {f2, a1}
    Fragile = {f1, a1}
    MaxRounds = 2
    MaxDrafts = 1
    Faults = {"lock", "network", "expiry", "hangup", "llm"}
    None = None
INVARIANT Exclusive
INVARIANT PlanBounded
INVARIANT ApprovalBacked
PROPERTY LockFreed
CHECK_DEADLOCK FALSE
