SPECIFICATION FairSpec
CONSTANTS
    None = None
    a = a
    b = b
    c = c
    d = d
    Tasks = {a, b, c}
    Domain = d
    Solo = solo
    Searcher = searcher
    Refiner = refiner
    Decomposer = decomposer
    Languages = {l1}
    MaxSubqueries = 2
    Plans <- MCPlans
    MaxConcurrency = 2
    GapLimit = 2
    MaxIterations = 2
    MaxFaults = 1
    MaxAsked = 2
    Unnamed = {b}
INVARIANT NothingLost
INVARIANT ResultsPaid
INVARIANT GivenResults
 
PROPERTY Ends
CHECK_DEADLOCK FALSE
