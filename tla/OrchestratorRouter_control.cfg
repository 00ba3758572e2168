SPECIFICATION FairSpec
CONSTANTS
    None = None
    MaxSignals = 3
INVARIANT ChildFollows
INVARIANT StreamEndLast
 
PROPERTY Ends
CHECK_DEADLOCK FALSE
