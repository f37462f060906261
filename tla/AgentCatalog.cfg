CONSTANTS
    Requests = {"r1", "r2"}
    Agents = {"a1", "a2", "a3"}
    Subs = {"s1", "s2"}
    Mcps = {"m1"}
    Starts <- MCStarts
    MaxRequests = 2
SPECIFICATION FairSpec
INVARIANTS TypeOK DefaultUnlessDeleted
PROPERTIES BornComplete TasksKept 
CHECK_DEADLOCK FALSE
