SPECIFICATION Spec
CONSTANTS
    Callers = {c1, c2}
    Polls = {p1}
    None = None
    MaxBarrier = 1
    MaxGeneration = 1
    Cars = {1}
    GroupsOf <- MCGroups
    MaxJobs = 2
    Capacity = 1
    MaxChanges = 1
INVARIANT ReadsAreShared
PROPERTY ReadsEnd
CHECK_DEADLOCK FALSE
