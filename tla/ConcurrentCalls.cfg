SPECIFICATION FairSpec
CONSTANTS
    c1 = c1
    c2 = c2
    None = None
    Callers = {c1, c2}
    Kinds <- TwoTasks
    Faults = {}
    MaxCalls = 3
    MaxEvents = 0
    MaxFaults = 0
PROPERTIES EveryCallReturns
CHECK_DEADLOCK FALSE
