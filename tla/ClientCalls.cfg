SPECIFICATION FairSpec
CONSTANTS
    c1 = c1
    c2 = c2
    None = None
    Callers = {c1, c2}
    Kinds <- MainAndTask
    Faults = {"handshake", "refused", "bad", "garbled", "lost"}
    MaxCalls = 3
    MaxEvents = 1
    MaxFaults = 1
INVARIANTS TypeOK OwnServiceAnswer OwnAnswer IInv
PROPERTIES HandledInOrder LoneCallReturns
CHECK_DEADLOCK FALSE
