SPECIFICATION FairSpec
CONSTANTS
    u1 = u1
    u2 = u2
    Nobody = Nobody
    Users = {u1, u2}
    Options <- AnyStart
    ListedServers = 2
    Confirmations <- Codes
    FaultKinds = {"broken", "directory", "refused", "wrong", "load", "save", "crash", "expire"}
    MaxFaults = 4
INVARIANTS TypeOK RefusalIsFinal GivesUpLast PasswordsBounded RememberedLogin
PROPERTIES TokensKept RunEnds LoginWorks
