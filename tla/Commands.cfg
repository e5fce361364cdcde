SPECIFICATION Spec
CONSTANTS
    KeyOrder <- Order
    Lower <- LowerCase
    Apps <- Games
    Lines <- Calls
    Files <- Contents
    Numbers = {"1", "2", "9", "10", "101", "102", "103"}
    Sealed = {"c0ffee"}
    MaxFaults = 1
INVARIANTS TypeOK RightManifest AllDepots ReadableNames
CHECK_DEADLOCK FALSE
