SPECIFICATION FairSpec
CONSTANTS
    ca = ca
    cb = cb
    cc = cc
    v1 = v1
    v2 = v2
    v3 = v3
    Ids = {ca, cb, cc}
    Versions = {v1}
    Manifest <- OneVersion
    None = None
    Zero = Zero
    Junk = Junk
    MaxDownloads = 2
    MaxAttempts = 2
    MaxRuns = 3
    Faults = {"io", "write", "save", "crash", "damage", "sibling"}
    MaxFaults = 2
INVARIANTS TypeOK InstalledIntact
PROPERTIES StagedChunksSurvive Terminates
