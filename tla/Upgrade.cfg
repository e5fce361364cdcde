SPECIFICATION FairSpec
CONSTANTS
    ca = ca
    cb = cb
    cc = cc
    v1 = v1
    v2 = v2
    v3 = v3
    None = None
    Zero = Zero
    Junk = Junk
    Ids = {ca, cb, cc}
    Versions = {v1, v2, v3}
    Manifest <- Upgrades
    MaxDownloads = 2
    MaxAttempts = 1
    MaxRuns = 3
    Faults = {"io", "write", "save", "crash", "damage", "sibling"}
    MaxFaults = 2
INVARIANTS IInv LastWriteOnly ReusedChunksCopied
PROPERTIES ImplementsAtomicFile
