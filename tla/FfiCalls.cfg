SPECIFICATION FairSpec
CONSTANTS
    Programs = {"client", "manifest", "store"}
    Servers = 1
    Published <- Versions
    Stores = {h1, h2}
    Users = {"user"}
    NotText = NotText
    Tokens = {"t1"}
    MaxFaults = 3
INVARIANTS TypeOK HandleIsSession WholeManifest NamesReadable
PROPERTIES OthersKept Served
