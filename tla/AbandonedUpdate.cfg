SPECIFICATION Spec
CONSTANTS
    d1 = d1
    d2 = d2
    m1 = m1
    m2 = m2
    m3 = m3
    n1 = n1
    n2 = n2
    x = x
    y = y
    z = z
    b1 = b1
    b2 = b2
    None = None
    Mixed = Mixed
    Contents = {x, y, z}
    Depots = {d1}
    Files = {1, 2, 3, 4}
    Manifests = {m1, m2, m3}
    Tree <- ThreeVersions
    Encrypted = {}
    Requests <- AnyVersion
    Builds = {b1}
    CustomOutput = TRUE
    Faults = {"file"}
    MaxFaults = 1
INVARIANT UpToDateIsTrue
