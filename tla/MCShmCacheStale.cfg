SPECIFICATION Spec
CONSTANTS
    x1 = x1
    x2 = x2
    x3 = x3
    s1 = s1
    s2 = s2
    None = None
    Xid <- MCXid
    Shmid <- MCShmid
    LowBits <- MCLowBits
    CacheSize = 1
    MaxMaps = 3
    Cap = 1
SYMMETRY MCSymmetry
INVARIANTS
    ShownFromItsShmid
