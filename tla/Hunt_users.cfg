SPECIFICATION Spec
CONSTANTS
    i1 = i1
    x1 = x1
    x2 = x2
    Instances <- MCOne
    Items <- MCItems
    Applications = {"radarr", "readarr", "whisparr"}
    HuntSize = 2
    Cap = 2
    PackSize = 1
    MaxCost = 1
    Faults = {"refused", "unmarked", "down"}
    Users = {"stop", "forget", "forgetAll"}
    MaxFaults = 1
INVARIANTS
    TypeOK
    CapKept
    BarMatches
SYMMETRY MCSymmetry
