SPECIFICATION Spec
CONSTANTS
    i1 = i1
    x1 = x1
    x2 = x2
    Instances <- MCOne
    Items <- MCItems
    Applications = {"eros"}
    HuntSize = 2
    Cap = 9
    PackSize = 1
    MaxCost = 3
    Faults = {}
    Users = {}
    MaxFaults = 0
INVARIANTS
    NotAgain
SYMMETRY MCSymmetry
