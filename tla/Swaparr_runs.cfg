SPECIFICATION Spec
CONSTANTS
    d1 = d1
    d2 = d2
    q1 = q1
    q2 = q2
    x1 = x1
    x2 = x2
    loop = loop
    manual = manual
    NoItem = NoItem
    Downloads <- MCDownloads
    Instances <- MCOne
    Home <- MCHomeOne
    Ids = {q1, q2}
    Runners = {loop, manual}
    Loop = loop
    Conditions = {"stalled"}
    Faults = {"crash"}
    Users = {}
    MaxStrikes = 2
    MaxFaults = 1
INVARIANTS
    TypeOK
    StrikesEarned
    NoEarlyRemoval
    RemovedRemembered
SYMMETRY MCSymmetry
