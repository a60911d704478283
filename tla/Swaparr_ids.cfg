SPECIFICATION Spec
CONSTANTS
    d1 = d1
    d2 = d2
    q1 = q1
    q2 = q2
    x1 = x1
    x2 = x2
    loop = loop
    manual = manual
    NoItem = NoItem
    Downloads <- MCDownloads
    Instances <- MCTwo
    Home <- MCHomeTwo
    Ids = {q1}
    Runners = {loop}
    Loop = loop
    Conditions = {"stalled"}
    Faults = {}
    Users = {}
    MaxStrikes = 2
    MaxFaults = 0
INVARIANTS
    NoEarlyRemoval
