SPECIFICATION FairSpec
CONSTANTS
    d1 = d1
    d2 = d2
    q1 = q1
    q2 = q2
    x1 = x1
    x2 = x2
    loop = loop
    manual = manual
    NoItem = NoItem
    Downloads <- MCSoloDownload
    Instances <- MCOne
    Home <- MCHomeOne
    Ids = {q1, q2}
    Runners = {loop}
    Loop = loop
    Conditions = {"aged", "stalled", "malicious", "failed"}
    Faults = {"crash", "raise", "deny", "lost", "page", "unread", "unsaved"}
    Users = {"settings", "reset"}
    MaxStrikes = 2
    MaxFaults = 1
INVARIANTS
    RemovedRemembered
PROPERTIES
    StalledRemoved
