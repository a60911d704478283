SPECIFICATION FairSpec
CONSTANTS
    i1 = i1
    x1 = x1
    x2 = x2
    Instances <- MCOne
    Items <- MCItems
    Applications = {"sonarr", "lidarr"}
    HuntSize = 2
    Cap = 1
    PackSize = 2
    MaxCost = 2
    Faults = {"crash", "refused", "lost", "unmarked", "uncounted", "down"}
    Users = {"stop", "forget", "forgetAll"}
    MaxFaults = 1
INVARIANTS
    NotAgain
    MarkedWasSearched
    UsageBounded
PROPERTIES
    MemoryExpires
    CapReleases
