SPECIFICATION FairSpec
CHECK_DEADLOCK FALSE
CONSTANTS
    None = None
    Apps <- MCApps
    Scenes <- MCScenes
    MaxActs <- MCMaxActs
    MaxServer = 2
    MaxFaults = 1
    MaxStarting = 1
    MaxResetPolls = 2
INVARIANTS
    TypeOK
    HashNamesSection
    ShowsSelected
    PollsBelong
PROPERTIES
    EditsAsked
    CountdownAgrees
