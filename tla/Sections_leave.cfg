SPECIFICATION Spec
CHECK_DEADLOCK FALSE
CONSTANTS
    None = None
    Apps <- MCApps
    Scenes = {"forms"}
    MaxActs <- MCMaxActs
    MaxServer = 2
    MaxFaults = 1
    MaxStarting = 1
    MaxResetPolls = 1
INVARIANTS
    CanSave
