SPECIFICATION Spec
CONSTANTS
    i1 = i1
    i2 = i2
    NoInstance = NoInstance
    Instances <- MCInstances
    Position <- MCPosition
    Editable = {i1}
    Faults = {"crash", "thread", "endLost", "applyLost"}
    MaxResets = 2
    MaxFaults = 1
INVARIANTS
    TypeOK
    CycleLockAccounted
    ResetAccounted
    RunningShownLocked
PROPERTIES
    KeepsAgenda
