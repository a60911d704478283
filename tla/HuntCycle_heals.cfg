SPECIFICATION FairSpec
CONSTANTS
    i1 = i1
    i2 = i2
    NoInstance = NoInstance
    Instances <- MCSolo
    Position <- MCSoloPosition
    Editable <- MCSolo
    Faults = {"crash", "thread", "endLost", "applyLost", "raise", "startLost"}
    MaxResets = 2
    MaxFaults = 2
PROPERTIES
    ResetServed
    LockHeals
    StopEndsWork
