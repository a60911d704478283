CONSTANTS
    k1 = k1
    k2 = k2
    k3 = k3
    Keys <- MCKeys
    Stored <- MCStored
    None = None
    Kept = Kept
    MaxActs <- MCMaxActs
SPECIFICATION Spec
CHECK_DEADLOCK FALSE
INVARIANTS
    TypeOK
    Saved
    LeaveAsks
    RightForm
    
    RightEntry
