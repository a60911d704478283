CONSTANTS
    k1 = k1
    k2 = k2
    a1 = a1
    a2 = a2
    b1 = b1
    b2 = b2
    new = new
    Keys <- MCKeys
    Items <- MCItems
    Stored <- MCStored
    Added = new
    None = None
    Current = Current
    MaxActs <- MCMaxActs
    MaxChosen = 2
SPECIFICATION Spec
CHECK_DEADLOCK FALSE
INVARIANTS
    TypeOK
    ShowsServer
    OfSelection
    NoHarm
    ByIdSafe
    Released
