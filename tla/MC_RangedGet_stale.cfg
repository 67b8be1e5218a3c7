\* GET with one write of the key racing it.
CONSTANTS
    Payloads <- MCPayloads
    MaxPuts = 1
    NoObj = NoObj
    None = None
    Ok = Ok
    ErrNotFound = ErrNotFound
    ErrRange = ErrRange
    Panic = Panic
SPECIFICATION Spec
PROPERTY ServedMatchesInfo
