\* GET with up to two writes of the key racing it.
CONSTANTS
    Payloads <- MCPayloads
    MaxPuts = 2
    NoObj = NoObj
    None = None
    Ok = Ok
    ErrNotFound = ErrNotFound
    ErrRange = ErrRange
    Panic = Panic
SPECIFICATION Spec
INVARIANT NeverPanics
