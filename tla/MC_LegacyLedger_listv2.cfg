\* ListObjectsV2 of a bucket holding more objects than the result slice is sized for.
CONSTANTS
    Threads = {t1}
    Buckets = {b1}
    Objects = {o1, o2}
    Data = {d1}
    Ops <- MCListOps
    MaxOps = 3
    DsFaults = FALSE
    ListV2Cap = 1
    NoEntry = NoEntry
    NoObj = NoObj
    None = None
    Ok = Ok
    Failed = Failed
    Panic = Panic

SPECIFICATION Spec
INVARIANTS ListV2InBounds
