\* Two concurrent PutObjects into one bucket.
CONSTANTS
    Threads = {t1, t2}
    Buckets = {b1}
    Objects = {o1, o2}
    Data = {d1}
    Ops <- MCPutOps
    MaxOps = 1
    DsFaults = FALSE
    ListV2Cap = 1
    NoEntry = NoEntry
    NoObj = NoObj
    None = None
    Ok = Ok
    Failed = Failed
    Panic = Panic

SPECIFICATION Spec
INVARIANTS LedgerMatchesRecord
