\* Every request, two goroutines, datastore calls that may fail: what the ledger's object map records stays well named.
CONSTANTS
    Threads = {t1, t2}
    Buckets = {b1, b2}
    Objects = {o1, o2}
    Data = {d1}
    Ops <- MCAllOps
    MaxOps = 2
    DsFaults = TRUE
    ListV2Cap = 1
    NoEntry = NoEntry
    NoObj = NoObj
    None = None
    Ok = Ok
    Failed = Failed
    Panic = Panic
SYMMETRY MCSymmetry
SPECIFICATION Spec
INVARIANTS TypeOK LedgerObjectsNamed
