\* Lock progress: three goroutines, one request each: readers, writers and two-lock copies.
CONSTANTS
    Threads = {t1, t2, t3}
    Data = {d1}
    Buckets <- MCBuckets
    Objects <- MCOneObject
    Prefixes <- MCNoPrefix
    Ops <- MCProgressOps
    ListV2Max = 1
    MaxOps = 1
    NoBucket = NoBucket
    NoObj = NoObj
    None = None
    Failed = Failed
SPECIFICATION Spec
INVARIANTS NoCircularWait

