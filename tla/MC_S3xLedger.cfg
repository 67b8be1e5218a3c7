\* Writers: every mutating request, two goroutines, two requests each.
CONSTANTS
    Threads = {t1, t2}
    Data = {d1}
    Buckets <- MCBuckets
    Objects <- MCObjects
    Prefixes <- MCPrefixes
    Ops <- MCWriteOps
    ListV2Max = 1
    MaxOps = 2
    NoBucket = NoBucket
    NoObj = NoObj
    None = None
    Failed = Failed
SYMMETRY MCThreadSymmetry
SPECIFICATION Spec
INVARIANTS TypeOK NoLostUpdate NoCircularWait
PROPERTIES CopySourceStable RefinesBucketStore
