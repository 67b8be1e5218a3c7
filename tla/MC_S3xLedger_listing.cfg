\* Listing: ListObjects after puts, against the listing the spec promises.
CONSTANTS
    Threads = {t1, t2}
    Data = {d1}
    Buckets <- MCBuckets
    Objects <- MCObjects
    Prefixes <- MCPrefixes
    Ops <- MCListOps
    ListV2Max = 1
    MaxOps = 2
    NoBucket = NoBucket
    NoObj = NoObj
    None = None
    Failed = Failed
SPECIFICATION Spec
PROPERTIES ListingContract
