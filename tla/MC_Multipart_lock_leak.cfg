\* NewMultipartUpload and an object write on the same bucket.
CONSTANTS
    Threads = {t1, t2}
    Buckets = {b1, b2}
    Existing = {b1}
    Ids = {i1}
    PartHashes = {h1}
    MaxOps = 1
    Ops <- MCLeakOps
    None = None
    NilMap = NilMap
    NoUpload = NoUpload
    Ok = Ok
    ErrBucket = ErrBucket
    ErrUploadID = ErrUploadID
    Panic = Panic
    Failed = Failed
SYMMETRY MCSymmetry
SPECIFICATION Spec
PROPERTY RequestsReturn
\* The hang is what this run is about; it is reported by RequestsReturn.
CHECK_DEADLOCK FALSE
