\* Every multipart request and a bucket writer, two goroutines.
CONSTANTS
    Threads = {t1, t2}
    Buckets = {b1, b2}
    Existing = {b1}
    Ids = {i1, i2}
    PartHashes = {h1}
    MaxOps = 2
    Ops <- MCUploadOps
    None = None
    NilMap = NilMap
    NoUpload = NoUpload
    Ok = Ok
    ErrBucket = ErrBucket
    ErrUploadID = ErrUploadID
    Panic = Panic
    Failed = Failed
SYMMETRY MCSymmetry
SPECIFICATION Spec

PROPERTY AbortedUploadRejected
\* A request waiting on the lock NewMultipartUpload leaked never returns:
\* the gateway really stops there (see multipart_lock_leak).
CHECK_DEADLOCK FALSE
