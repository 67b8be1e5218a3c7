\* Two NewMultipartUploads, or one beside an abort.
CONSTANTS
    Threads = {t1, t2}
    Buckets = {b1, b2}
    Existing = {b1}
    Ids = {i1, i2}
    PartHashes = {h1}
    MaxOps = 1
    Ops <- MCRaceOps
    None = None
    NilMap = NilMap
    NoUpload = NoUpload
    Ok = Ok
    ErrBucket = ErrBucket
    ErrUploadID = ErrUploadID
    Panic = Panic
    Failed = Failed
SYMMETRY MCSymmetry
SPECIFICATION Spec
INVARIANT NoConcurrentMapWrite
