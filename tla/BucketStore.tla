---------------------------- MODULE BucketStore ----------------------------
(***************************************************************************)
(* What the ledger engine promises of the buckets (spec 4.5): each         *)
(* mutating S3 operation is one atomic step on the map from bucket names   *)
(* to bucket contents, guarded by the operation's preconditions.  The     *)
(* locks, the DAG round-trips and the datastore pointer are not here: the *)
(* spec's linearization point (the C2 put under the bucket's write lock)  *)
(* is the step.  A failed operation changes nothing, so it is a stutter.  *)
(***************************************************************************)
CONSTANTS
    Buckets,    \* bucket names
    Objects,    \* object names
    Data,       \* object payloads
    NoBucket,   \* the name is not a bucket
    NoObj       \* the bucket holds no object of that name

VARIABLE buckets   \* [Buckets -> [Objects -> object record or NoObj] or NoBucket]

Object      == [bucket : Buckets, name : Objects, data : Data]
Contents    == [Objects -> Object \cup {NoObj}]
EmptyBucket == [o \in Objects |-> NoObj]

Exists(b)     == buckets[b] # NoBucket
Holds(b, o)   == Exists(b) /\ buckets[b][o] # NoObj
SetObject(b, o, v) == buckets' = [buckets EXCEPT ![b][o] = v]

\* CreateBucket: fails BucketExists when the name is taken.
CreateBucket(b) ==
    /\ ~Exists(b)
    /\ buckets' = [buckets EXCEPT ![b] = EmptyBucket]

\* DeleteBucket: fails BucketNotEmpty while any object is in it.
DeleteBucket(b) ==
    /\ Exists(b) /\ \A o \in Objects : buckets[b][o] = NoObj
    /\ buckets' = [buckets EXCEPT ![b] = NoBucket]

\* PutObject: the bucket must exist; the key is (re)bound to a new record.
PutObject(b, o, d) ==
    /\ Exists(b)
    /\ SetObject(b, o, [bucket |-> b, name |-> o, data |-> d])

\* CopyObject: the source as it is now, renamed into the destination.
CopyObject(sb, so, b, o) ==
    /\ Exists(b) /\ Holds(sb, so)
    /\ SetObject(b, o, [buckets[sb][so] EXCEPT !.bucket = b, !.name = o])

\* DeleteObject: a missing object fails ObjectNotFound.
DeleteObject(b, o) ==
    /\ Holds(b, o)
    /\ SetObject(b, o, NoObj)

\* DeleteObjects: one step removes every present name of the batch.
DeleteObjects(b, os) ==
    /\ Exists(b)
    /\ buckets' = [buckets EXCEPT ![b] =
                     [o \in Objects |-> IF o \in os THEN NoObj ELSE @[o]]]

Init == buckets \in [Buckets -> {NoBucket, EmptyBucket}]

\* Only steps that change the buckets are operations: an unchanged store is
\* a stutter of Spec in any case, and saying so first lets TLC dismiss the
\* engine's many steps that never touch the datastore.
Next ==
    /\ buckets' # buckets
    /\ \E b \in Buckets :
           \/ CreateBucket(b)
           \/ DeleteBucket(b)
           \/ \E o \in Objects :
                 \/ \E d \in Data : PutObject(b, o, d)
                 \/ \E sb \in Buckets, so \in Objects : CopyObject(sb, so, b, o)
                 \/ DeleteObject(b, o)
           \/ \E os \in SUBSET Objects : DeleteObjects(b, os)

Spec == Init /\ [][Next]_buckets
=============================================================================
