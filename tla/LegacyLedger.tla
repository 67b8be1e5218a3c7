---------------------------- MODULE LegacyLedger ----------------------------
(***************************************************************************)
(* The first version of the engine: the LedgerStore of part_000 (one       *)
(* sync.RWMutex around a single Ledger record kept under ledgerstatekey)   *)
(* driven by the first version of the S3 object handlers                   *)
(* (gateway-s3x-object.go lines 17-282).                                   *)
(*                                                                         *)
(* Every public LedgerStore method takes the mutex, reads the whole ledger *)
(* from the datastore, changes it and writes it back: one atomic step.  A  *)
(* handler makes several such calls, and builds the new bucket record in   *)
(* IPFS between them without any lock, so handlers of concurrent requests  *)
(* interleave between their ledger calls.                                  *)
(* Either datastore call of a method may fail (DsFaults); the method then *)
(* returns an error, or "false", and the stored ledger is unchanged.       *)
(*                                                                         *)
(* CIDs are modelled by the records they address (content addressing):     *)
(* an object CID is the object record, a bucket CID the bucket's map from  *)
(* object names to object CIDs.                                            *)
(***************************************************************************)
EXTENDS Naturals, FiniteSets

CONSTANTS
    Threads,     \* request goroutines
    Buckets,     \* bucket names
    Objects,     \* object names
    Data,        \* object payloads
    ListV2Cap,   \* the 1000 ListObjectsV2 sizes its result slice to, scaled down
    MaxOps,      \* requests each goroutine issues
    Ops,         \* kinds of request sent in this model
    DsFaults,    \* whether datastore Get and Put may fail
    NoEntry, NoObj, None, Ok, Failed, Panic

OpNames == {"put", "copy", "delete", "deletes", "makebucket", "deletebucket",
            "get", "head", "getn", "list", "listv2"}

ASSUME ListV2Cap \in Nat /\ MaxOps \in Nat /\ Ops \subseteq OpNames /\ DsFaults \in BOOLEAN

VARIABLES
    ledger,   \* the Ledger record in the datastore: bucket name -> entry
    pc,       \* [Threads -> step of the handler]
    req,      \* [Threads -> the request]
    local,    \* [Threads -> CIDs the handler holds between calls]
    ret,      \* [Threads -> the handler's result]
    opsDone   \* [Threads -> requests issued]

vars == <<ledger, pc, req, local, ret, opsDone>>

ObjRec    == [bucket : Buckets, name : Objects, data : Data]
BucketRec == [Objects -> ObjRec \cup {NoObj}]
EmptyRec  == [o \in Objects |-> NoObj]
\* LedgerBucketEntry: the bucket CID and the ledger's own object map.
Entry     == [hash : BucketRec, objs : [Objects -> ObjRec \cup {NoObj}]]

Request == [op : OpNames, b : Buckets, o : Objects, d : Data,
            sb : Buckets, so : Objects, os : SUBSET Objects]

NoLocal == [obj |-> NoObj, rec |-> EmptyRec, names |-> {}, slots |-> 0]

(***************************************************************************)
(* LedgerStore methods (part_000).  Each is atomic under le.Lock/RLock.    *)
(***************************************************************************)
bucketExists(l, b) == l[b] # NoEntry

\* NewBucket: fails when the bucket exists, else a fresh entry.
NewBucket(l, b, hash) ==
    IF bucketExists(l, b) THEN l
    ELSE [l EXCEPT ![b] = [hash |-> hash, objs |-> EmptyRec]]

\* Mutant: the change made in memory and never put back (as RemoveObject).
UpdateBucketHashUnsaved(l, b, hash) == l

\* UpdateBucketHash: replaces the bucket CID of an existing bucket.
UpdateBucketHash(l, b, hash) ==
    IF bucketExists(l, b) THEN [l EXCEPT ![b].hash = hash] ELSE l

\* Mutant: a missing bucket's entry made on the spot, with no bucket CID.
AddObjectToBucketCreating(l, b, o, obj) ==
    IF bucketExists(l, b) THEN [l EXCEPT ![b].objs[o] = obj]
    ELSE [l EXCEPT ![b] = [objs |-> [EmptyRec EXCEPT ![o] = obj]]]

\* AddObjectToBucket: records the object CID in the ledger's object map.
AddObjectToBucket(l, b, o, obj) ==
    IF bucketExists(l, b) THEN [l EXCEPT ![b].objs[o] = obj] ELSE l

\* RemoveObject: deletes the entry from the ledger it read, and returns
\* without putLedger: the datastore keeps the old ledger.
RemoveObject(l, b, o) == l

\* DeleteBucket: drops the entry, objects or not.
DeleteBucket(l, b) ==
    IF bucketExists(l, b) THEN [l EXCEPT ![b] = NoEntry] ELSE l

objectExists(l, b, o) == bucketExists(l, b) /\ l[b].objs[o] # NoObj

\* getLedger's ds.Get and Unmarshal, putLedger's Marshal and ds.Put: each
\* public method reads and writes the whole ledger, and either call may
\* fail.  ok is whether they succeeded.
DsResults == IF DsFaults THEN BOOLEAN ELSE {TRUE}

\* A setter's outcome: a failed getLedger or putLedger leaves the stored
\* ledger as it was.
Store(ok, l1) == ledger' = IF ok THEN l1 ELSE ledger

\* Getters.  A failed getLedger is "false" or an error.
BucketExists(ok, l, b)    == ok /\ bucketExists(l, b)
ObjectExists(ok, l, b, o) == ok /\ objectExists(l, b, o)

GetBucketHash(ok, l, b) == IF BucketExists(ok, l, b) THEN l[b].hash ELSE NoEntry

GetObjectHash(ok, l, b, o) ==
    IF ObjectExists(ok, l, b, o) THEN l[b].objs[o] ELSE NoObj

\* The names of the map it returns (each object entry carries its key as
\* its Name: AddObjectToBucket sets both).
GetObjectHashes(ok, l, b) ==
    IF BucketExists(ok, l, b) THEN {o \in Objects : l[b].objs[o] # NoObj}
    ELSE NoEntry

\* getMinioObjectInfo: the object's CID by GetObjectHash, then the object.
MinioObjectInfo(ok, l, b, o) == GetObjectHash(ok, l, b, o) # NoObj

(***************************************************************************)
(* Handlers: one step per LedgerStore call, the IPFS work done between     *)
(* calls joined to the step before it.                                     *)
(***************************************************************************)
Requests ==
    [op : {"put"}, b : Buckets, o : Objects, d : Data, sb : {None}, so : {None}, os : {{}}]
    \cup [op : {"copy"}, b : Buckets, o : Objects, d : {None}, sb : Buckets,
          so : Objects, os : {{}}]
    \cup [op : {"delete", "get", "head", "getn"}, b : Buckets, o : Objects, d : {None},
          sb : {None}, so : {None}, os : {{}}]
    \cup [op : {"deletes"}, b : Buckets, o : {None}, d : {None},
          sb : {None}, so : {None}, os : SUBSET Objects \ {{}}]
    \cup [op : {"makebucket", "deletebucket", "list", "listv2"}, b : Buckets,
          o : {None}, d : {None}, sb : {None}, so : {None}, os : {{}}]

Start(t) ==
    /\ pc[t] = "idle"
    /\ opsDone[t] < MaxOps
    /\ \E r \in {r \in Requests : r.op \in Ops} :
         /\ req' = [req EXCEPT ![t] = r]
         /\ pc' = [pc EXCEPT ![t] = r.op]
         /\ local' = [local EXCEPT ![t].names = r.os]
    /\ ret' = [ret EXCEPT ![t] = None]
    /\ opsDone' = [opsDone EXCEPT ![t] = @ + 1]
    /\ UNCHANGED ledger

Return(t, r) ==
    /\ pc' = [pc EXCEPT ![t] = "idle"]
    /\ ret' = [ret EXCEPT ![t] = r]
    /\ local' = [local EXCEPT ![t] = NoLocal]

Goto(t, step) == pc' = [pc EXCEPT ![t] = step]

\* A read-only call: on to step, or return Failed.
Check(t, cond, step) ==
    /\ IF cond THEN Goto(t, step) /\ UNCHANGED <<local, ret>>
               ELSE Return(t, Failed)
    /\ UNCHANGED <<ledger, req, opsDone>>

\* PutObject: BucketExists, then objectToIPFS of the object record (which
\* may fail).
PutCheckAndSaveObject(t) ==
    LET r == req[t] IN
    /\ pc[t] = "put"
    /\ \E ok \in DsResults :
         IF ~BucketExists(ok, ledger, r.b) THEN Return(t, Failed)
         ELSE \/ /\ Goto(t, "put_bucket")
                 /\ local' = [local EXCEPT ![t].obj =
                                [bucket |-> r.b, name |-> r.o, data |-> r.d]]
                 /\ UNCHANGED ret
              \/ Return(t, Failed)
    /\ UNCHANGED <<ledger, req, opsDone>>

\* addObjectToBucketAndIPFS: GetBucketHash, load the bucket from IPFS, add
\* the object, save it: a new bucket CID.  No lock is held across it.
AddToBucketRecord(t, next) ==
    LET r == req[t] IN
    /\ \E ok \in DsResults :
         LET rec == GetBucketHash(ok, ledger, r.b) IN
         IF rec = NoEntry THEN Return(t, Failed)
         ELSE \/ /\ Goto(t, next)
                 /\ local' = [local EXCEPT ![t].rec = [rec EXCEPT ![r.o] = local[t].obj]]
                 /\ UNCHANGED ret
              \/ Return(t, Failed)
    /\ UNCHANGED <<ledger, req, opsDone>>

PutBucketRecord(t) == pc[t] = "put_bucket" /\ AddToBucketRecord(t, "put_update")

\* UpdateBucketHash(bucket, bucketHash).
PutUpdateHash(t) ==
    LET r == req[t] IN
    /\ pc[t] = "put_update"
    /\ \E ok \in DsResults :
         /\ Store(ok, UpdateBucketHash(ledger, r.b, local[t].rec))
         /\ IF BucketExists(ok, ledger, r.b) THEN Goto(t, "put_add") /\ UNCHANGED <<local, ret>>
                                            ELSE Return(t, Failed)
    /\ UNCHANGED <<req, opsDone>>

\* AddObjectToBucket(bucket, object, objectHash).
PutAddObject(t) ==
    LET r == req[t] IN
    /\ pc[t] = "put_add"
    /\ \E ok \in DsResults :
         /\ Store(ok, AddObjectToBucket(ledger, r.b, r.o, local[t].obj))
         /\ IF BucketExists(ok, ledger, r.b) THEN Goto(t, "info") /\ UNCHANGED <<local, ret>>
                                            ELSE Return(t, Failed)
    /\ UNCHANGED <<req, opsDone>>

\* The getMinioObjectInfo ending PutObject, CopyObject and GetObjectInfo.
\* GetObjectNInfo goes on: rs.GetOffsetLength of the info's size (an
\* invalid range fails), then GetObject in a goroutine writing the pipe.
ObjectInfoH(t) ==
    /\ pc[t] = "info"
    /\ \E ok \in DsResults :
         CASE ~MinioObjectInfo(ok, ledger, req[t].b, req[t].o) -> Return(t, Failed)
           [] req[t].op = "getn" -> \/ Goto(t, "get") /\ UNCHANGED <<local, ret>>
                                   \/ Return(t, Failed)
           [] OTHER -> Return(t, Ok)
    /\ UNCHANGED <<ledger, req, opsDone>>

\* CopyObject: BucketExists(srcBucket), BucketExists(dstBucket).
CopyCheckSrcBucket(t) ==
    /\ pc[t] = "copy"
    /\ \E ok \in DsResults : Check(t, BucketExists(ok, ledger, req[t].sb), "copy_dst")

CopyCheckDstBucket(t) ==
    /\ pc[t] = "copy_dst"
    /\ \E ok \in DsResults : Check(t, BucketExists(ok, ledger, req[t].b), "copy_hash")

\* GetObjectHash(srcBucket, srcObject).
CopyGetObjectHash(t) ==
    LET r == req[t] IN
    /\ pc[t] = "copy_hash"
    /\ \E ok \in DsResults :
         LET h == GetObjectHash(ok, ledger, r.sb, r.so) IN
         IF h = NoObj THEN Return(t, Failed)
         ELSE Goto(t, "copy_bucket") /\ local' = [local EXCEPT ![t].obj = h]
              /\ UNCHANGED ret
    /\ UNCHANGED <<ledger, req, opsDone>>

\* addObjectToBucketAndIPFS(dstObject, objHash, dstBucket): the source
\* object's CID, naming the source, goes in under the destination name.
CopyBucketRecord(t) == pc[t] = "copy_bucket" /\ AddToBucketRecord(t, "copy_update")

\* Mutant: the copy also recorded in the ledger's object map, with the
\* source object's CID.
CopyUpdateHashAndLedger(t) ==
    LET r == req[t] IN
    /\ pc[t] = "copy_update"
    /\ \E ok \in DsResults :
         /\ Store(ok, AddObjectToBucket(UpdateBucketHash(ledger, r.b, local[t].rec),
                                        r.b, r.o, local[t].obj))
         /\ IF BucketExists(ok, ledger, r.b) THEN Goto(t, "info") /\ UNCHANGED <<local, ret>>
                                            ELSE Return(t, Failed)
    /\ UNCHANGED <<req, opsDone>>

\* UpdateBucketHash(dstBucket, dstBucketHash); no AddObjectToBucket is
\* made, so the getMinioObjectInfo after it finds the destination only if
\* the object map already had it.
CopyUpdateHash(t) ==
    LET r == req[t] IN
    /\ pc[t] = "copy_update"
    /\ \E ok \in DsResults :
         /\ Store(ok, UpdateBucketHash(ledger, r.b, local[t].rec))
         /\ IF BucketExists(ok, ledger, r.b) THEN Goto(t, "info") /\ UNCHANGED <<local, ret>>
                                            ELSE Return(t, Failed)
    /\ UNCHANGED <<req, opsDone>>

\* DeleteObject: RemoveObject, whose change never reaches the datastore.
DeleteObjectH(t) ==
    LET r == req[t] IN
    /\ pc[t] = "delete"
    /\ \E ok \in DsResults :
         /\ Store(ok, RemoveObject(ledger, r.b, r.o))
         /\ Return(t, IF ObjectExists(ok, ledger, r.b, r.o) THEN Ok ELSE Failed)
    /\ UNCHANGED <<req, opsDone>>

\* DeleteObjects: RemoveObject for each name in turn (one call per step);
\* the errors are collected, the call itself never fails.
DeleteObjectsH(t) ==
    LET r == req[t] IN
    /\ pc[t] = "deletes"
    /\ \E o \in local[t].names, ok \in DsResults :
         LET missing == IF ObjectExists(ok, ledger, r.b, o) THEN {} ELSE {o}
             ret1 == [missing |-> (IF ret[t] = None THEN {} ELSE ret[t].missing)
                                  \cup missing]
         IN /\ Store(ok, RemoveObject(ledger, r.b, o))
            /\ IF local[t].names = {o} THEN Return(t, ret1)
               ELSE /\ ret' = [ret EXCEPT ![t] = ret1]
                    /\ local' = [local EXCEPT ![t].names = @ \ {o}]
                    /\ UNCHANGED pc
    /\ UNCHANGED <<req, opsDone>>

\* MakeBucket: an empty bucket record saved to IPFS, then NewBucket.
MakeBucketH(t) ==
    LET r == req[t] IN
    /\ pc[t] = "makebucket"
    /\ \E ok \in DsResults :
         /\ Store(ok, NewBucket(ledger, r.b, EmptyRec))
         /\ Return(t, IF ok /\ ~bucketExists(ledger, r.b) THEN Ok ELSE Failed)
    /\ UNCHANGED <<req, opsDone>>

\* DeleteBucket: LedgerStore.DeleteBucket.
DeleteBucketH(t) ==
    LET r == req[t] IN
    /\ pc[t] = "deletebucket"
    /\ \E ok \in DsResults :
         /\ Store(ok, DeleteBucket(ledger, r.b))
         /\ Return(t, IF BucketExists(ok, ledger, r.b) THEN Ok ELSE Failed)
    /\ UNCHANGED <<req, opsDone>>

\* GetObject: ObjectExists, then objectFromBucket: the bucket record named
\* by GetBucketHash, and the object it lists.
GetObjectH(t) ==
    /\ pc[t] = "get"
    /\ \E ok \in DsResults : Check(t, ObjectExists(ok, ledger, req[t].b, req[t].o), "get_read")

GetObjectRead(t) ==
    LET r == req[t] IN
    /\ pc[t] = "get_read"
    /\ \E ok \in DsResults :
         LET rec == GetBucketHash(ok, ledger, r.b) IN
         Return(t, IF rec # NoEntry /\ rec[r.o] # NoObj THEN rec[r.o].data ELSE Failed)
    /\ UNCHANGED <<ledger, req, opsDone>>

\* GetObjectInfo, and GetObjectNInfo's call of it: BucketExists, then
\* getMinioObjectInfo.
GetObjectInfoH(t) ==
    /\ pc[t] \in {"head", "getn"}
    /\ \E ok \in DsResults : Check(t, BucketExists(ok, ledger, req[t].b), "info")

\* ListObjects and ListObjectsV2: BucketExists, then GetObjectHashes.
ListCheckBucket(t) ==
    /\ pc[t] \in {"list", "listv2"}
    /\ \E ok \in DsResults : Check(t, BucketExists(ok, ledger, req[t].b), "list_hashes")

\* The result slice: len(objHashes) entries, for ListObjectsV2 at most
\* 1000 (ListV2Cap).
ResultSlots(op, n) == IF op = "listv2" /\ n >= ListV2Cap THEN ListV2Cap ELSE n

ListGetHashes(t) ==
    LET r == req[t] IN
    /\ pc[t] = "list_hashes"
    /\ \E ok \in DsResults :
         LET hs == GetObjectHashes(ok, ledger, r.b) IN
         CASE hs = NoEntry -> Return(t, Failed)
           [] hs = {}      -> Return(t, Ok)
           [] OTHER        ->
                /\ Goto(t, "list_info")
                /\ local' = [local EXCEPT ![t].names = hs,
                                          ![t].slots = ResultSlots(r.op, Cardinality(hs))]
                /\ UNCHANGED ret
    /\ UNCHANGED <<ledger, req, opsDone>>

\* One turn of the loop over the map (in Go's random order):
\* getMinioObjectInfo, then loi.Objects[count] = info, which panics once
\* count reaches the slice's length.
ListObjectInfo(t) ==
    LET r == req[t] IN
    /\ pc[t] = "list_info"
    /\ \E o \in local[t].names, ok \in DsResults :
         CASE ~MinioObjectInfo(ok, ledger, r.b, o) -> Return(t, Failed)
           [] local[t].slots = 0                  -> Return(t, Panic)
           [] local[t].names = {o}                -> Return(t, Ok)
           [] OTHER ->
                /\ local' = [local EXCEPT ![t].names = @ \ {o}, ![t].slots = @ - 1]
                /\ UNCHANGED <<pc, ret>>
    /\ UNCHANGED <<ledger, req, opsDone>>

(***************************************************************************)
(* Specification.                                                          *)
(***************************************************************************)
Init ==
    /\ ledger \in [Buckets -> {NoEntry, [hash |-> EmptyRec, objs |-> EmptyRec]}]
    /\ pc = [t \in Threads |-> "idle"]
    /\ req = [t \in Threads |-> CHOOSE r \in Requests : r.op = "list"]
    /\ local = [t \in Threads |-> NoLocal]
    /\ ret = [t \in Threads |-> None]
    /\ opsDone = [t \in Threads |-> 0]

Serve(t) ==
    \/ PutCheckAndSaveObject(t) \/ PutBucketRecord(t) \/ PutUpdateHash(t)
    \/ PutAddObject(t) \/ ObjectInfoH(t)
    \/ CopyCheckSrcBucket(t) \/ CopyCheckDstBucket(t) \/ CopyGetObjectHash(t)
    \/ CopyBucketRecord(t) \/ CopyUpdateHash(t)
    \/ DeleteObjectH(t) \/ DeleteObjectsH(t) \/ MakeBucketH(t) \/ DeleteBucketH(t)
    \/ GetObjectH(t) \/ GetObjectRead(t) \/ GetObjectInfoH(t)
    \/ ListCheckBucket(t) \/ ListGetHashes(t) \/ ListObjectInfo(t)

Done ==
    /\ \A t \in Threads : pc[t] = "idle" /\ opsDone[t] = MaxOps
    /\ UNCHANGED vars

Next == \/ \E t \in Threads : Start(t) \/ Serve(t)
        \/ Done

Spec == Init /\ [][Next]_vars /\ \A t \in Threads : WF_vars(Serve(t))

(***************************************************************************)
(* Properties.                                                             *)
(***************************************************************************)
TypeOK ==
    /\ ledger \in [Buckets -> Entry \cup {NoEntry}]
    /\ pc \in [Threads -> OpNames \cup {"idle", "put_bucket", "put_update", "put_add",
                                       "info", "copy_dst", "copy_hash", "copy_bucket",
                                       "copy_update", "get_read", "list_hashes",
                                       "list_info"}]
    /\ req \in [Threads -> Requests]
    /\ local \in [Threads -> [obj : ObjRec \cup {NoObj}, rec : BucketRec,
                              names : SUBSET Objects, slots : 0..Cardinality(Objects)]]
    /\ ret \in [Threads -> Data \cup {None, Ok, Failed, Panic} \cup [missing : SUBSET Objects]]
    /\ opsDone \in [Threads -> 0..MaxOps]

\* A bucket no handler is in the middle of changing.
Quiet(b) ==
    \A t \in Threads : pc[t] \in {"put_bucket", "put_update", "put_add",
                                  "copy_bucket", "copy_update"} => req[t].b # b

\* Ledger/record agreement: once no PutObject or CopyObject is under way on
\* a bucket, the bucket record its ledger CID names lists exactly the
\* objects of the ledger's object map (the ledger's two copies of the
\* bucket's contents agree; GetObject reads one, ListObjects the other).
LedgerMatchesRecord ==
    \A b \in Buckets :
        bucketExists(ledger, b) /\ Quiet(b) => ledger[b].hash = ledger[b].objs

\* Every object the ledger's object map records under <<b, o>> is the
\* object record made for bucket b and name o: PutObject stores the CID of
\* the record it built for that bucket and key, whatever requests
\* interleave between its calls.
LedgerObjectsNamed ==
    \A b \in Buckets, o \in Objects :
        objectExists(ledger, b, o) =>
            ledger[b].objs[o].bucket = b /\ ledger[b].objs[o].name = o

\* ListObjectsV2 never indexes past the result slice it allocated.
ListV2InBounds ==
    \A t \in Threads : ret[t] # Panic
=============================================================================
