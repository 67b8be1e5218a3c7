----------------------------- MODULE Multipart -----------------------------
(***************************************************************************)
(* Multipart uploads in the ledgerStore (gateway-s3x-object.go 580-651,    *)
(* 750-766) running in request goroutines beside the object requests that *)
(* take the bucket write lock (S3xLedger's writers).                       *)
(*                                                                         *)
(* ls.l.MultipartUploads is a plain Go map in memory, read and written     *)
(* with no lock.  A write to it is two steps here (enter, then the change  *)
(* lands and the writer leaves); two goroutines inside a write at once is  *)
(* the data race the Go runtime answers with "fatal error: concurrent map  *)
(* writes" -- or, when it does not notice, both writes land.  The crash    *)
(* ends the process: the in-memory map and locks are gone and in-flight    *)
(* requests fail.                                                          *)
(*                                                                         *)
(* The bucket lock table is reduced to the write lock: NewMultipartUpload  *)
(* only meets the locker through `defer ls.locker.write(bucket)`, which    *)
(* takes the lock when the function returns and drops the unlock.          *)
(***************************************************************************)
EXTENDS Naturals, FiniteSets

CONSTANTS
    Threads,    \* request goroutines
    Buckets,    \* bucket names
    Existing,   \* the buckets that exist (bucket create/delete is S3xLedger's)
    Ids,        \* upload ids the gateway hands out (unique per upload)
    PartHashes, \* CIDs of uploaded parts
    MaxOps,     \* requests each goroutine issues
    Ops,        \* kinds of request in this model
    None, NilMap, NoUpload,
    Ok, ErrBucket, ErrUploadID, Panic, Failed

OpNames == {"new", "part", "abort", "exists", "parts", "objwrite"}

ASSUME Existing \subseteq Buckets /\ Ops \subseteq OpNames /\ MaxOps \in Nat

VARIABLES
    uploads,  \* ls.l.MultipartUploads: NilMap, or [Ids -> upload or NoUpload]
    wlock,    \* [Buckets -> holder of the bucket's write lock, or None]
    inWrite,  \* goroutines inside a write of the uploads map
    pc, req, ret, opsDone,
    used,     \* ghost: ids handed to NewMultipartUpload
    aborted   \* ghost: ids whose AbortMultipartUpload succeeded

vars == <<uploads, wlock, inWrite, pc, req, ret, opsDone, used, aborted>>

\* A MultipartUpload: the bucket of its ObjectInfo and its ObjectParts map.
Upload == [bucket : Buckets, parts : {NilMap} \cup SUBSET PartHashes]

Requests ==
    [op : {"new"}, b : Buckets, id : Ids, h : {None}]
    \cup [op : {"part"}, b : Buckets, id : Ids, h : PartHashes]
    \cup [op : {"abort"}, b : Buckets, id : Ids, h : {None}]
    \cup [op : {"exists", "parts"}, b : {None}, id : Ids, h : {None}]
    \cup [op : {"objwrite"}, b : Buckets, id : {None}, h : {None}]

\* m.MultipartUploads[id] on a map that may be nil: nil map reads as empty.
Lookup(id) == IF uploads = NilMap THEN NoUpload ELSE uploads[id]

\* Ledger.multipartExists: a nil map is ErrInvalidUploadID; otherwise
\* m.MultipartUploads[id].Id reads a field through the map's value, a nil
\* *MultipartUpload when id is absent.
multipartExists(id) ==
    CASE uploads = NilMap           -> ErrUploadID
      [] uploads[id] = NoUpload     -> Panic
      [] OTHER                      -> Ok

Return(t, r) ==
    /\ pc' = [pc EXCEPT ![t] = "idle"]
    /\ ret' = [ret EXCEPT ![t] = r]

Goto(t, s) == pc' = [pc EXCEPT ![t] = s]

Start(t) ==
    /\ pc[t] = "idle"
    /\ opsDone[t] < MaxOps
    /\ \E r \in Requests :
         /\ r.op \in Ops
         /\ r.op = "new" => r.id \notin used
         /\ req' = [req EXCEPT ![t] = r]
         /\ pc' = [pc EXCEPT ![t] = r.op]
         /\ used' = IF r.op = "new" THEN used \cup {r.id} ELSE used
    /\ opsDone' = [opsDone EXCEPT ![t] = @ + 1]
    /\ UNCHANGED <<uploads, wlock, inWrite, ret, aborted>>

(***************************************************************************)
(* A write of the uploads map lands.  If another goroutine is inside a     *)
(* write too, the runtime may instead abort the process.                   *)
(***************************************************************************)
Crash ==
    /\ uploads' = NilMap
    /\ wlock' = [b \in Buckets |-> None]
    /\ inWrite' = {}
    /\ pc' = [t \in Threads |-> "idle"]
    /\ ret' = [t \in Threads |-> IF pc[t] = "idle" THEN ret[t] ELSE Failed]
    /\ UNCHANGED aborted

\* `land` is the rest of the step (pc, ret, aborted) when the write lands.
MapWrite(t, newUploads, land) ==
    /\ t \in inWrite
    /\ \/ /\ uploads' = newUploads
          /\ inWrite' = inWrite \ {t}
          /\ UNCHANGED wlock
          /\ land
       \/ inWrite \ {t} # {} /\ Crash

\* NewMultipartUpload: the deferred locker.write is registered first, then
\* assertBucketExits; on error the function returns (and the deferred
\* call still runs).
NewCheck(t) ==
    /\ pc[t] = "new"
    /\ IF req[t].b \in Existing
       THEN Goto(t, "new_map") /\ inWrite' = inWrite \cup {t} /\ UNCHANGED ret
       ELSE Goto(t, "new_lock") /\ ret' = [ret EXCEPT ![t] = ErrBucket]
            /\ UNCHANGED inWrite
    /\ UNCHANGED <<uploads, wlock, req, opsDone, used, aborted>>

\* make the map if nil; MultipartUploads[id] = &MultipartUpload{info, id}:
\* ObjectParts is left nil.
NewMapWrite(t) ==
    LET base == IF uploads = NilMap THEN [i \in Ids |-> NoUpload] ELSE uploads
    IN
    /\ pc[t] = "new_map"
    /\ MapWrite(t, [base EXCEPT ![req[t].id] = [bucket |-> req[t].b, parts |-> NilMap]],
                Goto(t, "new_lock") /\ ret' = [ret EXCEPT ![t] = Ok]
                /\ UNCHANGED aborted)
    /\ UNCHANGED <<req, opsDone, used>>

\* The deferred ls.locker.write(bucket) at return: Lock() blocks until the
\* lock is free and the returned unlock function is discarded.
NewDeferredLock(t) ==
    /\ pc[t] = "new_lock"
    /\ wlock[req[t].b] = None
    /\ wlock' = [wlock EXCEPT ![req[t].b] = t]
    /\ Goto(t, "idle")
    /\ UNCHANGED <<uploads, inWrite, req, ret, opsDone, used, aborted>>

\* PutObjectPart: assertBucketExits, look the upload up, then
\* mpart.ObjectParts[partHash] = ... (a write to a nil map panics).
PutObjectPart(t) ==
    LET r == req[t] IN
    /\ pc[t] = "part"
    /\ CASE r.b \notin Existing           -> Return(t, ErrBucket) /\ UNCHANGED uploads
         [] Lookup(r.id) = NoUpload       -> Return(t, ErrUploadID) /\ UNCHANGED uploads
         [] Lookup(r.id).parts = NilMap   -> Return(t, Panic) /\ UNCHANGED uploads
         [] OTHER -> /\ uploads' = [uploads EXCEPT ![r.id].parts = @ \cup {r.h}]
                     /\ Return(t, Ok)
    /\ UNCHANGED <<wlock, inWrite, req, opsDone, used, aborted>>

\* AbortMultipartUpload: bucketExists, multipartExists, then
\* deleteMultipartID (whichever bucket the upload belongs to).
AbortCheck(t) ==
    LET r == req[t] IN
    /\ pc[t] = "abort"
    /\ CASE r.b \notin Existing       -> Return(t, ErrBucket) /\ UNCHANGED inWrite
         [] multipartExists(r.id) # Ok -> Return(t, multipartExists(r.id))
                                          /\ UNCHANGED inWrite
         [] OTHER -> Goto(t, "abort_map") /\ inWrite' = inWrite \cup {t}
                     /\ UNCHANGED ret
    /\ UNCHANGED <<uploads, wlock, req, opsDone, used, aborted>>

\* Mutant: the entry looked up by bucket name (as GetMultipartHashes does).
deleteMultipartIDByBucket(bucketName, multipartID) ==
    [uploads EXCEPT ![bucketName] = NoUpload]

\* Ledger.deleteMultipartID: delete(m.MultipartUploads, multipartID).
deleteMultipartID(bucketName, multipartID) ==
    [uploads EXCEPT ![multipartID] = NoUpload]

AbortMapWrite(t) ==
    /\ pc[t] = "abort_map"
    /\ MapWrite(t, deleteMultipartID(req[t].b, req[t].id),
                Return(t, Ok) /\ aborted' = aborted \cup {req[t].id})
    /\ UNCHANGED <<req, opsDone, used>>

\* MultipartIDExists, and GetObjectParts (multipartExists, then the
\* upload's ObjectParts).
ReadUpload(t) ==
    LET r == req[t] IN
    /\ pc[t] \in {"exists", "parts"}
    /\ Return(t, IF pc[t] = "parts" /\ multipartExists(r.id) = Ok
                 THEN uploads[r.id].parts ELSE multipartExists(r.id))
    /\ UNCHANGED <<uploads, wlock, inWrite, req, opsDone, used, aborted>>

\* An object request that writes the bucket (PutObject, CopyObject, ...):
\* takes the bucket's write lock, and its deferred unlock releases it.
ObjWriteLock(t) ==
    /\ pc[t] = "objwrite"
    /\ wlock[req[t].b] = None
    /\ wlock' = [wlock EXCEPT ![req[t].b] = t]
    /\ Goto(t, "objwrite_unlock")
    /\ UNCHANGED <<uploads, inWrite, req, ret, opsDone, used, aborted>>

ObjWriteUnlock(t) ==
    /\ pc[t] = "objwrite_unlock"
    /\ wlock' = [wlock EXCEPT ![req[t].b] = None]
    /\ Return(t, Ok)
    /\ UNCHANGED <<uploads, inWrite, req, opsDone, used, aborted>>

Init ==
    /\ uploads = NilMap
    /\ wlock = [b \in Buckets |-> None]
    /\ inWrite = {}
    /\ pc = [t \in Threads |-> "idle"]
    /\ req = [t \in Threads |-> CHOOSE r \in Requests : r.op = "exists"]
    /\ ret = [t \in Threads |-> None]
    /\ opsDone = [t \in Threads |-> 0]
    /\ used = {}
    /\ aborted = {}

Serve(t) ==
    \/ NewCheck(t) \/ NewMapWrite(t) \/ NewDeferredLock(t)
    \/ PutObjectPart(t) \/ AbortCheck(t) \/ AbortMapWrite(t) \/ ReadUpload(t)
    \/ ObjWriteLock(t) \/ ObjWriteUnlock(t)

\* Every client has sent its requests and all of them returned.
Done ==
    /\ \A t \in Threads : pc[t] = "idle" /\ opsDone[t] = MaxOps
    /\ UNCHANGED vars

Next == \/ \E t \in Threads : Start(t) \/ Serve(t)
        \/ Done

\* The Go scheduler runs every goroutine that can run.
Spec == Init /\ [][Next]_vars /\ \A t \in Threads : WF_vars(Serve(t))

(***************************************************************************)
(* Properties.                                                             *)
(***************************************************************************)
TypeOK ==
    /\ uploads \in {NilMap} \cup [Ids -> Upload \cup {NoUpload}]
    /\ wlock \in [Buckets -> Threads \cup {None}]
    /\ inWrite \subseteq Threads
    /\ pc \in [Threads -> OpNames \cup {"idle", "new_map", "new_lock",
                                       "abort_map", "objwrite_unlock"}]
    /\ req \in [Threads -> Requests]
    /\ ret \in [Threads -> {None, Ok, ErrBucket, ErrUploadID, Panic, Failed, NilMap}
                           \cup SUBSET PartHashes]
    /\ opsDone \in [Threads -> 0..MaxOps]
    /\ used \subseteq Ids /\ aborted \subseteq used

\* The uploads map is never written by two goroutines at once (spec 9:
\* the multipart map is the shared mutable map and must be guarded).
\* NewMultipartUpload and AbortMultipartUpload write ls.l.MultipartUploads
\* holding no lock that excludes each other.
NoConcurrentMapWrite == Cardinality(inWrite) <= 1

\* An aborted upload stays dead (spec 4.5 state machine, scenario S7): a
\* PutObjectPart naming an upload some other request aborted fails with
\* InvalidUploadID (or the bucket error, or the request dies with the
\* process), never records a part or panics.
AbortedUploadRejected ==
    [][\A t \in Threads :
         (pc[t] = "part" /\ req[t].id \in aborted /\ pc'[t] = "idle")
            => ret'[t] \in {ErrUploadID, ErrBucket, Failed}]_vars

\* Every request eventually returns: no goroutine waits forever on a bucket
\* lock (NewMultipartUpload's deferred locker.write keeps the lock).
RequestsReturn == \A t \in Threads : pc[t] # "idle" ~> pc[t] = "idle"
=============================================================================
